--------------------------- MODULE Bloques_proofs ---------------------------
(***************************************************************************)
(* The use of the blocks of the nodes, for any nodes, capacity, files,     *)
(* uploads and bounds.  While nothing is formatted and the nodes arrive    *)
(* and are enabled once each, before the first upload, a block in use is   *)
(* never free, is used once, holds what its copy was made of, and MongoDB  *)
(* says the same at any moment a crash may come.  If besides only the      *)
(* console uploads, MongoDB agrees with memory between operations and,     *)
(* with three nodes and no crash, uploads are complete and no block is     *)
(* lost.                                                                   *)
(***************************************************************************)
EXTENDS MDFS_proofs

-----------------------------------------------------------------------------
(* The uses of the blocks of the nodes.                                    *)

(* Who uses what: block nro of file arch has a copy, and its content.      *)
Uso == [arch : Nat, nro : Nat, copia : UnaCopia, dato : Seq(Nat)]

(* Block 0 is what a node without free blocks answers: it is not counted.  *)
Usa(b, u) == u.copia \in ToSet(b.copias) /\ u.dato = b.dato /\ u.copia.bloque # 0

EnLista(lista, u) ==
  /\ u.arch \in DOMAIN lista
  /\ u.nro \in DOMAIN lista[u.arch].bloques
  /\ Usa(lista[u.arch].bloques[u.nro], u)

UsosDe(lista) == {u \in Uso : EnLista(lista, u)}

(* The block that a thread is sending will be the next one of archivo.     *)
EnCamino == {"busca", "toma", "manda"}
Siguiente(u) == u.arch = archivo /\ u.nro = Len(archivos[archivo].bloques) + 1
Enviado(h, u) == en[h] \in EnCamino /\ Siguiente(u) /\ Usa(mano[h].bloque, u)
PorEnviar(h, u) ==
  /\ en[h] = "manda" /\ Siguiente(u)
  /\ u.copia = mano[h].copia /\ u.copia.bloque # 0
  /\ u.dato = mano[h].bloque.dato

Escritos == {u \in Uso : EnLista(archivos, u) \/ \E h \in Hilo : Enviado(h, u)}
Tomados  == {u \in Uso : u \in Escritos \/ \E h \in Hilo : PorEnviar(h, u)}

-----------------------------------------------------------------------------
(* What must be true of a list of nodes L, of the blocks T that are taken  *)
(* and of those E that are written, with disks ds.                         *)

SinCompartir(T) == \A t, u \in T : t.copia = u.copia => t.arch = u.arch /\ t.nro = u.nro

SinLibres(T, L) ==
  \A t \in T, i \in DOMAIN L :
    L[i].nombre = t.copia.nodo => t.copia.bloque \notin ToSet(L[i].libres)

Escrito(E, L, ds) ==
  \A e \in E, i \in DOMAIN L :
    L[i].nombre = e.copia.nodo => ds[L[i].dir][e.copia.bloque] = e.dato

LibresUnicos(x) ==
  \A p, q \in DOMAIN x.libres : x.libres[p] = x.libres[q] /\ x.libres[p] # 0 => p = q

Servidores(L) ==
  /\ \A i, j \in DOMAIN L : L[i].nombre = L[j].nombre \/ L[i].dir = L[j].dir => i = j
  /\ \A i \in DOMAIN L : LibresUnicos(L[i])

Sana(T, E, L, ds) == SinCompartir(T) /\ SinLibres(T, L) /\ Escrito(E, L, ds) /\ Servidores(L)

(* The documents M of the nodes L: those in O have none at the moment.     *)
NodosReflejados(M, L, O) ==
  /\ \A d \in DOMAIN M : \E k \in DOMAIN L \ O : M[d] = L[k] /\ L[k].estado # 0
  /\ \A d, e \in DOMAIN M : M[d].nombre = M[e].nombre => d = e

(* The same of the files A.  A document without uses may be any.           *)
ConUsos(a) == \E b \in DOMAIN a.bloques : \E c \in ToSet(a.bloques[b].copias) : c.bloque # 0

ArchivosReflejados(M, A, O) ==
  /\ \A d \in DOMAIN M : ConUsos(M[d]) => \E k \in DOMAIN A \ O : M[d] = A[k]
  /\ \A d, e \in DOMAIN M : ConUsos(M[d]) /\ M[d] = M[e] => d = e

(* A use of a file is one of its document.                                 *)
LEMMA UsoDe ==
  ASSUME NEW M, NEW u \in UsosDe(M)
  PROVE  /\ u \in Uso /\ u.arch \in DOMAIN M /\ ConUsos(M[u.arch])
         /\ u = [arch |-> u.arch, nro |-> u.nro, copia |-> u.copia, dato |-> u.dato]
BY DEF UsosDe, EnLista, Usa, ConUsos, Uso

LEMMA UsoTrasladado ==
  ASSUME NEW A \in Seq(UnArchivo), NEW M, NEW u \in UsosDe(M), NEW k \in DOMAIN A,
         M[u.arch] = A[k]
  PROVE  [arch |-> k, nro |-> u.nro, copia |-> u.copia, dato |-> u.dato] \in UsosDe(A)
<1>1. k \in Nat
  OBVIOUS
<1>. QED
  BY <1>1 DEF UsosDe, EnLista, Usa, Uso

(* What a list of files and the documents of it have to do with each other. *)
Respaldo(T, E, L, ds, A, M, N, O, P) ==
  /\ Sana(T, E, L, ds)
  /\ A \in Seq(UnArchivo)
  /\ UsosDe(A) \subseteq T /\ UsosDe(A) \subseteq E
  /\ ArchivosReflejados(M, A, O)
  /\ NodosReflejados(N, L, P)

(* The documents of a sound memory are a sound image.                      *)
LEMMA ImagenDe ==
  ASSUME NEW T, NEW E, NEW L, NEW ds, NEW A, NEW M, NEW N, NEW O, NEW P,
         Respaldo(T, E, L, ds, A, M, N, O, P)
  PROVE  Sana(UsosDe(M), UsosDe(M), N, ds)
<1>. USE DEF Respaldo
<1>1. ASSUME NEW u \in UsosDe(M)
      PROVE  \E w \in UsosDe(A) : /\ M[u.arch] = A[w.arch] /\ w.nro = u.nro
                                  /\ w.copia = u.copia /\ w.dato = u.dato
  <2>1. PICK k \in DOMAIN A : M[u.arch] = A[k]
    BY UsoDe DEF ArchivosReflejados
  <2>2. [arch |-> k, nro |-> u.nro, copia |-> u.copia, dato |-> u.dato] \in UsosDe(A)
    BY <2>1, UsoTrasladado
  <2>. QED
    BY <2>1, <2>2
<1>2. SinCompartir(UsosDe(M))
  <2>1. SUFFICES ASSUME NEW t \in UsosDe(M), NEW u \in UsosDe(M), t.copia = u.copia
                 PROVE  t.arch = u.arch /\ t.nro = u.nro
    BY DEF SinCompartir
  <2>2. PICK v \in UsosDe(A) : /\ M[t.arch] = A[v.arch] /\ v.nro = t.nro
                               /\ v.copia = t.copia
    BY <1>1
  <2>3. PICK w \in UsosDe(A) : /\ M[u.arch] = A[w.arch] /\ w.nro = u.nro
                               /\ w.copia = u.copia
    BY <1>1
  <2>4. v.arch = w.arch /\ v.nro = w.nro
    BY <2>1, <2>2, <2>3 DEF Sana, SinCompartir
  <2>5. M[t.arch] = M[u.arch]
    BY <2>2, <2>3, <2>4
  <2>. QED
    BY <2>2, <2>3, <2>4, <2>5, UsoDe DEF ArchivosReflejados
<1>3. ASSUME NEW u \in UsosDe(M), NEW i \in DOMAIN N, N[i].nombre = u.copia.nodo
      PROVE  u.copia.bloque \notin ToSet(N[i].libres) /\ ds[N[i].dir][u.copia.bloque] = u.dato
  <2>1. PICK w \in UsosDe(A) : w.copia = u.copia /\ w.dato = u.dato
    BY <1>1
  <2>2. PICK k \in DOMAIN L : N[i] = L[k]
    BY DEF NodosReflejados
  <2>3. w \in T /\ w \in E /\ L[k].nombre = w.copia.nodo
    BY <1>3, <2>1, <2>2
  <2>. QED
    BY <2>1, <2>2, <2>3 DEF Sana, SinLibres, Escrito
<1>4. Servidores(N)
  <2>1. ASSUME NEW i \in DOMAIN N, NEW j \in DOMAIN N, N[i].dir = N[j].dir
        PROVE  i = j
    <3>1. PICK k \in DOMAIN L : N[i] = L[k]
      BY DEF NodosReflejados
    <3>2. PICK l \in DOMAIN L : N[j] = L[l]
      BY DEF NodosReflejados
    <3>3. k = l
      BY <2>1, <3>1, <3>2 DEF Sana, Servidores
    <3>. QED
      BY <3>1, <3>2, <3>3 DEF NodosReflejados
  <2>2. \A i \in DOMAIN N : LibresUnicos(N[i])
    BY DEF NodosReflejados, Sana, Servidores
  <2>. QED
    BY <2>1, <2>2 DEF NodosReflejados, Servidores
<1>. QED
  BY <1>2, <1>3, <1>4 DEF Sana, SinLibres, Escrito

(* What is read from a sound image is what its documents say.              *)
LEMMA ReflejoPropio ==
  ASSUME NEW M \in Seq(UnArchivo), NEW N, NEW ds, Sana(UsosDe(M), UsosDe(M), N, ds),
         \A i \in DOMAIN N : N[i].estado # 0
  PROVE  ArchivosReflejados(M, M, {}) /\ NodosReflejados(N, N, {})
<1>1. ASSUME NEW d \in DOMAIN M, NEW e \in DOMAIN M, ConUsos(M[d]), M[d] = M[e]
      PROVE  d = e
  <2>1. PICK b \in DOMAIN M[d].bloques :
          \E c \in ToSet(M[d].bloques[b].copias) : c.bloque # 0
    BY <1>1 DEF ConUsos
  <2>2. PICK c \in ToSet(M[d].bloques[b].copias) : c.bloque # 0
    BY <2>1
  <2>3. M[d] \in UnArchivo /\ d \in Nat /\ e \in Nat
    OBVIOUS
  <2>4. M[d].bloques \in Seq(UnBloque)
    BY <2>3 DEF UnArchivo
  <2>5. M[d].bloques[b] \in UnBloque /\ b \in Nat
    BY <2>4
  <2>6. M[d].bloques[b].dato \in Seq(Nat) /\ M[d].bloques[b].copias \in Seq(UnaCopia)
    BY <2>5 DEF UnBloque
  <2>7. c \in UnaCopia
    BY <2>6 DEF ToSet
  <2>. DEFINE u(x) == [arch |-> x, nro |-> b, copia |-> c, dato |-> M[d].bloques[b].dato]
  <2>8. u(d) \in UsosDe(M) /\ u(e) \in UsosDe(M)
    BY <1>1, <2>2, <2>3, <2>5, <2>6, <2>7 DEF UsosDe, EnLista, Usa, Uso
  <2>9. u(d).copia = u(e).copia /\ u(d).arch = d /\ u(e).arch = e
    OBVIOUS
  <2>. HIDE DEF u
  <2>. QED
    BY <2>8, <2>9 DEF Sana, SinCompartir
<1>. QED
  BY <1>1 DEF ArchivosReflejados, NodosReflejados, Sana, Servidores

-----------------------------------------------------------------------------
(* Documents that go and come.                                             *)

(* The list without its element k, as a set of places.                     *)
LEMMA SinElemento ==
  ASSUME NEW S, NEW s \in Seq(S), NEW k \in DOMAIN s
  PROVE  /\ \A d \in DOMAIN RemoveAt(s, k) :
              \E e \in DOMAIN s : e # k /\ RemoveAt(s, k)[d] = s[e]
         /\ \A d, e \in DOMAIN RemoveAt(s, k) : d # e =>
              \E f, g \in DOMAIN s : /\ f # g /\ f # k /\ g # k
                                     /\ RemoveAt(s, k)[d] = s[f] /\ RemoveAt(s, k)[e] = s[g]
<1>. DEFINE r == RemoveAt(s, k)
            f(d) == IF d < k THEN d ELSE d + 1
<1>1. /\ r \in Seq(S) /\ Len(r) = Len(s) - 1
      /\ \A d \in 1..(Len(s) - 1) : r[d] = s[f(d)]
  <2>1. k \in 1..Len(s)
    OBVIOUS
  <2>2. /\ r \in Seq(S) /\ Len(r) = Len(s) - 1
        /\ \A d \in 1..(Len(s) - 1) : r[d] = s[IF d < k THEN d ELSE d + 1]
    BY <2>1, RemoveAtEs
  <2>. HIDE DEF r
  <2>3. \A d \in 1..(Len(s) - 1) : s[IF d < k THEN d ELSE d + 1] = s[f(d)]
    OBVIOUS
  <2>. QED
    BY <2>2, <2>3
<1>. HIDE DEF r
<1>2. DOMAIN r = 1..(Len(s) - 1) /\ k \in 1..Len(s) /\ Len(s) \in Nat
  BY <1>1
<1>3. /\ \A d \in DOMAIN r : f(d) \in DOMAIN s /\ f(d) # k /\ r[d] = s[f(d)]
      /\ \A d, e \in DOMAIN r : d # e => f(d) # f(e)
  BY <1>1, <1>2
<1>. HIDE DEF f
<1>4. /\ \A d \in DOMAIN r : \E e \in DOMAIN s : e # k /\ r[d] = s[e]
      /\ \A d, e \in DOMAIN r : d # e =>
           \E v, g \in DOMAIN s : v # g /\ v # k /\ g # k /\ r[d] = s[v] /\ r[e] = s[g]
  BY <1>3
<1>. QED
  BY <1>4 DEF r

(* borrar_nodo_mongo erases the document of the node, and none else.       *)
LEMMA SinNodoRefleja ==
  ASSUME mongoNodos \in Seq(UnNodo), Servidores(nodos), NodosReflejados(mongoNodos, nodos, {}),
         NEW i \in DOMAIN nodos
  PROVE  NodosReflejados(SinNodo(nodos[i]), nodos, {i})
<1>. DEFINE x == nodos[i]
            I == {j \in 1..Len(mongoNodos) : [mongoNodos[j] EXCEPT !.libres = x.libres] = x}
            k == SelectInSeq(mongoNodos, LAMBDA d : [d EXCEPT !.libres = x.libres] = x)
            r == SinNodo(x)
<1>1. r = IF I # {} THEN RemoveAt(mongoNodos, k) ELSE mongoNodos
  BY DEF SinNodo, RemoveFirstMatch
<1>2. k = IF I # {} THEN Min(I) ELSE 0
  BY DEF SelectInSeq
<1>. HIDE DEF k, r
<1>3. I # {} => Min(I) \in I
  <2>1. I \in SUBSET Nat
    OBVIOUS
  <2>. QED
    BY <2>1, MinEs
<1>4. ASSUME NEW d \in DOMAIN mongoNodos
      PROVE  /\ \E j \in DOMAIN nodos : mongoNodos[d] = nodos[j] /\ nodos[j].estado # 0
             /\ mongoNodos[d] = x => d \in I
  <2>1. mongoNodos[d] = x => [mongoNodos[d] EXCEPT !.libres = x.libres] = x
    <3>1. mongoNodos[d] \in UnNodo
      OBVIOUS
    <3>. QED
      BY <3>1 DEF UnNodo
  <2>. QED
    BY <2>1 DEF NodosReflejados
<1>5. CASE I = {}
  <2>1. r = mongoNodos
    BY <1>1, <1>5
  <2>2. \A d \in DOMAIN mongoNodos : mongoNodos[d] # x
    BY <1>4, <1>5
  <2>. QED
    BY <2>1, <2>2 DEF NodosReflejados, r
<1>6. CASE I # {}
  <2>1. k \in DOMAIN mongoNodos /\ r = RemoveAt(mongoNodos, k)
        /\ [mongoNodos[k] EXCEPT !.libres = x.libres] = x
    BY <1>1, <1>2, <1>3, <1>6
  <2>2. mongoNodos[k].nombre = x.nombre
    <3>1. mongoNodos[k] \in UnNodo
      BY <2>1
    <3>. QED
      BY <2>1, <3>1 DEF UnNodo
  <2>3. \A d \in DOMAIN mongoNodos : d # k => mongoNodos[d] # x
    BY <2>1, <2>2 DEF NodosReflejados
  <2>4. ASSUME NEW d \in DOMAIN r
        PROVE  \E j \in DOMAIN nodos \ {i} : r[d] = nodos[j] /\ nodos[j].estado # 0
    <3>1. PICK e \in DOMAIN mongoNodos : e # k /\ r[d] = mongoNodos[e]
      BY <2>1, SinElemento
    <3>. QED
      BY <1>4, <2>3, <3>1
  <2>5. ASSUME NEW d \in DOMAIN r, NEW e \in DOMAIN r, r[d].nombre = r[e].nombre
        PROVE  d = e
    BY <2>1, <2>5, SinElemento DEF NodosReflejados
  <2>. QED
    BY <2>4, <2>5 DEF NodosReflejados, r
<1>. QED
  BY <1>5, <1>6

(* crear_nodo_mongo saves a node that has no document.                     *)
LEMMA ConNodoRefleja ==
  ASSUME NEW M \in Seq(UnNodo), NEW L, NEW i \in DOMAIN L, L[i] \in UnNodo, L[i].estado # 0,
         Servidores(L), NodosReflejados(M, L, {i})
  PROVE  NodosReflejados(Append(M, L[i]), L, {})
<1>. DEFINE r == Append(M, L[i])
<1>1. /\ DOMAIN r = 1..(Len(M) + 1) /\ DOMAIN M = 1..Len(M) /\ Len(M) \in Nat
      /\ \A d \in 1..Len(M) : r[d] = M[d]
      /\ r[Len(M) + 1] = L[i]
  OBVIOUS
<1>. HIDE DEF r
<1>2. \A d \in DOMAIN M : M[d].nombre # L[i].nombre
  BY DEF NodosReflejados, Servidores
<1>3. ASSUME NEW d \in DOMAIN r
      PROVE  \E k \in DOMAIN L : r[d] = L[k] /\ L[k].estado # 0
  <2>1. d \in DOMAIN M \/ d = Len(M) + 1
    BY <1>1
  <2>. QED
    BY <1>1, <2>1 DEF NodosReflejados
<1>4. ASSUME NEW d \in DOMAIN r, NEW e \in DOMAIN r, r[d].nombre = r[e].nombre
      PROVE  d = e
  <2>1. d \in DOMAIN M \/ d = Len(M) + 1
    BY <1>1
  <2>2. e \in DOMAIN M \/ e = Len(M) + 1
    BY <1>1
  <2>. QED
    BY <1>1, <1>2, <1>4, <2>1, <2>2 DEF NodosReflejados
<1>5. NodosReflejados(r, L, {})
  BY <1>3, <1>4 DEF NodosReflejados
<1>. QED
  BY <1>5 DEF r

(* While it has no document, a node may change.                            *)
LEMMA CambiaNodo ==
  ASSUME NEW M, NEW L, NEW i, NEW K, NodosReflejados(M, L, {i}),
         DOMAIN K = DOMAIN L, \A k \in DOMAIN L \ {i} : K[k] = L[k]
  PROVE  NodosReflejados(M, K, {i})
BY DEF NodosReflejados

(* Two files with the same document have the same copies.                  *)
LEMMA MismasCopias ==
  ASSUME NEW x \in UnArchivo, NEW y \in UnArchivo, Documento(x) = Documento(y)
  PROVE  /\ DOMAIN x.bloques = DOMAIN y.bloques
         /\ \A b \in DOMAIN y.bloques : x.bloques[b].copias = y.bloques[b].copias
         /\ ConUsos(x) <=> ConUsos(y)
<1>. DEFINE p == [b \in DOMAIN x.bloques |-> [nro |-> x.bloques[b].nro,
                                              copias |-> x.bloques[b].copias]]
            q == [b \in DOMAIN y.bloques |-> [nro |-> y.bloques[b].nro,
                                              copias |-> y.bloques[b].copias]]
<1>1. p = q
  BY DEF Documento
<1>2. DOMAIN p = DOMAIN x.bloques /\ DOMAIN q = DOMAIN y.bloques
  OBVIOUS
<1>3. \A b \in DOMAIN y.bloques : p[b] = q[b]
  BY <1>1
<1>4. /\ DOMAIN x.bloques = DOMAIN y.bloques
      /\ \A b \in DOMAIN y.bloques : x.bloques[b].copias = y.bloques[b].copias
  BY <1>1, <1>2, <1>3
<1>5. ConUsos(x) <=> ConUsos(y)
  BY <1>4 DEF ConUsos
<1>. QED
  BY <1>4, <1>5

(* If they use a block they are the same file.                             *)
LEMMA MismoDocumento ==
  ASSUME NEW A \in Seq(UnArchivo), SinCompartir(UsosDe(A)),
         NEW a \in DOMAIN A, NEW k \in DOMAIN A,
         Documento(A[k]) = Documento(A[a]), ConUsos(A[a])
  PROVE  k = a
<1>1. A[k] \in UnArchivo /\ A[a] \in UnArchivo /\ a \in Nat /\ k \in Nat
  OBVIOUS
<1>2. A[k].bloques \in Seq(UnBloque) /\ A[a].bloques \in Seq(UnBloque)
  BY <1>1 DEF UnArchivo
<1>3. /\ DOMAIN A[k].bloques = DOMAIN A[a].bloques
      /\ \A b \in DOMAIN A[a].bloques : A[k].bloques[b].copias = A[a].bloques[b].copias
  BY <1>1, MismasCopias
<1>5. PICK b \in DOMAIN A[a].bloques :
        \E c \in ToSet(A[a].bloques[b].copias) : c.bloque # 0
  BY DEF ConUsos
<1>6. PICK c \in ToSet(A[a].bloques[b].copias) : c.bloque # 0
  BY <1>5
<1>7. b \in Nat /\ A[a].bloques[b] \in UnBloque /\ A[k].bloques[b] \in UnBloque
  BY <1>2, <1>3
<1>8. /\ A[a].bloques[b].dato \in Seq(Nat) /\ A[k].bloques[b].dato \in Seq(Nat)
      /\ A[a].bloques[b].copias \in Seq(UnaCopia)
  BY <1>7 DEF UnBloque
<1>9. c \in UnaCopia
  BY <1>6, <1>8 DEF ToSet
<1>. DEFINE u == [arch |-> a, nro |-> b, copia |-> c, dato |-> A[a].bloques[b].dato]
            w == [arch |-> k, nro |-> b, copia |-> c, dato |-> A[k].bloques[b].dato]
<1>10. u \in UsosDe(A)
  BY <1>1, <1>6, <1>7, <1>8, <1>9 DEF UsosDe, EnLista, Usa, Uso
<1>11. w \in UsosDe(A)
  <2>1. b \in DOMAIN A[k].bloques /\ c \in ToSet(A[k].bloques[b].copias)
    BY <1>3, <1>6
  <2>. QED
    BY <1>1, <1>6, <1>7, <1>8, <1>9, <2>1 DEF UsosDe, EnLista, Usa, Uso
<1>12. u.copia = w.copia /\ u.arch = a /\ w.arch = k
  OBVIOUS
<1>. HIDE DEF u, w
<1>13. a = k
  BY <1>10, <1>11, <1>12 DEF SinCompartir
<1>. QED
  BY <1>13

(* borrar_archivo_mongo erases the document of the file, if it has uses.   *)
LEMMA SinArchivoRefleja ==
  ASSUME mongoArchivos \in Seq(UnArchivo), archivos \in Seq(UnArchivo),
         SinCompartir(UsosDe(archivos)), ArchivosReflejados(mongoArchivos, archivos, {}),
         NEW a \in DOMAIN archivos
  PROVE  ArchivosReflejados(SinArchivo(archivos[a]), archivos, {a})
<1>. DEFINE x == archivos[a]
            M == mongoArchivos
            I == {j \in 1..Len(M) : Documento(M[j]) = Documento(x)}
            k == SelectInSeq(M, LAMBDA d : Documento(d) = Documento(x))
            r == SinArchivo(x)
<1>1. r = IF I # {} THEN RemoveAt(M, k) ELSE M
  BY DEF SinArchivo, RemoveFirstMatch
<1>2. k = IF I # {} THEN Min(I) ELSE 0
  BY DEF SelectInSeq
<1>. HIDE DEF k, r
<1>3. I # {} => Min(I) \in I
  <2>1. I \in SUBSET Nat
    OBVIOUS
  <2>. QED
    BY <2>1, MinEs
<1>4. ASSUME NEW d \in DOMAIN M, ConUsos(M[d])
      PROVE  \E j \in DOMAIN archivos : M[d] = archivos[j]
  BY <1>4 DEF ArchivosReflejados
<1>5. ASSUME NEW d \in DOMAIN M
      PROVE  M[d] = x => d \in I
  OBVIOUS
<1>6. CASE I = {}
  <2>1. r = M
    BY <1>1, <1>6
  <2>2. \A d \in DOMAIN M : M[d] # x
    BY <1>5, <1>6
  <2>. QED
    BY <2>1, <2>2 DEF ArchivosReflejados, r
<1>7. CASE I # {}
  <2>1. k \in DOMAIN M /\ r = RemoveAt(M, k) /\ Documento(M[k]) = Documento(x)
    BY <1>1, <1>2, <1>3, <1>7
  <2>2. ASSUME NEW d \in DOMAIN M, d # k, ConUsos(M[d])
        PROVE  M[d] # x
    <3>1. SUFFICES ASSUME M[d] = x PROVE FALSE
      OBVIOUS
    <3>2. M[k] \in UnArchivo /\ x \in UnArchivo /\ ConUsos(x)
      BY <2>1, <2>2, <3>1
    <3>3. ConUsos(M[k])
      BY <2>1, <3>2, MismasCopias
    <3>4. PICK j \in DOMAIN archivos : M[k] = archivos[j]
      BY <1>4, <2>1, <3>3
    <3>5. j = a
      BY <2>1, <3>2, <3>4, MismoDocumento
    <3>6. M[k] = M[d]
      BY <3>1, <3>4, <3>5
    <3>. QED
      BY <2>1, <2>2, <3>6 DEF ArchivosReflejados
  <2>3. ASSUME NEW d \in DOMAIN r, ConUsos(r[d])
        PROVE  \E j \in DOMAIN archivos \ {a} : r[d] = archivos[j]
    <3>1. PICK e \in DOMAIN M : e # k /\ r[d] = M[e]
      BY <2>1, SinElemento
    <3>. QED
      BY <1>4, <2>2, <2>3, <3>1
  <2>4. ASSUME NEW d \in DOMAIN r, NEW e \in DOMAIN r, ConUsos(r[d]), r[d] = r[e], d # e
        PROVE  FALSE
    <3>1. PICK f \in DOMAIN M, g \in DOMAIN M : f # g /\ r[d] = M[f] /\ r[e] = M[g]
      BY <2>1, <2>4, SinElemento
    <3>. QED
      BY <2>4, <3>1 DEF ArchivosReflejados
  <2>. QED
    BY <2>3, <2>4 DEF ArchivosReflejados, r
<1>. QED
  BY <1>6, <1>7

(* crear_archivo_mongo saves a file that has no document.                  *)
LEMMA ConArchivoRefleja ==
  ASSUME NEW M \in Seq(UnArchivo), NEW A \in Seq(UnArchivo), SinCompartir(UsosDe(A)),
         NEW a \in DOMAIN A, ArchivosReflejados(M, A, {a})
  PROVE  ArchivosReflejados(Append(M, A[a]), A, {})
<1>. DEFINE r == Append(M, A[a])
<1>1. /\ DOMAIN r = 1..(Len(M) + 1) /\ DOMAIN M = 1..Len(M) /\ Len(M) \in Nat
      /\ \A d \in 1..Len(M) : r[d] = M[d]
      /\ r[Len(M) + 1] = A[a]
  OBVIOUS
<1>. HIDE DEF r
<1>2. ASSUME NEW d \in DOMAIN M, ConUsos(M[d])
      PROVE  M[d] # A[a]
  <2>1. PICK k \in DOMAIN A \ {a} : M[d] = A[k]
    BY <1>2 DEF ArchivosReflejados
  <2>2. SUFFICES ASSUME A[k] = A[a] PROVE FALSE
    BY <2>1
  <2>3. ConUsos(A[a]) /\ Documento(A[k]) = Documento(A[a])
    BY <1>2, <2>1, <2>2
  <2>4. k = a
    BY <2>3, MismoDocumento
  <2>. QED
    BY <2>4
<1>3. ASSUME NEW d \in DOMAIN r, ConUsos(r[d])
      PROVE  \E k \in DOMAIN A : r[d] = A[k]
  <2>1. d \in DOMAIN M \/ d = Len(M) + 1
    BY <1>1
  <2>. QED
    BY <1>1, <1>3, <2>1 DEF ArchivosReflejados
<1>4. ASSUME NEW d \in DOMAIN r, NEW e \in DOMAIN r, ConUsos(r[d]), r[d] = r[e]
      PROVE  d = e
  <2>1. d \in DOMAIN M \/ d = Len(M) + 1
    BY <1>1
  <2>2. e \in DOMAIN M \/ e = Len(M) + 1
    BY <1>1
  <2>. QED
    BY <1>1, <1>2, <1>4, <2>1, <2>2 DEF ArchivosReflejados
<1>5. ArchivosReflejados(r, A, {})
  BY <1>3, <1>4 DEF ArchivosReflejados
<1>. QED
  BY <1>5 DEF r

(* A document without uses says nothing.                                   *)
LEMMA SinUsosRefleja ==
  ASSUME NEW M \in Seq(UnArchivo), NEW A, NEW O, ArchivosReflejados(M, A, O),
         NEW x \in UnArchivo, ~ConUsos(x)
  PROVE  ArchivosReflejados(Append(M, x), A, O)
<1>. DEFINE r == Append(M, x)
<1>1. /\ DOMAIN r = 1..(Len(M) + 1) /\ DOMAIN M = 1..Len(M) /\ Len(M) \in Nat
      /\ \A d \in 1..Len(M) : r[d] = M[d]
      /\ r[Len(M) + 1] = x
  OBVIOUS
<1>. HIDE DEF r
<1>2. ASSUME NEW d \in DOMAIN r, ConUsos(r[d])
      PROVE  d \in DOMAIN M /\ r[d] = M[d]
  BY <1>1, <1>2
<1>3. ArchivosReflejados(r, A, O)
  BY <1>2 DEF ArchivosReflejados
<1>. QED
  BY <1>3 DEF r

-----------------------------------------------------------------------------
(* Changes that leave the blocks as they were.                             *)

MismosBloques(L, K) ==
  /\ DOMAIN K = DOMAIN L
  /\ \A i \in DOMAIN L : /\ K[i].nombre = L[i].nombre /\ K[i].dir = L[i].dir
                         /\ K[i].libres = L[i].libres

Menos(T, E, L, U, F, K, ds) ==
  Sana(T, E, L, ds) /\ U \subseteq T /\ F \subseteq E /\ MismosBloques(L, K)

LEMMA SanaMenos ==
  ASSUME NEW T, NEW E, NEW L, NEW U, NEW F, NEW K, NEW ds, Menos(T, E, L, U, F, K, ds)
  PROVE  Sana(U, F, K, ds)
<1>. USE DEF Menos, MismosBloques, Sana
<1>1. SinCompartir(U)
  BY DEF SinCompartir
<1>2. SinLibres(U, K)
  BY DEF SinLibres
<1>3. Escrito(F, K, ds)
  BY DEF Escrito
<1>4. Servidores(K)
  BY DEF Servidores, LibresUnicos
<1>. QED
  BY <1>1, <1>2, <1>3, <1>4

(* Files that keep their blocks or lose them all.                          *)
LEMMA UsosMenos ==
  ASSUME NEW A, NEW K,
         \A k \in DOMAIN K : \/ K[k].bloques = <<>>
                             \/ k \in DOMAIN A /\ K[k].bloques = A[k].bloques
  PROVE  UsosDe(K) \subseteq UsosDe(A)
<1>1. ASSUME NEW u \in UsosDe(K)
      PROVE  u \in UsosDe(A)
  <2>1. u.arch \in DOMAIN K /\ K[u.arch].bloques # <<>>
    BY DEF UsosDe, EnLista
  <2>2. u.arch \in DOMAIN A /\ K[u.arch].bloques = A[u.arch].bloques
    BY <2>1
  <2>. QED
    BY <2>2 DEF UsosDe, EnLista
<1>. QED
  BY <1>1

(* Without an upload only the files use blocks.                            *)
LEMMA SoloArchivos ==
  ASSUME \A h \in Hilo : en[h] \notin EnCamino
  PROVE  Tomados = UsosDe(archivos) /\ Escritos = UsosDe(archivos)
<1>1. \A h \in Hilo : en[h] # "manda"
  BY DEF EnCamino
<1>. QED
  BY <1>1 DEF Tomados, Escritos, UsosDe, Enviado, PorEnviar

LEMMA SoloArchivosPrima ==
  ASSUME \A h \in Hilo : en'[h] \notin EnCamino
  PROVE  Tomados' = UsosDe(archivos') /\ Escritos' = UsosDe(archivos')
<1>1. \A h \in Hilo : en'[h] # "manda"
  BY DEF EnCamino
<1>. QED
  BY <1>1 DEF Tomados, Escritos, UsosDe, EnLista, Enviado, PorEnviar

(* A step that sends nothing, and after which nothing is being sent.       *)
LEMMA PasoSinEnvio ==
  ASSUME Sana(Tomados, Escritos, nodos, discos), \A h \in Hilo : en'[h] \notin EnCamino,
         UsosDe(archivos') \subseteq UsosDe(archivos), MismosBloques(nodos, nodos'),
         discos' = discos
  PROVE  Sana(Tomados', Escritos', nodos', discos')
<1>1. UsosDe(archivos) \subseteq Tomados /\ UsosDe(archivos) \subseteq Escritos
  BY DEF Tomados, Escritos, UsosDe
<1>2. Menos(Tomados, Escritos, nodos, Tomados', Escritos', nodos', discos)
  BY <1>1, SoloArchivosPrima DEF Menos
<1>. QED
  BY <1>2, SanaMenos

-----------------------------------------------------------------------------
(* The invariant.                                                          *)

(* Nodes arrive before the first upload and the first crash.               *)
Alta == subidas = 0 /\ caidas = 0

Vacio ==
  subidas = 0 => /\ archivos = <<>> /\ mongoArchivos = <<>>
                 /\ \A h \in Hilo : en[h] \notin Subiendo

Llegadas ==
  /\ letra = Len(nodos) + 1
  /\ \A i \in DOMAIN nodos : nodos[i].nombre = i
  /\ \A m, n \in llega : m = n
  /\ llega # {} => nombre = letra /\ \A h \in Hilo : en[h] = "libre"
  /\ \A n \in llega, i \in DOMAIN nodos : nodos[i].dir # n

Registro ==
  /\ caidas \in Nat
  /\ vivo \/ ~Alta
  /\ Alta => Llegadas
  /\ ~Alta => llega = {} /\ \A i \in DOMAIN nodos : nodos[i].estado # 0
  /\ \A i \in DOMAIN nodos : nodos[i].estado = 0 => nodos[i].libres = <<>>
  /\ \A i \in DOMAIN mongoNodos : mongoNodos[i].estado # 0
  /\ en["consola"] # "formatea"

MemoriaSana == vivo => Sana(Tomados, Escritos, nodos, discos)

Destino(h) ==
  LET i == mano[h].nodo IN
  i \in DOMAIN nodos /\ nodos[i].nombre = mano[h].copia.nodo /\ nodos[i].dir = mano[h].dir

EnvioSano == \A h \in Hilo : en[h] = "manda" => Destino(h)

NodosAlDia ==
  vivo =>
    /\ NodosReflejados(mongoNodos, nodos, {})
    /\ \A h \in Hilo : en[h] = "toma" => NodosReflejados(mongoNodos, nodos, {mano[h].nodo})
    /\ en["consola"] = "creaNodo" =>
         /\ NodosReflejados(mongoNodos, nodos, {mano["consola"].nodo})
         /\ nodos[mano["consola"].nodo].estado # 0

TrabajaArchivo ==
  en["consola"] \in DeArchivo \/ (en["consola"] = "creaNodo" /\ mano["consola"].luego # "libre")

ArchivosAlDia ==
  vivo =>
    /\ ArchivosReflejados(mongoArchivos, archivos, {})
    /\ \A h \in Hilo :
         en[h] \in Subiendo => ArchivosReflejados(mongoArchivos, archivos, {archivo})
    /\ TrabajaArchivo => ArchivosReflejados(mongoArchivos, archivos, {mano["consola"].arch})

ImagenSana == ~vivo => Sana(UsosDe(mongoArchivos), UsosDe(mongoArchivos), mongoNodos, discos)

UsosInv ==
  Vacio /\ Registro /\ MemoriaSana /\ EnvioSano /\ NodosAlDia /\ ArchivosAlDia /\ ImagenSana

Base == TipoInv /\ Muerto /\ ReplicasInv /\ UsosInv

(* The operator enables nodes once, before the first upload, they arrive   *)
(* one by one and the letters are enough; nothing is formatted and the two *)
(* threads take turns.                                                     *)
Previsto == Eventos \subseteq {"borde", "resultados"} /\ Cardinality(Nodo) <= Letras

(* A larger set of nodes, or files, without a document says more.          *)
LEMMA ReflejadosMenos ==
  ASSUME NEW M, NEW L, NEW O
  PROVE  /\ NodosReflejados(M, L, O) => NodosReflejados(M, L, {})
         /\ ArchivosReflejados(M, L, O) => ArchivosReflejados(M, L, {})
BY DEF NodosReflejados, ArchivosReflejados

LEMMA UsosInit == Init => UsosInv
<1>. SUFFICES ASSUME Init
              PROVE  UsosInv
  OBVIOUS
<1>1. \A h \in Hilo : en[h] = "libre"
  BY DEF Init
<1>2. /\ nodos = <<>> /\ archivos = <<>> /\ mongoNodos = <<>> /\ mongoArchivos = <<>>
      /\ letra = 1 /\ llega = {} /\ vivo = TRUE /\ subidas = 0 /\ caidas = 0
  BY DEF Init
<1>3. Vacio
  BY <1>1, <1>2 DEF Vacio, Subiendo
<1>4. en["consola"] = "libre"
  BY <1>1 DEF Hilo
<1>5. Registro
  BY <1>2, <1>4 DEF Registro, Alta, Llegadas
<1>6. UsosDe(<<>>) = {}
  BY DEF UsosDe, EnLista
<1>7. \A h \in Hilo : en[h] \notin EnCamino
  BY <1>1 DEF EnCamino
<1>8. Tomados = {} /\ Escritos = {}
  BY <1>2, <1>6, <1>7, SoloArchivos
<1>9. MemoriaSana
  BY <1>2, <1>8 DEF MemoriaSana, Sana, SinCompartir, SinLibres, Escrito, Servidores
<1>10. NodosAlDia
  BY <1>1, <1>2, <1>4 DEF NodosAlDia, NodosReflejados
<1>11. ArchivosAlDia
  BY <1>1, <1>2, <1>4 DEF ArchivosAlDia, ArchivosReflejados, TrabajaArchivo, Subiendo, DeArchivo
<1>. QED
  BY <1>1, <1>2, <1>3, <1>5, <1>9, <1>10, <1>11 DEF UsosInv, EnvioSano, ImagenSana

(* While the process runs, MongoDB holds a sound image: the one a crash    *)
(* would leave.                                                            *)
LEMMA ImagenViva ==
  ASSUME TipoInv, UsosInv
  PROVE  Sana(UsosDe(mongoArchivos), UsosDe(mongoArchivos), mongoNodos, discos)
<1>1. CASE vivo
  <2>1. UsosDe(archivos) \subseteq Tomados /\ UsosDe(archivos) \subseteq Escritos
    BY DEF Tomados, Escritos, UsosDe
  <2>2. Respaldo(Tomados, Escritos, nodos, discos, archivos, mongoArchivos, mongoNodos, {}, {})
    BY <1>1, <2>1
    DEF Respaldo, TipoInv, MemoriaOK, UsosInv, MemoriaSana, NodosAlDia, ArchivosAlDia
  <2>. QED
    BY <2>2, ImagenDe
<1>. QED
  BY <1>1 DEF UsosInv, ImagenSana

(* The process dies.                                                       *)
LEMMA UsosMuere ==
  ASSUME Muere, ~Alta', caidas' \in Nat, subidas' = 0 => mongoArchivos' = <<>>,
         \A i \in DOMAIN mongoNodos' : mongoNodos'[i].estado # 0,
         Sana(UsosDe(mongoArchivos'), UsosDe(mongoArchivos'), mongoNodos', discos')
  PROVE  UsosInv'
<1>1. /\ vivo' = FALSE /\ nodos' = <<>> /\ llega' = {} /\ archivos' = <<>>
      /\ \A h \in Hilo : en'[h] = "libre"
  BY DEF Muere
<1>2. Vacio'
  BY <1>1 DEF Vacio, Subiendo
<1>3. en'["consola"] = "libre"
  BY <1>1 DEF Hilo
<1>4. Registro'
  BY <1>1, <1>3 DEF Registro
<1>. QED
  BY <1>1, <1>2, <1>4
  DEF UsosInv, MemoriaSana, EnvioSano, NodosAlDia, ArchivosAlDia, ImagenSana

(* ... and MongoDB and the disks keep what they have.                      *)
LEMMA UsosMuereIgual ==
  ASSUME TipoInv, UsosInv, Muere, ~Alta', caidas' \in Nat, subidas' = subidas,
         UNCHANGED <<mongoArchivos, mongoNodos, discos>>
  PROVE  UsosInv'
<1>1. Sana(UsosDe(mongoArchivos'), UsosDe(mongoArchivos'), mongoNodos', discos')
  BY ImagenViva
<1>2. /\ subidas' = 0 => mongoArchivos' = <<>>
      /\ \A i \in DOMAIN mongoNodos' : mongoNodos'[i].estado # 0
  BY DEF UsosInv, Vacio, Registro
<1>. QED
  BY <1>1, <1>2, UsosMuere

(* cargar_listas_mongo.                                                    *)
LEMMA UsosArranca ==
  ASSUME Base, Arranca
  PROVE  UsosInv'
<1>1. /\ ~vivo /\ vivo' = TRUE /\ nodos' = mongoNodos /\ archivos' = mongoArchivos
      /\ UNCHANGED <<llega, archivo, en, mano, discos, mongoNodos, mongoArchivos,
                     subidas, caidas>>
  BY DEF Arranca, mongo, contador
<1>2. \A h \in Hilo : en'[h] = "libre"
  BY <1>1 DEF Base, Muerto
<1>3. Vacio'
  BY <1>1, <1>2 DEF Base, UsosInv, Vacio, Subiendo
<1>4. en'["consola"] = "libre"
  BY <1>2 DEF Hilo
<1>5. Registro'
  BY <1>1, <1>4 DEF Base, UsosInv, Registro, Alta
<1>6. Sana(UsosDe(mongoArchivos), UsosDe(mongoArchivos), mongoNodos, discos)
  BY <1>1 DEF Base, UsosInv, ImagenSana
<1>7. Tomados' = UsosDe(mongoArchivos) /\ Escritos' = UsosDe(mongoArchivos)
  <2>1. \A h \in Hilo : en'[h] \notin EnCamino
    BY <1>2 DEF EnCamino
  <2>. QED
    BY <1>1, <2>1, SoloArchivosPrima
<1>8. MemoriaSana'
  BY <1>1, <1>6, <1>7 DEF MemoriaSana
<1>9. /\ ArchivosReflejados(mongoArchivos, mongoArchivos, {})
      /\ NodosReflejados(mongoNodos, mongoNodos, {})
  BY <1>6, ReflejoPropio DEF Base, TipoInv, MemoriaOK, UsosInv, Registro
<1>10. NodosAlDia'
  BY <1>1, <1>2, <1>4, <1>9 DEF NodosAlDia
<1>11. ArchivosAlDia'
  BY <1>1, <1>2, <1>4, <1>9 DEF ArchivosAlDia, TrabajaArchivo, Subiendo, DeArchivo
<1>. QED
  BY <1>1, <1>2, <1>3, <1>5, <1>8, <1>10, <1>11 DEF UsosInv, EnvioSano, ImagenSana

(* Crashes.                                                                *)
LEMMA UsosCaida ==
  ASSUME Base, Caida \/ (\E h \in Hilo : NodoNoAtiende(h))
  PROVE  UsosInv'
<1>1. Muere /\ caidas' = caidas + 1 /\ UNCHANGED <<discos, mongoNodos, mongoArchivos, subidas>>
  BY DEF Caida, NodoNoAtiende, mongo
<1>2. ~Alta' /\ caidas' \in Nat
  BY <1>1 DEF Alta, Base, UsosInv, Registro
<1>. QED
  BY <1>1, <1>2, UsosMuereIgual DEF Base

-----------------------------------------------------------------------------
(* The console, outside uploads.                                           *)

(* What such a step leaves: who sends, what nodes and files have.          *)
PasoTranquilo ==
  /\ vivo /\ vivo' = TRUE
  /\ llega = {}
  /\ \A h \in Hilo : en'[h] \notin Subiendo
  /\ en'["consola"] # "formatea"
  /\ UNCHANGED <<letra, llega, discos, subidas, caidas>>
  /\ DOMAIN nodos' = DOMAIN nodos
  /\ \A i \in DOMAIN nodos : /\ nodos'[i].nombre = nodos[i].nombre
                             /\ \/ nodos'[i].estado # 0
                                \/ nodos'[i] = nodos[i]
  /\ subidas = 0 => archivos' = <<>> /\ mongoArchivos' = <<>>

LEMMA UsosTranquilo ==
  ASSUME Base, MemoriaOK', PasoTranquilo, Sana(Tomados', Escritos', nodos', discos'),
         NodosAlDia', ArchivosAlDia'
  PROVE  UsosInv'
<1>. USE DEF PasoTranquilo
<1>1. Vacio'
  BY DEF Vacio
<1>2. nodos \in Seq(UnNodo) /\ nodos' \in Seq(UnNodo)
  BY DEF Base, TipoInv, MemoriaOK
<1>3. Alta => Llegadas'
  <2>1. Alta => letra = Len(nodos) + 1 /\ \A i \in DOMAIN nodos : nodos[i].nombre = i
    BY DEF Base, UsosInv, Registro, Llegadas
  <2>2. Alta => \A i \in DOMAIN nodos' : nodos'[i].nombre = i
    BY <2>1
  <2>3. Len(nodos') = Len(nodos)
    BY <1>2
  <2>. QED
    BY <1>2, <2>1, <2>2, <2>3 DEF Llegadas
<1>4. \A i \in DOMAIN mongoNodos' : mongoNodos'[i].estado # 0
  BY DEF NodosAlDia, NodosReflejados
<1>6. Registro'
  BY <1>3, <1>4 DEF Registro, Alta, Base, UsosInv
<1>5. MemoriaSana' /\ EnvioSano' /\ ImagenSana'
  BY DEF MemoriaSana, EnvioSano, ImagenSana, Subiendo
<1>. QED
  BY <1>1, <1>5, <1>6 DEF UsosInv

(* The console starts something when nothing else works, and goes on with  *)
(* it alone.                                                               *)
LEMMA ConsolaSola ==
  ASSUME Base, Previsto, Puede("consola") \/ (vivo /\ en["consola"] \in DeArchivo \cup {"creaNodo"}),
         NEW e, e \notin Subiendo \cup {"formatea"}, en' = [en EXCEPT !["consola"] = e]
  PROVE  /\ vivo /\ llega = {}
         /\ \A h \in Hilo : en[h] \notin Subiendo /\ en'[h] \notin Subiendo
         /\ \A h \in Hilo : h # "consola" => en[h] = "libre" /\ en'[h] = "libre"
         /\ en'["consola"] = e
<1>1. vivo /\ "consola" \in Hilo
  BY DEF Puede, Hilo
<1>2. CASE Puede("consola")
  <2>1. \A g \in Hilo : en[g] = "libre"
    BY <1>2 DEF Puede, Previsto
  <2>2. llega = {}
    BY <1>2 DEF Puede, Previsto
  <2>3. Solos' /\ en'["consola"] = e /\ \A g \in Hilo \ {"consola"} : en'[g] = "libre"
    BY <1>1, <2>1, SoloUno DEF Base, ReplicasInv
  <2>. QED
    BY <1>1, <2>1, <2>2, <2>3 DEF Subiendo
<1>3. CASE vivo /\ en["consola"] \in DeArchivo \cup {"creaNodo"}
  <2>1. en["consola"] # "libre" /\ en["consola"] \notin Subiendo
    BY <1>3 DEF DeArchivo, Subiendo
  <2>2. Solos' /\ en'["consola"] = e /\ \A g \in Hilo \ {"consola"} : en'[g] = "libre"
    BY <1>1, <2>1, SoloUno DEF Base, ReplicasInv
  <2>3. \A g \in Hilo \ {"consola"} : en[g] = "libre"
    BY <1>1, <2>1 DEF Base, ReplicasInv, Solos
  <2>4. llega = {}
    BY <1>1, <2>1 DEF Base, UsosInv, Registro, Llegadas
  <2>. QED
    BY <1>1, <2>1, <2>2, <2>3, <2>4 DEF Subiendo
<1>. QED
  BY <1>2, <1>3

(* Where the console is when no upload is in course.                       *)
LEMMA AlDiaLibre ==
  ASSUME Base, vivo
  PROVE  /\ NodosReflejados(mongoNodos, nodos, {})
         /\ ArchivosReflejados(mongoArchivos, archivos, {})
         /\ nodos \in Seq(UnNodo) /\ mongoNodos \in Seq(UnNodo)
         /\ archivos \in Seq(UnArchivo) /\ mongoArchivos \in Seq(UnArchivo)
         /\ SinCompartir(UsosDe(archivos)) /\ Servidores(nodos)
         /\ Sana(Tomados, Escritos, nodos, discos)
<1>1. Sana(Tomados, Escritos, nodos, discos)
  BY DEF Base, UsosInv, MemoriaSana
<1>2. UsosDe(archivos) \subseteq Tomados
  BY DEF Tomados, Escritos, UsosDe
<1>. QED
  BY <1>1, <1>2
  DEF Base, TipoInv, MemoriaOK, UsosInv, NodosAlDia, ArchivosAlDia, Sana, SinCompartir

(* The documents of the nodes after a step of the console.                 *)
LEMMA NodosTrasLaConsola ==
  ASSUME \A h \in Hilo : en'[h] \notin Subiendo,
         IF en'["consola"] = "creaNodo"
         THEN /\ NodosReflejados(mongoNodos', nodos', {mano'["consola"].nodo})
              /\ nodos'[mano'["consola"].nodo].estado # 0
         ELSE NodosReflejados(mongoNodos', nodos', {})
  PROVE  NodosAlDia'
<1>1. NodosReflejados(mongoNodos', nodos', {mano'["consola"].nodo})
        => NodosReflejados(mongoNodos', nodos', {})
  BY ReflejadosMenos
<1>. QED
  BY <1>1 DEF NodosAlDia, Subiendo

LEMMA ArchivosTrasLaConsola ==
  ASSUME \A h \in Hilo : en'[h] \notin Subiendo,
         IF en'["consola"] \in DeArchivo
              \/ (en'["consola"] = "creaNodo" /\ mano'["consola"].luego # "libre")
         THEN ArchivosReflejados(mongoArchivos', archivos', {mano'["consola"].arch})
         ELSE ArchivosReflejados(mongoArchivos', archivos', {})
  PROVE  ArchivosAlDia'
<1>1. ArchivosReflejados(mongoArchivos', archivos', {mano'["consola"].arch})
        => ArchivosReflejados(mongoArchivos', archivos', {})
  BY ReflejadosMenos
<1>. QED
  BY <1>1 DEF ArchivosAlDia, TrabajaArchivo

(* Removing a node, and its return.                                        *)
LEMMA UsosNodoVaYViene ==
  ASSUME Base, TipoInv', Previsto, NEW i \in DOMAIN nodos, Puede("consola"),
         NEW e \in {-1, 1}, nodos' = [nodos EXCEPT ![i].estado = e],
         mongoNodos' = SinNodo(nodos[i]), en' = [en EXCEPT !["consola"] = "creaNodo"],
         mano' = [mano EXCEPT !["consola"].nodo = i, !["consola"].luego = "libre"],
         UNCHANGED <<letra, llega, archivos, mongoArchivos, discos, vivo, subidas, caidas>>
  PROVE  UsosInv'
<1>1. "creaNodo" \notin Subiendo \cup {"formatea"} /\ "creaNodo" \notin DeArchivo
  BY DEF Subiendo, DeArchivo
<1>2. /\ vivo /\ llega = {} /\ en'["consola"] = "creaNodo"
      /\ \A h \in Hilo : en[h] \notin Subiendo /\ en'[h] \notin Subiendo
  BY <1>1, ConsolaSola
<1>3. /\ DOMAIN nodos' = DOMAIN nodos /\ nodos'[i].estado = e
      /\ \A k \in DOMAIN nodos \ {i} : nodos'[k] = nodos[k]
      /\ \A k \in DOMAIN nodos : /\ nodos'[k].nombre = nodos[k].nombre
                                 /\ nodos'[k].dir = nodos[k].dir
                                 /\ nodos'[k].libres = nodos[k].libres
  <2>1. nodos \in Seq(UnNodo)
    BY <1>2, AlDiaLibre
  <2>2. nodos[i] \in UnNodo
    BY <2>1
  <2>3. nodos'[i] = [nodos[i] EXCEPT !.estado = e]
    BY <2>1
  <2>4. /\ nodos'[i].nombre = nodos[i].nombre /\ nodos'[i].dir = nodos[i].dir
        /\ nodos'[i].libres = nodos[i].libres /\ nodos'[i].estado = e
    BY <2>2, <2>3 DEF UnNodo
  <2>5. DOMAIN nodos' = DOMAIN nodos /\ \A k \in DOMAIN nodos \ {i} : nodos'[k] = nodos[k]
    OBVIOUS
  <2>. QED
    BY <2>4, <2>5
<1>4. mano'["consola"].nodo = i /\ mano'["consola"].luego = "libre"
  BY DEF Base, TipoInv, HilosOK, Hilo, Mano
<1>5. NodosReflejados(mongoNodos', nodos', {i})
  <2>1. NodosReflejados(mongoNodos', nodos, {i})
    BY <1>2, AlDiaLibre, SinNodoRefleja
  <2>. QED
    BY <1>3, <2>1 DEF NodosReflejados
<1>6. NodosAlDia'
  <2>1. nodos'[i].estado # 0
    BY <1>3
  <2>. QED
    BY <1>2, <1>4, <1>5, <2>1, NodosTrasLaConsola
<1>7. ArchivosAlDia'
  <2>1. ArchivosReflejados(mongoArchivos', archivos', {})
    BY <1>2, AlDiaLibre
  <2>. QED
    BY <1>1, <1>2, <1>4, <2>1, ArchivosTrasLaConsola
<1>8. Sana(Tomados', Escritos', nodos', discos')
  <2>1. \A h \in Hilo : en'[h] \notin EnCamino
    BY <1>2 DEF EnCamino, Subiendo
  <2>2. MismosBloques(nodos, nodos') /\ UsosDe(archivos') \subseteq UsosDe(archivos)
    BY <1>3 DEF MismosBloques
  <2>. QED
    BY <1>2, <2>1, <2>2, AlDiaLibre, PasoSinEnvio
<1>9. PasoTranquilo
  <2>1. \A k \in DOMAIN nodos : nodos'[k].estado # 0 \/ nodos'[k] = nodos[k]
    BY <1>3
  <2>2. subidas = 0 => archivos' = <<>> /\ mongoArchivos' = <<>>
    BY DEF Base, UsosInv, Vacio
  <2>. QED
    BY <1>1, <1>2, <1>3, <2>1, <2>2 DEF PasoTranquilo
<1>. QED
  BY <1>6, <1>7, <1>8, <1>9, UsosTranquilo DEF TipoInv

LEMMA TodosLosBloquesUnicos ==
  ASSUME NEW x \in UnNodo, x.libres = <<>>
  PROVE  /\ Habilita(x).estado = 1 /\ Habilita(x).nombre = x.nombre /\ Habilita(x).dir = x.dir
         /\ LibresUnicos(Habilita(x))
<1>1. TodosLosBloques \in Seq(Bloque0) /\ Len(TodosLosBloques) = Cap
  BY MDFSAssumption DEF TodosLosBloques, Bloque0
<1>2. x.libres \o TodosLosBloques = TodosLosBloques
  BY <1>1
<1>3. \A p, q \in DOMAIN TodosLosBloques : TodosLosBloques[p] = TodosLosBloques[q] => p = q
  BY MDFSAssumption DEF TodosLosBloques
<1>. QED
  BY <1>2, <1>3 DEF Habilita, Vuelve, UnNodo, LibresUnicos

(* Without uploads no block is taken.                                      *)
LEMMA NadaTomado ==
  ASSUME archivos' = <<>>, \A h \in Hilo : en'[h] \notin Subiendo
  PROVE  Tomados' = {} /\ Escritos' = {}
<1>1. UsosDe(<<>>) = {}
  BY DEF UsosDe, EnLista
<1>2. \A h \in Hilo : en'[h] \notin EnCamino
  BY DEF EnCamino, Subiendo
<1>. QED
  BY <1>1, <1>2, SoloArchivosPrima

(* A node that is enabled for the first time gets every block.             *)
LEMMA UsosNodoNuevo ==
  ASSUME Base, TipoInv', Previsto, NEW i \in DOMAIN nodos, Puede("consola"),
         nodos[i].estado = 0, nodos' = [nodos EXCEPT ![i] = Habilita(@)],
         mongoNodos' = Append(mongoNodos, Habilita(nodos[i])),
         UNCHANGED <<letra, llega, en, mano, archivos, mongoArchivos, discos, vivo, subidas,
                     caidas>>
  PROVE  UsosInv'
<1>1. vivo /\ llega = {} /\ \A h \in Hilo : en[h] = "libre"
  BY DEF Puede, Previsto
<1>2. /\ nodos \in Seq(UnNodo) /\ nodos[i] \in UnNodo /\ nodos[i].libres = <<>>
      /\ mongoNodos \in Seq(UnNodo)
  BY <1>1, AlDiaLibre DEF Base, UsosInv, Registro
<1>3. /\ DOMAIN nodos' = DOMAIN nodos /\ nodos'[i] = Habilita(nodos[i])
      /\ \A k \in DOMAIN nodos \ {i} : nodos'[k] = nodos[k]
      /\ nodos'[i].estado = 1 /\ LibresUnicos(nodos'[i])
      /\ \A k \in DOMAIN nodos : /\ nodos'[k].nombre = nodos[k].nombre
                                 /\ nodos'[k].dir = nodos[k].dir
  BY <1>2, TodosLosBloquesUnicos
<1>4. \A h \in Hilo : en'[h] \notin Subiendo
  BY <1>1 DEF Subiendo
<1>5. subidas = 0 /\ archivos' = <<>> /\ mongoArchivos' = <<>>
  BY DEF Base, UsosInv, Registro, Alta, Vacio
<1>6. Servidores(nodos')
  <2>1. Servidores(nodos)
    BY <1>1, AlDiaLibre
  <2>. QED
    BY <1>3, <2>1 DEF Servidores
<1>7. Sana(Tomados', Escritos', nodos', discos')
  <2>1. Tomados' = {} /\ Escritos' = {}
    BY <1>4, <1>5, NadaTomado
  <2>. QED
    BY <1>6, <2>1 DEF Sana, SinCompartir, SinLibres, Escrito
<1>8. en'["consola"] = "libre"
  BY <1>1 DEF Hilo
<1>9. NodosAlDia'
  <2>1. NodosReflejados(mongoNodos, nodos, {})
    BY <1>1, AlDiaLibre
  <2>2. NodosReflejados(mongoNodos, nodos', {i})
    BY <1>3, <2>1 DEF NodosReflejados
  <2>3. nodos'[i] \in UnNodo /\ nodos'[i].estado # 0
    BY <1>3 DEF TipoInv, MemoriaOK
  <2>4. NodosReflejados(Append(mongoNodos, nodos'[i]), nodos', {})
    BY <1>2, <1>3, <1>6, <2>2, <2>3, ConNodoRefleja
  <2>5. NodosReflejados(mongoNodos', nodos', {})
    BY <1>3, <2>4
  <2>. QED
    BY <1>4, <1>8, <2>5, NodosTrasLaConsola
<1>10. ArchivosAlDia'
  <2>1. ArchivosReflejados(mongoArchivos', archivos', {})
    BY <1>1, AlDiaLibre
  <2>. QED
    BY <1>4, <1>8, <2>1, ArchivosTrasLaConsola DEF DeArchivo
<1>11. PasoTranquilo
  <2>1. \A k \in DOMAIN nodos : nodos'[k].estado # 0 \/ nodos'[k] = nodos[k]
    BY <1>3
  <2>. QED
    BY <1>1, <1>3, <1>4, <1>5, <1>8, <2>1 DEF PasoTranquilo
<1>. QED
  BY <1>7, <1>9, <1>10, <1>11, UsosTranquilo DEF TipoInv

(* The commands of the console on nodes.                                   *)
LEMMA UsosOrdenaNodo ==
  ASSUME Base, TipoInv', Previsto,
         (\E n \in Nodo : AgregarNodo(n)) \/ (\E i \in DOMAIN nodos : EliminarNodo(i))
  PROVE  UsosInv'
<1>1. ASSUME NEW n \in Nodo, AgregarNodo(n)
      PROVE  UsosInv'
  <2>. DEFINE i == NodoDe(n)
  <2>1. i \in DOMAIN nodos /\ nodos[i] \in UnNodo
    <3>1. i \in 0..Len(nodos) /\ i # 0 /\ nodos \in Seq(UnNodo)
      BY <1>1, NodoBuscado DEF AgregarNodo, Base, TipoInv, MemoriaOK
    <3>. HIDE DEF i
    <3>. QED
      BY <3>1
  <2>2. /\ Puede("consola") /\ nodos[i].estado # 1
        /\ UNCHANGED <<letra, llega, archivos, discos, mongoArchivos, vivo, subidas, caidas>>
    BY <1>1 DEF AgregarNodo, Previsto
  <2>3. CASE nodos[i].estado = -1
    <3>1. /\ mongoNodos' = SinNodo(nodos[i]) /\ nodos' = [nodos EXCEPT ![i] = Vuelve(@)]
          /\ en' = [en EXCEPT !["consola"] = "creaNodo"]
          /\ mano' = [mano EXCEPT !["consola"].nodo = i, !["consola"].luego = "libre"]
      BY <1>1, <2>3 DEF AgregarNodo
    <3>2. nodos' = [nodos EXCEPT ![i].estado = 1] /\ 1 \in {-1, 1}
      BY <3>1 DEF Vuelve
    <3>. HIDE DEF i
    <3>. QED
      BY <2>1, <2>2, <3>1, <3>2, UsosNodoVaYViene
  <2>4. CASE nodos[i].estado = 0
    <3>1. /\ nodos' = [nodos EXCEPT ![i] = Habilita(@)]
          /\ mongoNodos' = Append(mongoNodos, Habilita(nodos[i])) /\ UNCHANGED <<en, mano>>
      BY <1>1, <2>4 DEF AgregarNodo
    <3>. HIDE DEF i
    <3>. QED
      BY <2>1, <2>2, <2>4, <3>1, UsosNodoNuevo
  <2>5. nodos[i].estado = -1 \/ nodos[i].estado = 0
    <3>. HIDE DEF i
    <3>. QED
      BY <2>1, <2>2 DEF UnNodo
  <2>. QED
    BY <2>3, <2>4, <2>5
<1>2. ASSUME NEW i \in DOMAIN nodos, EliminarNodo(i)
      PROVE  UsosInv'
  <2>1. /\ Puede("consola") /\ mongoNodos' = SinNodo(nodos[i])
        /\ nodos' = [nodos EXCEPT ![i].estado = -1]
        /\ en' = [en EXCEPT !["consola"] = "creaNodo"]
        /\ mano' = [mano EXCEPT !["consola"].nodo = i, !["consola"].luego = "libre"]
        /\ UNCHANGED <<letra, llega, archivos, discos, mongoArchivos, vivo, subidas, caidas>>
    BY <1>2 DEF EliminarNodo
  <2>2. -1 \in {-1, 1}
    OBVIOUS
  <2>. QED
    BY <2>1, <2>2, UsosNodoVaYViene
<1>. QED
  BY <1>1, <1>2

(* crear_nodo_mongo.                                                       *)
LEMMA UsosCreaNodo ==
  ASSUME Base, TipoInv', Previsto, CreaNodo
  PROVE  UsosInv'
<1>. DEFINE i == mano["consola"].nodo
            e == mano["consola"].luego
<1>1. /\ vivo /\ en["consola"] = "creaNodo" /\ en' = [en EXCEPT !["consola"] = e]
      /\ mongoNodos' = Append(mongoNodos, nodos[i])
      /\ UNCHANGED <<nodos, letra, llega, archivos, mano, discos, mongoArchivos, vivo,
                     subidas, caidas>>
  BY DEF CreaNodo, contador
<1>2. /\ e \in {"libre", "libera", "creaArchivo"} /\ i \in DOMAIN nodos
      /\ nodos \in Seq(UnNodo) /\ mongoNodos \in Seq(UnNodo)
  <2>1. nodos \in Seq(UnNodo) /\ mongoNodos \in Seq(UnNodo)
    BY DEF Base, TipoInv, MemoriaOK
  <2>2. i \in 1..Len(nodos)
    BY <1>1 DEF Base, TipoInv, ConsolaOK
  <2>3. mano["consola"] \in Mano
    BY DEF Base, TipoInv, HilosOK, Hilo
  <2>. HIDE DEF i
  <2>4. i \in DOMAIN nodos
    BY <2>1, <2>2
  <2>. QED
    BY <2>1, <2>3, <2>4 DEF Mano
<1>3. e \notin Subiendo \cup {"formatea"} /\ e # "creaNodo"
  BY <1>2 DEF Subiendo
<1>4. /\ vivo /\ llega = {} /\ en'["consola"] = e
      /\ \A h \in Hilo : en[h] \notin Subiendo /\ en'[h] \notin Subiendo
  <2>. HIDE DEF e
  <2>. QED
    BY <1>1, <1>3, ConsolaSola
<1>5. NodosReflejados(mongoNodos, nodos, {i}) /\ nodos[i].estado # 0 /\ Servidores(nodos)
  BY <1>1, AlDiaLibre DEF Base, UsosInv, NodosAlDia
<1>6. NodosReflejados(mongoNodos', nodos', {})
  <2>1. nodos[i] \in UnNodo
    BY <1>2
  <2>. HIDE DEF i
  <2>2. NodosReflejados(Append(mongoNodos, nodos[i]), nodos, {})
    BY <1>2, <1>5, <2>1, ConNodoRefleja
  <2>. QED
    BY <1>1, <2>2
<1>7. NodosAlDia'
  BY <1>3, <1>4, <1>6, NodosTrasLaConsola
<1>8. ArchivosAlDia'
  <2>1. ArchivosReflejados(mongoArchivos', archivos', {})
    BY <1>1, AlDiaLibre
  <2>2. e # "libre" => ArchivosReflejados(mongoArchivos', archivos', {mano'["consola"].arch})
    BY <1>1 DEF Base, UsosInv, ArchivosAlDia, TrabajaArchivo
  <2>3. e \in DeArchivo => e # "libre"
    BY DEF DeArchivo
  <2>. QED
    BY <1>3, <1>4, <2>1, <2>2, <2>3, ArchivosTrasLaConsola
<1>9. Sana(Tomados', Escritos', nodos', discos')
  <2>1. \A h \in Hilo : en'[h] \notin EnCamino
    BY <1>4 DEF EnCamino, Subiendo
  <2>2. MismosBloques(nodos, nodos') /\ UsosDe(archivos') \subseteq UsosDe(archivos)
    BY <1>1 DEF MismosBloques
  <2>. QED
    BY <1>1, <2>1, <2>2, AlDiaLibre, PasoSinEnvio
<1>10. PasoTranquilo
  <2>1. subidas = 0 => archivos' = <<>> /\ mongoArchivos' = <<>>
    BY <1>1 DEF Base, UsosInv, Vacio
  <2>. QED
    BY <1>1, <1>3, <1>4, <2>1 DEF PasoTranquilo
<1>. QED
  BY <1>7, <1>8, <1>9, <1>10, UsosTranquilo DEF TipoInv

-----------------------------------------------------------------------------
(* The console on files.                                                   *)

(* The document of a file goes, and the console goes on with the file.     *)
LEMMA UsosQuitaDocumento ==
  ASSUME Base, TipoInv', Previsto, NEW a \in DOMAIN archivos, Puede("consola"),
         NEW e \in DeArchivo, en' = [en EXCEPT !["consola"] = e],
         mano'["consola"].arch = a, mongoArchivos' = SinArchivo(archivos[a]),
         DOMAIN archivos' = DOMAIN archivos, archivos'[a].bloques = archivos[a].bloques,
         \A k \in DOMAIN archivos \ {a} : archivos'[k] = archivos[k],
         UNCHANGED <<nodos, letra, llega, discos, mongoNodos, vivo, subidas, caidas>>
  PROVE  UsosInv'
<1>1. e \notin Subiendo \cup {"formatea"} /\ e # "creaNodo"
  BY DEF Subiendo, DeArchivo
<1>2. /\ vivo /\ llega = {} /\ en'["consola"] = e
      /\ \A h \in Hilo : en[h] \notin Subiendo /\ en'[h] \notin Subiendo
  BY <1>1, ConsolaSola
<1>3. NodosAlDia'
  <2>1. NodosReflejados(mongoNodos', nodos', {})
    BY <1>2, AlDiaLibre
  <2>. QED
    BY <1>1, <1>2, <2>1, NodosTrasLaConsola
<1>4. ArchivosAlDia'
  <2>1. ArchivosReflejados(mongoArchivos', archivos, {a})
    BY <1>2, AlDiaLibre, SinArchivoRefleja
  <2>2. ArchivosReflejados(mongoArchivos', archivos', {a})
    BY <2>1 DEF ArchivosReflejados
  <2>. QED
    BY <1>1, <1>2, <2>2, ArchivosTrasLaConsola
<1>5. Sana(Tomados', Escritos', nodos', discos')
  <2>1. \A h \in Hilo : en'[h] \notin EnCamino
    BY <1>2 DEF EnCamino, Subiendo
  <2>2. MismosBloques(nodos, nodos')
    BY DEF MismosBloques
  <2>3. UsosDe(archivos') \subseteq UsosDe(archivos)
    <3>1. \A k \in DOMAIN archivos' : k \in DOMAIN archivos /\ archivos'[k].bloques = archivos[k].bloques
      OBVIOUS
    <3>. QED
      BY <3>1, UsosMenos
  <2>. QED
    BY <1>2, <2>1, <2>2, <2>3, AlDiaLibre, PasoSinEnvio
<1>6. PasoTranquilo
  <2>1. subidas # 0
    BY DEF Base, UsosInv, Vacio
  <2>. QED
    BY <1>1, <1>2, <2>1 DEF PasoTranquilo
<1>. QED
  BY <1>3, <1>4, <1>5, <1>6, UsosTranquilo DEF TipoInv

(* A file is listed, so there was an upload.                               *)
LEMMA HayArchivo ==
  ASSUME Base, NEW a \in DOMAIN archivos
  PROVE  subidas # 0 /\ ~Alta /\ caidas \in Nat
BY DEF Base, UsosInv, Vacio, Registro, Alta

(* The search of a file gives one that is listed.                          *)
LEMMA ArchivoListado ==
  ASSUME Base, NEW r, ArchivoEn(r) # 0
  PROVE  ArchivoEn(r) \in DOMAIN archivos
<1>. DEFINE a == ArchivoEn(r)
<1>1. a \in 0..Len(archivos) /\ archivos \in Seq(UnArchivo)
  BY ArchivoBuscado DEF Base, TipoInv, MemoriaOK
<1>. HIDE DEF a
<1>2. a # 0 => a \in DOMAIN archivos
  BY <1>1
<1>. QED
  BY <1>2 DEF a

(* Renaming, and the first step of deleting.                               *)
LEMMA UsosOrdena ==
  ASSUME Base, TipoInv', Previsto,
         \/ \E r, nueva \in Ruta : Renombrar(r, nueva)
         \/ \E r \in Ruta : EliminarArchivo(r)
         \/ \E r \in Ruta, b, c \in Respuesta : BorrarBloque(r, b, c)
         \/ LeeLiberado
  PROVE  UsosInv'
<1>0. "creaArchivo" \in DeArchivo /\ "libera" \in DeArchivo /\ "quita" \in DeArchivo
  BY DEF DeArchivo
<1>m. mano \in [Hilo -> Mano] /\ "consola" \in Hilo /\ archivos \in Seq(UnArchivo)
  BY TieneLaConsola DEF Base
<1>1. ASSUME NEW r \in Ruta, NEW nueva \in Ruta, Renombrar(r, nueva)
      PROVE  UsosInv'
  <2>. DEFINE a == ArchivoEn(r)
  <2>1. a \in DOMAIN archivos
    BY <1>1, ArchivoListado DEF Renombrar
  <2>2. /\ Puede("consola") /\ mongoArchivos' = SinArchivo(archivos[a])
        /\ archivos' = [archivos EXCEPT ![a].ruta = nueva]
        /\ en' = [en EXCEPT !["consola"] = "creaArchivo"]
        /\ mano' = [mano EXCEPT !["consola"].arch = a]
        /\ UNCHANGED <<nodos, letra, llega, discos, mongoNodos, vivo, subidas, caidas>>
    BY <1>1 DEF Renombrar, Ordena
  <2>. HIDE DEF a
  <2>3. mano'["consola"].arch = a
    BY <1>m, <2>2 DEF Mano
  <2>4. archivos[a] \in UnArchivo
    BY <1>m, <2>1
  <2>5. /\ DOMAIN archivos' = DOMAIN archivos /\ archivos'[a].bloques = archivos[a].bloques
        /\ \A k \in DOMAIN archivos \ {a} : archivos'[k] = archivos[k]
    BY <2>1, <2>2, <2>4 DEF UnArchivo
  <2>. QED
    BY <1>0, <2>1, <2>2, <2>3, <2>5, UsosQuitaDocumento
<1>2. ASSUME NEW r \in Ruta, EliminarArchivo(r)
      PROVE  UsosInv'
  <2>. DEFINE a == ArchivoEn(r)
  <2>1. a \in DOMAIN archivos
    BY <1>2, ArchivoListado DEF EliminarArchivo
  <2>2. /\ Puede("consola") /\ mongoArchivos' = SinArchivo(archivos[a])
        /\ en' = [en EXCEPT !["consola"] = "libera"]
        /\ mano' = [mano EXCEPT !["consola"].arch = a]
        /\ UNCHANGED <<nodos, letra, llega, archivos, discos, mongoNodos, vivo, subidas, caidas>>
    BY <1>2 DEF EliminarArchivo, Ordena
  <2>. HIDE DEF a
  <2>3. mano'["consola"].arch = a
    BY <1>m, <2>2 DEF Mano
  <2>. QED
    BY <1>0, <2>1, <2>2, <2>3, UsosQuitaDocumento
<1>3. ASSUME NEW r \in Ruta, NEW b \in Respuesta, NEW c \in Respuesta, BorrarBloque(r, b, c)
      PROVE  UsosInv'
  <2>. DEFINE a == ArchivoEn(r)
  <2>1. a \in DOMAIN archivos
    BY <1>3, ArchivoListado DEF BorrarBloque
  <2>2. Puede("consola") /\ UNCHANGED <<discos, mongoNodos, subidas, caidas>>
    BY <1>3 DEF BorrarBloque, Ordena
  <2>3. \/ Muere /\ (UNCHANGED mongoArchivos \/ mongoArchivos' = SinArchivo(archivos[a]))
        \/ /\ mongoArchivos' = SinArchivo(archivos[a])
           /\ en' = [en EXCEPT !["consola"] = "quita"]
           /\ mano' = [mano EXCEPT !["consola"].arch = a, !["consola"].cual = <<b, c>>]
           /\ UNCHANGED <<nodos, letra, llega, archivos, vivo>>
    BY <1>3 DEF BorrarBloque
  <2>. HIDE DEF a
  <2>4. vivo
    BY <2>2 DEF Puede
  <2>5. CASE Muere /\ UNCHANGED mongoArchivos
    BY <2>1, <2>2, <2>5, HayArchivo, UsosMuereIgual DEF Alta, Base
  <2>6. CASE Muere /\ mongoArchivos' = SinArchivo(archivos[a])
    <3>1. ArchivosReflejados(mongoArchivos', archivos, {a})
      BY <2>1, <2>4, <2>6, AlDiaLibre, SinArchivoRefleja
    <3>2. UsosDe(archivos) \subseteq Tomados /\ UsosDe(archivos) \subseteq Escritos
      BY DEF Tomados, Escritos, UsosDe
    <3>3. Respaldo(Tomados, Escritos, nodos, discos, archivos, mongoArchivos', mongoNodos, {a}, {})
      BY <2>4, <3>1, <3>2, AlDiaLibre DEF Respaldo
    <3>4. Sana(UsosDe(mongoArchivos'), UsosDe(mongoArchivos'), mongoNodos, discos)
      BY <3>3, ImagenDe
    <3>5. ~Alta' /\ caidas' \in Nat /\ subidas' # 0
      BY <2>1, <2>2, HayArchivo DEF Alta
    <3>6. \A i \in DOMAIN mongoNodos' : mongoNodos'[i].estado # 0
      BY <2>2 DEF Base, UsosInv, Registro
    <3>. QED
      BY <2>2, <2>6, <3>4, <3>5, <3>6, UsosMuere
  <2>7. CASE /\ mongoArchivos' = SinArchivo(archivos[a])
             /\ en' = [en EXCEPT !["consola"] = "quita"]
             /\ mano' = [mano EXCEPT !["consola"].arch = a, !["consola"].cual = <<b, c>>]
             /\ UNCHANGED <<nodos, letra, llega, archivos, vivo>>
    <3>1. mano'["consola"].arch = a
      BY <1>m, <2>7 DEF Mano
    <3>. QED
      BY <1>0, <2>1, <2>2, <2>7, <3>1, UsosQuitaDocumento
  <2>. QED
    BY <2>3, <2>5, <2>6, <2>7
<1>4. CASE LeeLiberado
  <2>1. /\ Muere /\ UNCHANGED <<discos, mongoNodos, mongoArchivos, subidas, caidas>>
        /\ \E a \in DOMAIN archivos : archivos[a].colgado
    BY <1>4 DEF LeeLiberado, mongo
  <2>. QED
    BY <2>1, HayArchivo, UsosMuereIgual DEF Alta, Base
<1>. QED
  BY <1>1, <1>2, <1>3, <1>4

(* crear_archivo_mongo after a change of a file.                           *)
LEMMA UsosCreaArchivo ==
  ASSUME Base, TipoInv', Previsto, CreaArchivo
  PROVE  UsosInv'
<1>. DEFINE a == mano["consola"].arch
<1>1. /\ vivo /\ en["consola"] = "creaArchivo" /\ en' = [en EXCEPT !["consola"] = "libre"]
      /\ mongoArchivos' = Append(mongoArchivos, archivos[a])
      /\ UNCHANGED <<nodos, letra, llega, archivos, discos, mongoNodos, vivo, subidas, caidas>>
  BY DEF CreaArchivo, contador
<1>2. en["consola"] \in DeArchivo /\ "libre" \notin Subiendo \cup {"formatea"}
  BY <1>1 DEF DeArchivo, Subiendo
<1>3. a \in DOMAIN archivos
  BY <1>2, TieneLaConsola DEF Base, TipoInv, ConsolaOK
<1>4. /\ vivo /\ llega = {} /\ en'["consola"] = "libre"
      /\ \A h \in Hilo : en[h] \notin Subiendo /\ en'[h] \notin Subiendo
  BY <1>1, <1>2, ConsolaSola
<1>5. NodosAlDia'
  <2>1. NodosReflejados(mongoNodos', nodos', {})
    BY <1>1, AlDiaLibre
  <2>. QED
    BY <1>4, <2>1, NodosTrasLaConsola
<1>6. ArchivosAlDia'
  <2>1. ArchivosReflejados(mongoArchivos, archivos, {a})
    BY <1>1, <1>2 DEF Base, UsosInv, ArchivosAlDia, TrabajaArchivo
  <2>. HIDE DEF a
  <2>2. ArchivosReflejados(Append(mongoArchivos, archivos[a]), archivos, {})
    BY <1>1, <1>3, <2>1, AlDiaLibre, ConArchivoRefleja
  <2>3. ArchivosReflejados(mongoArchivos', archivos', {})
    BY <1>1, <2>2
  <2>. QED
    BY <1>4, <2>3, ArchivosTrasLaConsola DEF DeArchivo
<1>7. Sana(Tomados', Escritos', nodos', discos')
  <2>1. \A h \in Hilo : en'[h] \notin EnCamino
    BY <1>4 DEF EnCamino, Subiendo
  <2>2. MismosBloques(nodos, nodos') /\ UsosDe(archivos') \subseteq UsosDe(archivos)
    BY <1>1 DEF MismosBloques
  <2>. QED
    BY <1>1, <2>1, <2>2, AlDiaLibre, PasoSinEnvio
<1>8. PasoTranquilo
  <2>1. subidas # 0
    BY <1>3, HayArchivo
  <2>. QED
    BY <1>1, <1>2, <1>4, <2>1 DEF PasoTranquilo
<1>. QED
  BY <1>5, <1>6, <1>7, <1>8, UsosTranquilo DEF TipoInv

(* A copy that leaves its block is of no block any more.                   *)
SinLaCopia(A, K, a, b, c) == K = [A EXCEPT ![a].bloques[b].copias = RemoveAt(@, c)]

LEMMA QuitaUso ==
  ASSUME NEW A \in Seq(Sano), SinCompartir(UsosDe(A)), NEW a \in DOMAIN A,
         NEW b \in DOMAIN A[a].bloques, NEW c \in DOMAIN A[a].bloques[b].copias,
         NEW K, SinLaCopia(A, K, a, b, c)
  PROVE  \A u \in UsosDe(K) : u \in UsosDe(A) /\ u.copia # A[a].bloques[b].copias[c]
<1>. DEFINE v == A[a]
            x == v.bloques[b]
            r == RemoveAt(x.copias, c)
            copia == x.copias[c]
<1>1. v \in UnArchivo /\ ArchivoSano(v) /\ a \in Nat
  BY DEF Sano
<1>2. v.bloques \in Seq(UnBloque)
  BY <1>1 DEF UnArchivo
<1>3. x \in UnBloque /\ b \in Nat
  BY <1>2
<1>4. x.copias \in Seq(UnaCopia) /\ x.dato \in Seq(Nat)
  BY <1>3 DEF UnBloque
<1>5. c \in DOMAIN x.copias /\ copia \in UnaCopia
  BY <1>4
<1>6. CopiasDistintas(x)
  BY <1>1 DEF ArchivoSano
<1>7. ASSUME NEW y \in ToSet(r)
      PROVE  y \in ToSet(x.copias) /\ y # copia
  <2>1. PICK d \in DOMAIN r : y = r[d]
    BY DEF ToSet
  <2>2. PICK e \in DOMAIN x.copias : e # c /\ r[d] = x.copias[e]
    BY <1>4, <1>5, SinElemento
  <2>3. y = x.copias[e]
    BY <2>1, <2>2
  <2>. HIDE DEF x
  <2>4. y # copia
    BY <1>5, <1>6, <2>2, <2>3 DEF CopiasDistintas
  <2>. QED
    BY <2>3, <2>4 DEF ToSet
<1>8. /\ DOMAIN K = DOMAIN A /\ DOMAIN K[a].bloques = DOMAIN v.bloques
      /\ K[a].bloques[b].copias = r /\ K[a].bloques[b].dato = x.dato
      /\ \A d \in DOMAIN v.bloques \ {b} : K[a].bloques[d] = v.bloques[d]
      /\ \A k \in DOMAIN A \ {a} : K[k] = A[k]
  <2>. HIDE DEF r
  <2>1. K = [A EXCEPT ![a].bloques[b].copias = r]
    BY DEF r, SinLaCopia
  <2>2. DOMAIN K = DOMAIN A /\ \A k \in DOMAIN A \ {a} : K[k] = A[k]
    BY <2>1
  <2>3. K[a] = [v EXCEPT !.bloques[b].copias = r]
    BY <2>1
  <2>4. K[a].bloques = [v.bloques EXCEPT ![b].copias = r]
    BY <1>1, <2>3 DEF UnArchivo
  <2>5. /\ DOMAIN K[a].bloques = DOMAIN v.bloques
        /\ K[a].bloques[b] = [x EXCEPT !.copias = r]
        /\ \A d \in DOMAIN v.bloques \ {b} : K[a].bloques[d] = v.bloques[d]
    BY <2>4
  <2>6. [x EXCEPT !.copias = r].copias = r /\ [x EXCEPT !.copias = r].dato = x.dato
    <3>. HIDE DEF x
    <3>. QED
      BY <1>3 DEF UnBloque
  <2>7. K[a].bloques[b].copias = r /\ K[a].bloques[b].dato = x.dato
    BY <2>5, <2>6
  <2>. QED
    BY <2>2, <2>5, <2>7
<1>. HIDE DEF r, copia
<1>9. ASSUME NEW u \in UsosDe(K)
      PROVE  u \in UsosDe(A) /\ u.copia # copia
  <2>1. u \in Uso /\ u.arch \in DOMAIN A /\ u.nro \in DOMAIN K[u.arch].bloques
        /\ Usa(K[u.arch].bloques[u.nro], u)
    BY <1>8 DEF UsosDe, EnLista
  <2>2. CASE u.arch = a /\ u.nro = b
    <3>1. u.copia \in ToSet(r) /\ u.dato = x.dato /\ u.copia.bloque # 0
      BY <1>8, <2>1, <2>2 DEF Usa
    <3>2. u.copia \in ToSet(x.copias) /\ u.copia # copia
      BY <1>7, <3>1
    <3>. QED
      BY <2>1, <2>2, <3>1, <3>2 DEF UsosDe, EnLista, Usa
  <2>3. CASE ~(u.arch = a /\ u.nro = b)
    <3>1. u.nro \in DOMAIN A[u.arch].bloques /\ K[u.arch].bloques[u.nro] = A[u.arch].bloques[u.nro]
      BY <1>8, <2>1, <2>3
    <3>2. u \in UsosDe(A)
      BY <2>1, <3>1 DEF UsosDe, EnLista
    <3>3. SUFFICES ASSUME u.copia = copia PROVE FALSE
      BY <3>2
    <3>. DEFINE w == [arch |-> a, nro |-> b, copia |-> copia, dato |-> x.dato]
    <3>4. copia.bloque # 0 /\ copia \in ToSet(x.copias)
      BY <1>5, <2>1, <3>3 DEF Usa, ToSet, copia
    <3>5. w \in UsosDe(A)
      BY <1>1, <1>3, <1>4, <1>5, <3>4 DEF UsosDe, EnLista, Usa, Uso
    <3>6. w.copia = u.copia /\ w.arch = a /\ w.nro = b
      BY <3>3
    <3>. HIDE DEF w
    <3>. QED
      BY <2>3, <3>2, <3>5, <3>6 DEF SinCompartir
  <2>. QED
    BY <2>2, <2>3
<1>. QED
  BY <1>9 DEF copia

(* A block that is given back is free, and nobody uses it.                 *)
LEMMA QuitaSana ==
  ASSUME NEW U, NEW F, NEW ds, Sana(U, F, nodos, ds), nodos \in Seq(UnNodo),
         NEW i \in DOMAIN nodos, NEW n \in Bloque0,
         NEW V \in SUBSET (U \cap F),
         \A u \in V : u.copia.bloque # 0 /\ ~(u.copia.nodo = nodos[i].nombre /\ u.copia.bloque = n),
         n # 0 => n \notin ToSet(nodos[i].libres)
  PROVE  Sana(V, V, [nodos EXCEPT ![i] = Devuelve(@, n)], ds)
<1>. DEFINE L == [nodos EXCEPT ![i] = Devuelve(@, n)]
            s == nodos[i].libres
<1>1. nodos[i] \in UnNodo
  OBVIOUS
<1>2. s \in Seq(Bloque0)
  BY <1>1 DEF UnNodo
<1>3. /\ DOMAIN L = DOMAIN nodos /\ L[i].libres = Append(s, n)
      /\ L[i].nombre = nodos[i].nombre /\ L[i].dir = nodos[i].dir
      /\ \A k \in DOMAIN nodos \ {i} : L[k] = nodos[k]
  BY <1>1 DEF Devuelve, UnNodo
<1>4. \A k \in DOMAIN nodos : L[k].nombre = nodos[k].nombre /\ L[k].dir = nodos[k].dir
  BY <1>3
<1>. HIDE DEF L
<1>5. ToSet(Append(s, n)) = ToSet(s) \cup {n}
  <2>1. /\ DOMAIN Append(s, n) = 1..(Len(s) + 1) /\ DOMAIN s = 1..Len(s) /\ Len(s) \in Nat
        /\ \A k \in 1..Len(s) : Append(s, n)[k] = s[k]
        /\ Append(s, n)[Len(s) + 1] = n
    BY <1>2
  <2>. HIDE DEF s
  <2>2. \A k \in DOMAIN Append(s, n) : k \in DOMAIN s \/ k = Len(s) + 1
    BY <2>1
  <2>3. \A k \in DOMAIN s : k \in DOMAIN Append(s, n) /\ Append(s, n)[k] = s[k]
    BY <2>1
  <2>4. Len(s) + 1 \in DOMAIN Append(s, n)
    BY <2>1
  <2>. QED
    BY <2>1, <2>2, <2>3, <2>4 DEF ToSet
<1>6. SinCompartir(V)
  BY DEF Sana, SinCompartir
<1>7. SinLibres(V, L)
  <2>1. SUFFICES ASSUME NEW u \in V, NEW k \in DOMAIN L, L[k].nombre = u.copia.nodo
                 PROVE  u.copia.bloque \notin ToSet(L[k].libres)
    BY DEF SinLibres
  <2>2. k \in DOMAIN nodos /\ nodos[k].nombre = u.copia.nodo
    BY <1>3, <1>4, <2>1
  <2>3. u.copia.bloque \notin ToSet(nodos[k].libres)
    BY <2>2 DEF Sana, SinLibres
  <2>4. CASE k = i
    <3>1. u.copia.bloque # n
      BY <2>2, <2>4
    <3>2. L[k].libres = Append(s, n) /\ u.copia.bloque \notin ToSet(s)
      BY <1>3, <2>3, <2>4
    <3>. HIDE DEF s
    <3>. QED
      BY <1>5, <3>1, <3>2
  <2>5. CASE k # i
    BY <1>3, <2>2, <2>3, <2>5
  <2>. QED
    BY <2>4, <2>5
<1>8. Escrito(V, L, ds)
  BY <1>3, <1>4 DEF Sana, Escrito
<1>9. LibresUnicos(L[i])
  <2>1. LibresUnicos(nodos[i])
    BY DEF Sana, Servidores
  <2>2. /\ DOMAIN Append(s, n) = 1..(Len(s) + 1) /\ DOMAIN s = 1..Len(s) /\ Len(s) \in Nat
        /\ \A k \in 1..Len(s) : Append(s, n)[k] = s[k]
        /\ Append(s, n)[Len(s) + 1] = n
    BY <1>2
  <2>3. n # 0 => \A k \in DOMAIN s : s[k] # n
    BY DEF ToSet
  <2>4. \A p, q \in DOMAIN s : s[p] = s[q] /\ s[p] # 0 => p = q
    BY <2>1 DEF LibresUnicos
  <2>. HIDE DEF s
  <2>5. ASSUME NEW p \in DOMAIN Append(s, n), NEW q \in DOMAIN Append(s, n),
               Append(s, n)[p] = Append(s, n)[q], Append(s, n)[p] # 0
        PROVE  p = q
    BY <2>2, <2>3, <2>4, <2>5
  <2>. QED
    BY <1>3, <2>5 DEF LibresUnicos
<1>10. Servidores(L)
  <2>1. \A j, k \in DOMAIN L : L[j].nombre = L[k].nombre \/ L[j].dir = L[k].dir => j = k
    BY <1>3, <1>4 DEF Sana, Servidores
  <2>2. \A k \in DOMAIN L : LibresUnicos(L[k])
    BY <1>3, <1>9 DEF Sana, Servidores
  <2>. QED
    BY <2>1, <2>2 DEF Servidores
<1>11. Sana(V, V, L, ds)
  BY <1>6, <1>7, <1>8, <1>10 DEF Sana
<1>. QED
  BY <1>11 DEF L

LEMMA UsosQuitaCopia ==
  ASSUME Base, TipoInv', Previsto, NEW a \in DOMAIN archivos,
         NEW b \in DOMAIN archivos[a].bloques, NEW c \in DOMAIN archivos[a].bloques[b].copias,
         NEW luego \in {"libera", "creaArchivo"}, vivo, en["consola"] \in DeArchivo,
         mano["consola"].arch = a, QuitaCopia(a, b, c, luego),
         UNCHANGED <<discos, mongoArchivos, subidas, caidas>>
  PROVE  UsosInv'
<1>. DEFINE copia == archivos[a].bloques[b].copias[c]
            i == PorNombre(copia.nodo)
<1>0. subidas # 0 /\ ~Alta /\ ~Alta' /\ caidas' \in Nat
  BY HayArchivo DEF Alta
<1>1. CASE Muere /\ mongoNodos' = mongoNodos
  BY <1>0, <1>1, UsosMuereIgual DEF Base
<1>2. CASE ~(Muere /\ mongoNodos' = mongoNodos)
  <2>1. /\ i # 0
        /\ archivos' = [archivos EXCEPT ![a].bloques[b].copias = RemoveAt(@, c)]
        /\ mongoNodos' = SinNodo(nodos[i])
        /\ nodos' = [nodos EXCEPT ![i] = Devuelve(@, copia.bloque)]
        /\ en' = [en EXCEPT !["consola"] = "creaNodo"]
        /\ mano' = [mano EXCEPT !["consola"].nodo = i, !["consola"].luego = luego]
        /\ UNCHANGED <<letra, llega, archivo, vivo>>
    BY <1>2 DEF QuitaCopia
  <2>2. "creaNodo" \notin Subiendo \cup {"formatea"} /\ luego # "libre"
    BY DEF Subiendo
  <2>3. /\ llega = {} /\ en'["consola"] = "creaNodo"
        /\ \A h \in Hilo : en[h] \notin Subiendo /\ en'[h] \notin Subiendo
    BY <2>1, <2>2, ConsolaSola
  <2>4. /\ nodos \in Seq(UnNodo) /\ archivos \in Seq(UnArchivo) /\ archivos \in Seq(Sano)
        /\ SinCompartir(UsosDe(archivos)) /\ Sana(Tomados, Escritos, nodos, discos)
    BY AlDiaLibre, Sanos DEF Base
  <2>5. archivos[a] \in UnArchivo /\ a \in Nat
    BY <2>4
  <2>6. archivos[a].bloques \in Seq(UnBloque)
    BY <2>5 DEF UnArchivo
  <2>7. archivos[a].bloques[b] \in UnBloque /\ b \in Nat
    BY <2>6
  <2>8. archivos[a].bloques[b].copias \in Seq(UnaCopia) /\ archivos[a].bloques[b].dato \in Seq(Nat)
    BY <2>7 DEF UnBloque
  <2>9. copia \in UnaCopia /\ copia.bloque \in Bloque0 /\ copia \in ToSet(archivos[a].bloques[b].copias)
    <3>. DEFINE s == archivos[a].bloques[b].copias
    <3>1. s \in Seq(UnaCopia) /\ c \in DOMAIN s
      BY <2>8
    <3>. HIDE DEF s
    <3>2. s[c] \in UnaCopia /\ s[c] \in ToSet(s)
      BY <3>1 DEF ToSet
    <3>3. copia \in UnaCopia /\ copia \in ToSet(s)
      BY <3>2 DEF s
    <3>. HIDE DEF copia
    <3>4. copia.bloque \in Bloque0
      BY <3>3 DEF UnaCopia
    <3>. QED
      BY <3>3, <3>4 DEF s
  <2>10. \A u \in UsosDe(archivos') : u \in UsosDe(archivos) /\ u.copia # copia
    <3>1. SinLaCopia(archivos, archivos', a, b, c)
      BY <2>1 DEF SinLaCopia
    <3>. QED
      BY <2>4, <3>1, QuitaUso
  <2>. HIDE DEF copia
  <2>11. i \in DOMAIN nodos /\ nodos[i] \in UnNodo /\ nodos[i].nombre = copia.nodo
    <3>1. /\ PorNombre(copia.nodo) \in 0..Len(nodos)
          /\ PorNombre(copia.nodo) # 0 => nodos[PorNombre(copia.nodo)].nombre = copia.nodo
      BY <2>4, NodoBuscado
    <3>2. i \in 0..Len(nodos) /\ i # 0 /\ nodos[i].nombre = copia.nodo
      BY <2>1, <3>1
    <3>. HIDE DEF i
    <3>3. i \in DOMAIN nodos
      BY <2>4, <3>2
    <3>. QED
      BY <2>4, <3>2, <3>3
  <2>. HIDE DEF i
  <2>12. mano'["consola"].nodo = i /\ mano'["consola"].luego = luego /\ mano'["consola"].arch = a
    BY <2>1, TieneLaConsola DEF Base, Mano
  <2>13. copia.bloque # 0 => copia.bloque \notin ToSet(nodos[i].libres)
    <3>1. SUFFICES ASSUME copia.bloque # 0
                   PROVE  copia.bloque \notin ToSet(nodos[i].libres)
      OBVIOUS
    <3>. DEFINE w == [arch |-> a, nro |-> b, copia |-> copia, dato |-> archivos[a].bloques[b].dato]
    <3>2. w \in UsosDe(archivos)
      BY <2>5, <2>7, <2>8, <2>9, <3>1 DEF UsosDe, EnLista, Usa, Uso
    <3>3. w \in Tomados /\ w.copia = copia
      BY <3>2 DEF Tomados, Escritos, UsosDe
    <3>. HIDE DEF w
    <3>. QED
      BY <2>4, <2>11, <3>3 DEF Sana, SinLibres
  <2>14. Sana(Tomados', Escritos', nodos', discos')
    <3>1. \A h \in Hilo : en'[h] \notin EnCamino
      BY <2>3 DEF EnCamino, Subiendo
    <3>2. Tomados' = UsosDe(archivos') /\ Escritos' = UsosDe(archivos')
      BY <3>1, SoloArchivosPrima
    <3>3. UsosDe(archivos') \in SUBSET (Tomados \cap Escritos)
      BY <2>10 DEF Tomados, Escritos, UsosDe
    <3>4. ASSUME NEW u \in UsosDe(archivos')
          PROVE  u.copia.bloque # 0
                 /\ ~(u.copia.nodo = nodos[i].nombre /\ u.copia.bloque = copia.bloque)
      <4>1. u.copia \in UnaCopia /\ u.copia.bloque # 0 /\ u.copia # copia
        BY <2>10 DEF UsosDe, EnLista, Usa, Uso
      <4>. QED
        BY <2>9, <2>11, <4>1 DEF UnaCopia
    <3>5. Sana(UsosDe(archivos'), UsosDe(archivos'), [nodos EXCEPT ![i] = Devuelve(@, copia.bloque)], discos)
      BY <2>4, <2>9, <2>11, <2>13, <3>3, <3>4, QuitaSana
    <3>. QED
      BY <2>1, <3>2, <3>5
  <2>15. /\ DOMAIN nodos' = DOMAIN nodos
         /\ \A k \in DOMAIN nodos \ {i} : nodos'[k] = nodos[k]
         /\ \A k \in DOMAIN nodos : /\ nodos'[k].nombre = nodos[k].nombre
                                    /\ nodos'[k].estado = nodos[k].estado
    BY <2>1, <2>11 DEF Devuelve, UnNodo
  <2>16. \A k \in DOMAIN nodos : nodos'[k].estado # 0
    BY <1>0, <2>15 DEF Base, UsosInv, Registro
  <2>17. NodosAlDia'
    <3>1. NodosReflejados(mongoNodos', nodos, {i})
      BY <2>1, <2>11, AlDiaLibre, SinNodoRefleja
    <3>2. NodosReflejados(mongoNodos', nodos', {i})
      BY <2>15, <2>16, <3>1 DEF NodosReflejados
    <3>. QED
      BY <2>3, <2>11, <2>12, <2>16, <3>2, NodosTrasLaConsola
  <2>18. ArchivosAlDia'
    <3>1. ArchivosReflejados(mongoArchivos, archivos, {a})
      BY DEF Base, UsosInv, ArchivosAlDia, TrabajaArchivo
    <3>2. DOMAIN archivos' = DOMAIN archivos /\ \A k \in DOMAIN archivos \ {a} : archivos'[k] = archivos[k]
      BY <2>1
    <3>3. ArchivosReflejados(mongoArchivos', archivos', {a})
      BY <3>1, <3>2 DEF ArchivosReflejados
    <3>. QED
      BY <2>2, <2>3, <2>12, <3>3, ArchivosTrasLaConsola
  <2>19. PasoTranquilo
    BY <1>0, <2>1, <2>2, <2>3, <2>15, <2>16 DEF PasoTranquilo
  <2>. QED
    BY <2>14, <2>17, <2>18, <2>19, UsosTranquilo DEF TipoInv
<1>. QED
  BY <1>1, <1>2

(* The copies of a file that is deleted, and the copy the operator chose.  *)
LEMMA UsosLibera ==
  ASSUME Base, TipoInv', Previsto, Libera \/ Quita
  PROVE  UsosInv'
<1>. DEFINE a == mano["consola"].arch
<1>1. /\ vivo /\ en["consola"] \in DeArchivo
      /\ UNCHANGED <<discos, mongoArchivos, subidas, caidas>>
  BY DEF Libera, Quita, DeArchivo, contador
<1>2. a \in 1..Len(archivos) /\ archivos \in Seq(UnArchivo)
  BY <1>1, TieneLaConsola DEF Base, TipoInv, ConsolaOK
<1>3. a \in DOMAIN archivos
  BY <1>2
<1>4. CASE Quita
  <2>. DEFINE b == mano["consola"].cual[1]
              c == mano["consola"].cual[2]
  <2>1. en["consola"] = "quita" /\ QuitaCopia(a, b, c, "creaArchivo")
    BY <1>4 DEF Quita
  <2>2. b \in DOMAIN archivos[a].bloques /\ c \in DOMAIN archivos[a].bloques[b].copias
    BY <2>1 DEF Base, TipoInv, ConsolaOK
  <2>. HIDE DEF b, c
  <2>. QED
    BY <1>1, <1>3, <2>1, <2>2, UsosQuitaCopia
<1>5. CASE Libera /\ ConCopias(a) # 0
  <2>. DEFINE b == ConCopias(a)
  <2>1. QuitaCopia(a, b, 1, "libera")
    BY <1>5 DEF Libera
  <2>2. b \in DOMAIN archivos[a].bloques /\ 1 \in DOMAIN archivos[a].bloques[b].copias
    BY <1>2, <1>5, BloqueBuscado
  <2>. HIDE DEF b, a
  <2>3. mano["consola"].arch = a
    BY DEF a
  <2>. QED
    BY <1>1, <1>3, <2>1, <2>2, <2>3, UsosQuitaCopia
<1>6. CASE Libera /\ ~(ConCopias(a) # 0)
  <2>1. /\ archivos' = [archivos EXCEPT ![a].colgado = TRUE, ![a].bloques = <<>>]
        /\ en' = [en EXCEPT !["consola"] = "libre"]
        /\ UNCHANGED <<nodos, letra, llega, mongoNodos, vivo>>
    BY <1>6 DEF Libera
  <2>2. "libre" \notin Subiendo \cup {"formatea"} /\ "libre" \notin DeArchivo
    BY DEF Subiendo, DeArchivo
  <2>3. /\ llega = {} /\ en'["consola"] = "libre"
        /\ \A h \in Hilo : en[h] \notin Subiendo /\ en'[h] \notin Subiendo
    BY <1>1, <2>1, <2>2, ConsolaSola
  <2>4. ArchivosReflejados(mongoArchivos, archivos, {a})
    BY <1>1 DEF Base, UsosInv, ArchivosAlDia, TrabajaArchivo
  <2>5. archivos[a] \in UnArchivo
    BY <1>2
  <2>. HIDE DEF a
  <2>6. /\ DOMAIN archivos' = DOMAIN archivos /\ archivos'[a].bloques = <<>>
        /\ \A k \in DOMAIN archivos \ {a} : archivos'[k] = archivos[k]
    BY <1>3, <2>1, <2>5 DEF UnArchivo
  <2>7. ArchivosAlDia'
    <3>1. ArchivosReflejados(mongoArchivos', archivos', {})
      BY <1>1, <2>4, <2>6 DEF ArchivosReflejados
    <3>. QED
      BY <2>2, <2>3, <3>1, ArchivosTrasLaConsola
  <2>8. NodosAlDia'
    <3>1. NodosReflejados(mongoNodos', nodos', {})
      BY <1>1, <2>1, AlDiaLibre
    <3>. QED
      BY <2>3, <3>1, NodosTrasLaConsola
  <2>9. Sana(Tomados', Escritos', nodos', discos')
    <3>1. \A h \in Hilo : en'[h] \notin EnCamino
      BY <2>3 DEF EnCamino, Subiendo
    <3>2. MismosBloques(nodos, nodos')
      BY <2>1 DEF MismosBloques
    <3>3. UsosDe(archivos') \subseteq UsosDe(archivos)
      <4>1. \A k \in DOMAIN archivos' : \/ archivos'[k].bloques = <<>>
                                        \/ k \in DOMAIN archivos /\ archivos'[k].bloques = archivos[k].bloques
        BY <2>6
      <4>. QED
        BY <4>1, UsosMenos
    <3>. QED
      BY <1>1, <3>1, <3>2, <3>3, AlDiaLibre, PasoSinEnvio
  <2>10. PasoTranquilo
    <3>1. subidas # 0
      BY <1>3, HayArchivo
    <3>. QED
      BY <1>1, <2>1, <2>2, <2>3, <3>1 DEF PasoTranquilo
  <2>. QED
    BY <2>7, <2>8, <2>9, <2>10, UsosTranquilo DEF TipoInv
<1>. QED
  BY <1>4, <1>5, <1>6

-----------------------------------------------------------------------------
(* The arrival of nodes.                                                   *)

(* What is not about arrivals only depends on these.                       *)
LEMMA UsosIgual ==
  ASSUME UsosInv, UNCHANGED <<nodos, archivos, archivo, en, mano, discos, mongoNodos,
                              mongoArchivos, vivo>>
  PROVE  MemoriaSana' /\ EnvioSano' /\ NodosAlDia' /\ ArchivosAlDia' /\ ImagenSana'
<1>1. Tomados' = Tomados /\ Escritos' = Escritos
  BY DEF Tomados, Escritos, Enviado, PorEnviar, Siguiente
<1>. QED
  BY <1>1 DEF UsosInv, MemoriaSana, EnvioSano, Destino, NodosAlDia, ArchivosAlDia,
              TrabajaArchivo, ImagenSana

(* There are letters for the nodes that did not arrive yet.                *)
LEMMA QuedanLetras ==
  ASSUME nodos \in Seq(UnNodo), Servidores(nodos), Previsto, NEW n \in Nodo,
         \A i \in DOMAIN nodos : nodos[i].dir # n
  PROVE  Len(nodos) < Letras
<1>. DEFINE S == 1..Len(nodos)
            f == [i \in S |-> nodos[i].dir]
            T == Nodo \ {n}
<1>1. IsFiniteSet(T) /\ Cardinality(T) = Cardinality(Nodo) - 1 /\ Cardinality(Nodo) \in Nat
  BY MDFSAssumption, FS_RemoveElement, FS_CardinalityType
<1>2. \A i \in S : nodos[i].dir \in T
  <2>1. \A i \in S : nodos[i] \in UnNodo
    OBVIOUS
  <2>. QED
    BY <2>1 DEF UnNodo
<1>3. f \in Injection(S, T)
  <2>1. f \in [S -> T]
    BY <1>2
  <2>2. \A i, j \in S : f[i] = f[j] => i = j
    BY DEF Servidores
  <2>. HIDE DEF f, S, T
  <2>. QED
    BY <2>1, <2>2 DEF Injection, IsInjective
<1>4. Cardinality(S) = Len(nodos)
  <2>1. Len(nodos) \in Nat
    OBVIOUS
  <2>2. Cardinality(S) = IF 1 > Len(nodos) THEN 0 ELSE Len(nodos) - 1 + 1
    BY <2>1, FS_Interval
  <2>. QED
    BY <2>1, <2>2
<1>5. Cardinality(S) <= Cardinality(T)
  <2>. HIDE DEF f, S, T
  <2>. QED
    BY <1>1, <1>3, FS_Injection
<1>. QED
  BY <1>1, <1>4, <1>5, MDFSAssumption DEF Previsto

LEMMA UsosLlegada ==
  ASSUME Base, TipoInv', Previsto, NEW n \in Nodo, NodoSePresenta(n) \/ NodoAgregado(n)
  PROVE  UsosInv'
<1>0. nodos \in Seq(UnNodo) /\ Cap \in Nat /\ Letras \in Nat
  BY MDFSAssumption DEF Base, TipoInv, MemoriaOK
<1>1. CASE NodoSePresenta(n)
  <2>1. /\ vivo /\ NodoDe(n) = 0 /\ llega' = llega \cup {n}
        /\ nombre' = (IF letra > Letras THEN 0 ELSE letra)
        /\ letra' = (IF letra > Letras THEN 1 ELSE letra)
        /\ UNCHANGED <<nodos, archivos, archivo, en, mano, discos, mongoNodos, mongoArchivos,
                       vivo, subidas, caidas>>
        /\ "altaTardia" \in Eventos \/ (subidas = 0 /\ caidas = 0)
        /\ "altasJuntas" \in Eventos \/ (llega = {} /\ \A h \in Hilo : en[h] = "libre")
    BY <1>1 DEF NodoSePresenta, mongo, contador
  <2>2. Alta /\ llega = {} /\ \A h \in Hilo : en[h] = "libre"
    BY <2>1 DEF Alta, Previsto
  <2>3. Llegadas /\ Servidores(nodos)
    BY <2>1, <2>2, AlDiaLibre DEF Base, UsosInv, Registro
  <2>4. \A i \in DOMAIN nodos : nodos[i].dir # n
    <3>. DEFINE I == {i \in 1..Len(nodos) : nodos[i].dir = n}
    <3>1. NodoDe(n) = IF I # {} THEN Min(I) ELSE 0
      BY DEF NodoDe, SelectInSeq
    <3>2. I # {} => Min(I) \in I
      <4>1. I \in SUBSET Nat
        OBVIOUS
      <4>. QED
        BY <4>1, MinEs
    <3>3. I = {}
      BY <2>1, <3>1, <3>2
    <3>. QED
      BY <1>0, <3>3
  <2>5. letra' = letra /\ nombre' = letra /\ letra = Len(nodos) + 1
    <3>1. letra = Len(nodos) + 1 /\ Len(nodos) < Letras /\ Len(nodos) \in Nat
      BY <1>0, <2>3, <2>4, QuedanLetras DEF Llegadas
    <3>. QED
      BY <1>0, <2>1, <3>1
  <2>6. Llegadas'
    <3>1. llega' = {n} /\ \A h \in Hilo : en'[h] = "libre"
      BY <2>1, <2>2
    <3>. QED
      BY <2>1, <2>3, <2>4, <2>5, <3>1 DEF Llegadas
  <2>7. Registro'
    BY <2>1, <2>2, <2>6 DEF Registro, Alta, Base, UsosInv
  <2>8. Vacio'
    BY <2>1 DEF Base, UsosInv, Vacio
  <2>9. MemoriaSana' /\ EnvioSano' /\ NodosAlDia' /\ ArchivosAlDia' /\ ImagenSana'
    BY <2>1, UsosIgual DEF Base
  <2>. QED
    BY <2>7, <2>8, <2>9 DEF UsosInv
<1>2. CASE NodoAgregado(n)
  <2>. DEFINE x == [dir |-> n, nombre |-> nombre, estado |-> 0, libres |-> <<>>]
              m == Len(nodos) + 1
  <2>1. /\ vivo /\ n \in llega /\ llega' = llega \ {n} /\ letra' = letra + 1
        /\ nodos' = Append(nodos, x)
        /\ UNCHANGED <<archivos, archivo, en, mano, discos, mongoNodos, mongoArchivos,
                       vivo, subidas, caidas>>
    BY <1>2 DEF NodoAgregado, mongo, contador
  <2>2. Alta /\ Llegadas
    BY <2>1 DEF Base, UsosInv, Registro
  <2>3. llega' = {} /\ nombre = m /\ letra' = m + 1 /\ \A h \in Hilo : en[h] = "libre"
    BY <2>1, <2>2 DEF Llegadas
  <2>4. /\ DOMAIN nodos' = 1..m /\ DOMAIN nodos = 1..Len(nodos) /\ Len(nodos) \in Nat
        /\ Len(nodos') = m
        /\ \A i \in 1..Len(nodos) : nodos'[i] = nodos[i]
        /\ nodos'[m] = x
    BY <1>0, <2>1
  <2>. HIDE DEF x, m
  <2>5. x.nombre = m /\ x.dir = n /\ x.estado = 0 /\ x.libres = <<>>
    BY <2>3 DEF x
  <2>6. ASSUME NEW i \in DOMAIN nodos'
        PROVE  (i \in DOMAIN nodos /\ nodos'[i] = nodos[i]) \/ (i = m /\ nodos'[i] = x)
    BY <2>4 DEF m
  <2>7. \A i \in DOMAIN nodos' : nodos'[i].nombre = i
    BY <2>2, <2>5, <2>6 DEF Llegadas
  <2>8. \A h \in Hilo : en'[h] = "libre"
    BY <2>1, <2>3
  <2>9. Llegadas'
    BY <2>3, <2>4, <2>7, <2>8 DEF Llegadas
  <2>10. subidas = 0 /\ archivos' = <<>> /\ mongoArchivos' = <<>>
    BY <2>1, <2>2 DEF Alta, Base, UsosInv, Vacio
  <2>11. Vacio'
    BY <2>8, <2>10 DEF Vacio, Subiendo
  <2>12. Alta' /\ vivo' /\ caidas' \in Nat
    BY <2>1, <2>2 DEF Alta, Base, UsosInv, Registro
  <2>13. en'["consola"] = "libre"
    BY <2>8 DEF Hilo
  <2>14. Registro'
    <3>1. \A i \in DOMAIN nodos' : nodos'[i].estado = 0 => nodos'[i].libres = <<>>
      BY <2>5, <2>6 DEF Base, UsosInv, Registro
    <3>2. \A i \in DOMAIN mongoNodos' : mongoNodos'[i].estado # 0
      BY <2>1 DEF Base, UsosInv, Registro
    <3>. QED
      BY <2>9, <2>12, <2>13, <3>1, <3>2 DEF Registro
  <2>15. Servidores(nodos')
    <3>1. Servidores(nodos)
      BY <2>1, AlDiaLibre
    <3>2. ASSUME NEW i \in DOMAIN nodos', NEW j \in DOMAIN nodos', nodos'[i].dir = nodos'[j].dir
          PROVE  i = j
      <4>1. \A k \in DOMAIN nodos : nodos[k].dir # n
        BY <2>1, <2>2 DEF Llegadas
      <4>. QED
        BY <2>5, <2>6, <3>1, <3>2, <4>1 DEF Servidores
    <3>3. LibresUnicos(x)
      BY <2>5 DEF LibresUnicos
    <3>4. \A i \in DOMAIN nodos' : LibresUnicos(nodos'[i])
      BY <2>6, <3>1, <3>3 DEF Servidores
    <3>. QED
      BY <2>7, <3>2, <3>4 DEF Servidores
  <2>16. \A h \in Hilo : en'[h] \notin Subiendo
    BY <2>8 DEF Subiendo
  <2>17. Sana(Tomados', Escritos', nodos', discos')
    <3>1. Tomados' = {} /\ Escritos' = {}
      BY <2>10, <2>16, NadaTomado
    <3>. QED
      BY <2>15, <3>1 DEF Sana, SinCompartir, SinLibres, Escrito
  <2>18. NodosAlDia'
    <3>1. NodosReflejados(mongoNodos, nodos, {})
      BY <2>1, AlDiaLibre
    <3>2. NodosReflejados(mongoNodos', nodos', {})
      <4>1. \A k \in DOMAIN nodos : k \in DOMAIN nodos' /\ nodos'[k] = nodos[k]
        BY <2>4 DEF m
      <4>. QED
        BY <2>1, <3>1, <4>1 DEF NodosReflejados
    <3>. QED
      BY <2>13, <2>16, <3>2, NodosTrasLaConsola
  <2>19. ArchivosAlDia'
    <3>1. ArchivosReflejados(mongoArchivos', archivos', {})
      BY <2>1, AlDiaLibre
    <3>. QED
      BY <2>13, <2>16, <3>1, ArchivosTrasLaConsola DEF DeArchivo
  <2>. QED
    BY <2>8, <2>11, <2>12, <2>14, <2>17, <2>18, <2>19
    DEF UsosInv, MemoriaSana, EnvioSano, ImagenSana
<1>. QED
  BY <1>1, <1>2

-----------------------------------------------------------------------------
(* Uploads.                                                                *)

(* A thread that uploads works alone.                                      *)
LEMMA HiloSolo ==
  ASSUME Base, Previsto, NEW h \in Hilo, Puede(h) \/ (vivo /\ en[h] \in Subiendo),
         NEW e \in Subiendo \cup {"libre"}, en' = [en EXCEPT ![h] = e]
  PROVE  /\ vivo /\ llega = {}
         /\ \A g \in Hilo \ {h} : en[g] = "libre" /\ en'[g] = "libre"
         /\ en'[h] = e
         /\ en'["consola"] # "formatea" /\ en'["consola"] # "creaNodo"
         /\ en'["consola"] \notin DeArchivo
         /\ en[h] \in Subiendo => archivo \in DOMAIN archivos /\ subidas # 0
<1>1. vivo
  BY DEF Puede
<1>2. CASE Puede(h)
  <2>1. llega = {} /\ \A g \in Hilo : en[g] = "libre"
    BY <1>2 DEF Puede, Previsto
  <2>2. en'[h] = e /\ \A g \in Hilo \ {h} : en'[g] = "libre"
    BY <2>1, SoloUno DEF Base, ReplicasInv
  <2>3. en'["consola"] \in Subiendo \cup {"libre"}
    BY <2>2 DEF Hilo
  <2>. QED
    BY <1>1, <2>1, <2>2, <2>3 DEF Subiendo, DeArchivo
<1>3. CASE vivo /\ en[h] \in Subiendo
  <2>1. en[h] # "libre"
    BY <1>3 DEF Subiendo
  <2>2. en'[h] = e /\ \A g \in Hilo \ {h} : en'[g] = "libre"
    BY <2>1, SoloUno DEF Base, ReplicasInv
  <2>3. \A g \in Hilo \ {h} : en[g] = "libre"
    BY <2>1 DEF Base, ReplicasInv, Solos
  <2>4. llega = {} /\ subidas # 0
    BY <1>3, <2>1 DEF Base, UsosInv, Registro, Llegadas, Vacio
  <2>5. en'["consola"] \in Subiendo \cup {"libre"}
    BY <2>2 DEF Hilo
  <2>6. archivo \in DOMAIN archivos
    <3>1. archivo # 0
      BY <1>3 DEF Base, ReplicasInv, SubidaSana, DatosSuyos
    <3>2. archivo \in 0..Len(archivos) /\ archivos \in Seq(UnArchivo)
      BY DEF Base, TipoInv, MemoriaOK
    <3>. QED
      BY <3>1, <3>2
  <2>. QED
    BY <1>1, <2>2, <2>3, <2>4, <2>5, <2>6 DEF Subiendo, DeArchivo
<1>. QED
  BY <1>2, <1>3

(* What is left to see of a step of an upload: the nodes are all enabled   *)
(* or removed.                                                             *)
LEMMA UsosDeSubida ==
  ASSUME Base, NEW h \in Hilo, vivo', subidas' \in Nat \ {0}, caidas' = caidas, llega' = {},
         \A i \in DOMAIN nodos' : nodos'[i].estado # 0,
         \A g \in Hilo \ {h} : en'[g] = "libre",
         en'["consola"] # "formatea", en'["consola"] # "creaNodo", en'["consola"] \notin DeArchivo,
         Sana(Tomados', Escritos', nodos', discos'),
         en'[h] = "manda" => Destino(h)',
         IF en'[h] = "toma" THEN NodosReflejados(mongoNodos', nodos', {mano'[h].nodo})
                            ELSE NodosReflejados(mongoNodos', nodos', {}),
         IF en'[h] \in Subiendo THEN ArchivosReflejados(mongoArchivos', archivos', {archivo'})
                                ELSE ArchivosReflejados(mongoArchivos', archivos', {})
  PROVE  UsosInv'
<1>1. /\ NodosReflejados(mongoNodos', nodos', {mano'[h].nodo})
           => NodosReflejados(mongoNodos', nodos', {})
      /\ ArchivosReflejados(mongoArchivos', archivos', {archivo'})
           => ArchivosReflejados(mongoArchivos', archivos', {})
  BY ReflejadosMenos
<1>2. NodosAlDia'
  BY <1>1 DEF NodosAlDia
<1>3. ArchivosAlDia'
  BY <1>1 DEF ArchivosAlDia, TrabajaArchivo, Subiendo
<1>4. EnvioSano'
  BY DEF EnvioSano
<1>5. Vacio'
  BY DEF Vacio
<1>6. \A i \in DOMAIN mongoNodos' : mongoNodos'[i].estado # 0
  BY <1>2 DEF NodosAlDia, NodosReflejados
<1>7. Registro'
  BY <1>6 DEF Registro, Alta, Base, UsosInv
<1>. QED
  BY <1>2, <1>3, <1>4, <1>5, <1>7 DEF UsosInv, MemoriaSana, ImagenSana

(* The beginning of an upload.                                             *)
LEMMA UsosComienza ==
  ASSUME Base, Previsto, NEW h \in Hilo, Puede(h), Formado, NEW x \in UnArchivo,
         x.bloques = <<>>, archivos' = Append(archivos, x), archivo' = Len(archivos) + 1,
         mongoArchivos' = mongoArchivos \/ mongoArchivos' = Append(mongoArchivos, x),
         en' = [en EXCEPT ![h] = "bloque"], subidas' = subidas + 1,
         UNCHANGED <<nodos, llega, discos, mongoNodos, vivo, caidas>>
  PROVE  UsosInv'
<1>1. "bloque" \in Subiendo \cup {"libre"} /\ "bloque" \in Subiendo /\ "bloque" # "toma"
  BY DEF Subiendo
<1>2. /\ vivo /\ llega = {} /\ en'[h] = "bloque"
      /\ \A g \in Hilo \ {h} : en'[g] = "libre"
      /\ en'["consola"] # "formatea" /\ en'["consola"] # "creaNodo"
      /\ en'["consola"] \notin DeArchivo
  BY <1>1, HiloSolo
<1>3. /\ archivos \in Seq(UnArchivo) /\ mongoArchivos \in Seq(UnArchivo)
      /\ ArchivosReflejados(mongoArchivos, archivos, {})
      /\ NodosReflejados(mongoNodos, nodos, {}) /\ Sana(Tomados, Escritos, nodos, discos)
  BY <1>2, AlDiaLibre
<1>4. /\ DOMAIN archivos' = 1..(Len(archivos) + 1) /\ DOMAIN archivos = 1..Len(archivos)
      /\ Len(archivos) \in Nat
      /\ \A k \in 1..Len(archivos) : archivos'[k] = archivos[k]
      /\ archivos'[Len(archivos) + 1] = x
  BY <1>3
<1>5. ArchivosReflejados(mongoArchivos', archivos', {archivo'})
  <2>1. ArchivosReflejados(mongoArchivos, archivos', {archivo'})
    <3>1. \A k \in DOMAIN archivos : k \in DOMAIN archivos' \ {archivo'} /\ archivos'[k] = archivos[k]
      BY <1>4
    <3>. QED
      BY <1>3, <3>1 DEF ArchivosReflejados
  <2>2. ~ConUsos(x)
    BY DEF ConUsos
  <2>. QED
    BY <1>3, <2>1, <2>2, SinUsosRefleja
<1>6. Sana(Tomados', Escritos', nodos', discos')
  <2>1. \A g \in Hilo : en'[g] \notin EnCamino
    BY <1>2 DEF EnCamino
  <2>2. MismosBloques(nodos, nodos')
    BY DEF MismosBloques
  <2>3. UsosDe(archivos') \subseteq UsosDe(archivos)
    <3>1. \A k \in DOMAIN archivos' : \/ archivos'[k].bloques = <<>>
                                      \/ k \in DOMAIN archivos /\ archivos'[k].bloques = archivos[k].bloques
      BY <1>4
    <3>. QED
      BY <3>1, UsosMenos
  <2>. QED
    BY <1>3, <2>1, <2>2, <2>3, PasoSinEnvio
<1>7. subidas' \in Nat \ {0}
  BY DEF Base, TipoInv, MemoriaOK
<1>8. \A i \in DOMAIN nodos' : nodos'[i].estado # 0
  BY DEF Formado, Previsto
<1>. QED
  BY <1>1, <1>2, <1>3, <1>5, <1>6, <1>7, <1>8, UsosDeSubida

LEMMA UsosEmpiezaSubida ==
  ASSUME Base, Previsto,
         (\E r \in Ruta, e \in Envio : SubirArchivo(r, e)) \/ (\E r \in Ruta : SubirResultado(r))
  PROVE  UsosInv'
<1>1. subidas \in Nat /\ "consola" \in Hilo /\ "servidor" \in Hilo
  BY DEF Base, TipoInv, MemoriaOK, Hilo
<1>2. ASSUME NEW r \in Ruta, NEW e \in Envio, SubirArchivo(r, e)
      PROVE  UsosInv'
  <2>1. e.mb \in Nat /\ e.bloques \in Nat
    BY MDFSAssumption
  <2>2. ArchivoNuevo(r, e) \in UnArchivo /\ ArchivoNuevo(r, e).bloques = <<>>
    BY <1>1, <2>1 DEF ArchivoNuevo, UnArchivo
  <2>3. /\ Puede("consola") /\ Formado /\ subidas' = subidas + 1
        /\ archivos' = Append(archivos, ArchivoNuevo(r, e))
        /\ archivo' = Len(archivos) + 1
        /\ en' = [en EXCEPT !["consola"] = "bloque"]
        /\ mongoArchivos' = mongoArchivos
        /\ UNCHANGED <<nodos, llega, discos, mongoNodos, vivo, caidas>>
    BY <1>2 DEF SubirArchivo, ElNuevo, mongo
  <2>. QED
    BY <1>1, <2>2, <2>3, UsosComienza
<1>3. ASSUME NEW r \in Ruta, SubirResultado(r)
      PROVE  UsosInv'
  <2>. DEFINE x == ArchivoNuevo(r, [mb |-> 0, bloques |-> 1])
  <2>1. x \in UnArchivo /\ x.bloques = <<>>
    BY <1>1 DEF ArchivoNuevo, UnArchivo
  <2>2. /\ Puede("servidor") /\ Formado /\ subidas' = subidas + 1
        /\ archivos' = Append(archivos, x)
        /\ mongoArchivos' = Append(mongoArchivos, x)
        /\ archivo' = Len(archivos) + 1
        /\ en' = [en EXCEPT !["servidor"] = "bloque"]
        /\ UNCHANGED <<nodos, llega, discos, mongoNodos, vivo, caidas>>
    BY <1>3 DEF SubirResultado, ElNuevo
  <2>. HIDE DEF x
  <2>. QED
    BY <1>1, <2>1, <2>2, UsosComienza
<1>. QED
  BY <1>2, <1>3

(* A thread that is uploading.                                             *)
LEMMA EnSubida ==
  ASSUME Base, NEW h \in Hilo, vivo, en[h] \in Subiendo
  PROVE  /\ subidas \in Nat \ {0} /\ ~Alta /\ caidas \in Nat /\ llega = {}
         /\ \A g \in Hilo \ {h} : en[g] = "libre"
         /\ archivo \in DOMAIN archivos /\ archivos[archivo] \in UnArchivo
         /\ \A i \in DOMAIN nodos : nodos[i].estado # 0
         /\ ArchivosReflejados(mongoArchivos, archivos, {archivo})
         /\ mano \in [Hilo -> Mano]
<1>1. en[h] # "libre"
  BY DEF Subiendo
<1>2. subidas \in Nat \ {0} /\ ~Alta /\ caidas \in Nat
  BY DEF Alta, Base, TipoInv, MemoriaOK, UsosInv, Vacio, Registro
<1>3. llega = {} /\ \A i \in DOMAIN nodos : nodos[i].estado # 0
  BY <1>2 DEF Base, UsosInv, Registro
<1>4. \A g \in Hilo \ {h} : en[g] = "libre"
  BY <1>1 DEF Base, ReplicasInv, Solos
<1>5. archivo \in DOMAIN archivos /\ archivos[archivo] \in UnArchivo
  <2>1. archivo # 0
    BY DEF Base, ReplicasInv, SubidaSana, DatosSuyos
  <2>2. archivo \in 0..Len(archivos) /\ archivos \in Seq(UnArchivo)
    BY DEF Base, TipoInv, MemoriaOK
  <2>. QED
    BY <2>1, <2>2
<1>6. ArchivosReflejados(mongoArchivos, archivos, {archivo}) /\ mano \in [Hilo -> Mano]
  BY DEF Base, UsosInv, ArchivosAlDia, TipoInv, HilosOK
<1>. QED
  BY <1>2, <1>3, <1>4, <1>5, <1>6

LEMMA UsosMuereSubiendo ==
  ASSUME Base, NEW h \in Hilo, vivo, en[h] \in Subiendo, Muere,
         UNCHANGED <<mongoArchivos, mongoNodos, discos, subidas, caidas>>
  PROVE  UsosInv'
<1>1. ~Alta' /\ caidas' \in Nat
  BY EnSubida DEF Alta
<1>. QED
  BY <1>1, UsosMuereIgual DEF Base

(* The blocks in use when only h uploads.                                  *)
LEMMA QuienUsa ==
  ASSUME NEW h \in Hilo, \A g \in Hilo \ {h} : en[g] = "libre"
  PROVE  \A u \in Uso : /\ u \in Escritos <=> EnLista(archivos, u) \/ Enviado(h, u)
                        /\ u \in Tomados <=> u \in Escritos \/ PorEnviar(h, u)
<1>1. \A g \in Hilo \ {h}, u \in Uso : ~Enviado(g, u) /\ ~PorEnviar(g, u)
  BY DEF Enviado, PorEnviar, EnCamino
<1>. QED
  BY <1>1 DEF Escritos, Tomados

LEMMA QuienUsaPrima ==
  ASSUME NEW h \in Hilo, \A g \in Hilo \ {h} : en'[g] = "libre"
  PROVE  \A u \in Uso : /\ u \in Escritos' <=> EnLista(archivos', u) \/ Enviado(h, u)'
                        /\ u \in Tomados' <=> u \in Escritos' \/ PorEnviar(h, u)'
<1>1. \A g \in Hilo \ {h}, u \in Uso : ~Enviado(g, u)' /\ ~PorEnviar(g, u)'
  BY DEF Enviado, PorEnviar, EnCamino
<1>2. \A u \in Uso : EnLista(archivos, u)' <=> EnLista(archivos', u)
  BY DEF EnLista, Usa
<1>. QED
  BY <1>1, <1>2 DEF Escritos, Tomados, Uso

(* enviarBloque takes the next block, and the end saves the document.      *)
LEMMA UsosBloque ==
  ASSUME Base, Previsto, NEW h \in Hilo, EmpiezaBloque(h) \/ TerminaSubida(h)
  PROVE  UsosInv'
<1>1. /\ vivo /\ en[h] = "bloque" /\ en[h] \in Subiendo
      /\ UNCHANGED <<discos, mongoNodos, subidas, caidas>>
  BY DEF EmpiezaBloque, TerminaSubida, Subiendo, mongo, contador
<1>2. /\ subidas \in Nat \ {0} /\ archivo \in DOMAIN archivos /\ mano \in [Hilo -> Mano]
      /\ \A i \in DOMAIN nodos : nodos[i].estado # 0
      /\ ArchivosReflejados(mongoArchivos, archivos, {archivo})
      /\ \A g \in Hilo \ {h} : en[g] = "libre"
  BY <1>1, EnSubida
<1>3. NodosReflejados(mongoNodos, nodos, {}) /\ Sana(Tomados, Escritos, nodos, discos)
      /\ SinCompartir(UsosDe(archivos)) /\ archivos \in Seq(UnArchivo)
      /\ mongoArchivos \in Seq(UnArchivo)
  BY <1>1, AlDiaLibre
<1>4. CASE EmpiezaBloque(h)
  <2>1. /\ en' = [en EXCEPT ![h] = "busca"]
        /\ UNCHANGED <<nodos, letra, llega, archivos, archivo, mongoArchivos, vivo>>
    BY <1>4 DEF EmpiezaBloque, mongo
  <2>2. mano'[h].bloque.copias = <<>>
    BY <1>2, <1>4 DEF EmpiezaBloque, Mano
  <2>3. "busca" \in Subiendo \cup {"libre"} /\ "busca" \in Subiendo
    BY DEF Subiendo
  <2>4. /\ llega' = {} /\ en'[h] = "busca"
        /\ \A g \in Hilo \ {h} : en'[g] = "libre"
        /\ en'["consola"] # "formatea" /\ en'["consola"] # "creaNodo"
        /\ en'["consola"] \notin DeArchivo
    BY <1>1, <2>1, <2>3, HiloSolo
  <2>5. Sana(Tomados', Escritos', nodos', discos')
    <3>1. \A u \in Uso : ~Enviado(h, u)' /\ ~PorEnviar(h, u)'
      BY <2>2, <2>4 DEF Enviado, PorEnviar, Usa, ToSet
    <3>2. Tomados' \subseteq Uso /\ Escritos' \subseteq Uso
      BY DEF Tomados, Escritos
    <3>3. \A u \in Uso : u \in Escritos' \/ u \in Tomados' => EnLista(archivos, u)
      BY <2>1, <2>4, <3>1, QuienUsaPrima
    <3>4. Tomados' \subseteq Tomados /\ Escritos' \subseteq Escritos
      BY <3>2, <3>3 DEF Tomados, Escritos
    <3>5. Menos(Tomados, Escritos, nodos, Tomados', Escritos', nodos', discos)
      BY <1>3, <2>1, <3>4 DEF Menos, MismosBloques
    <3>. QED
      BY <1>1, <3>5, SanaMenos
  <2>. QED
    BY <1>1, <1>2, <1>3, <2>1, <2>3, <2>4, <2>5, UsosDeSubida
<1>5. CASE TerminaSubida(h)
  <2>1. CASE Muere /\ UNCHANGED mongoArchivos
    BY <1>1, <2>1, UsosMuereSubiendo
  <2>2. CASE ~(Muere /\ UNCHANGED mongoArchivos)
    <3>1. /\ en' = [en EXCEPT ![h] = "libre"]
          /\ UNCHANGED <<nodos, letra, llega, archivos, archivo, vivo>>
          /\ mongoArchivos' = mongoArchivos
               \/ mongoArchivos' = Append(mongoArchivos, archivos[archivo])
      BY <1>5, <2>2 DEF TerminaSubida
    <3>2. "libre" \in Subiendo \cup {"libre"} /\ "libre" \notin Subiendo
      BY DEF Subiendo
    <3>3. /\ llega' = {} /\ en'[h] = "libre"
          /\ \A g \in Hilo \ {h} : en'[g] = "libre"
          /\ en'["consola"] # "formatea" /\ en'["consola"] # "creaNodo"
          /\ en'["consola"] \notin DeArchivo
      BY <1>1, <3>1, <3>2, HiloSolo
    <3>4. ArchivosReflejados(mongoArchivos', archivos', {})
      BY <1>2, <1>3, <3>1, ConArchivoRefleja, ReflejadosMenos
    <3>5. Sana(Tomados', Escritos', nodos', discos')
      <4>1. \A g \in Hilo : en'[g] \notin EnCamino
        BY <3>3 DEF EnCamino
      <4>2. MismosBloques(nodos, nodos')
        BY <3>1 DEF MismosBloques
      <4>. QED
        BY <1>1, <1>3, <3>1, <4>1, <4>2, PasoSinEnvio
    <3>. QED
      BY <1>1, <1>2, <1>3, <3>1, <3>2, <3>3, <3>4, <3>5, UsosDeSubida
  <2>. QED
    BY <2>1, <2>2
<1>. QED
  BY <1>4, <1>5

(* funcionLoca chooses a node and its document goes.                       *)
LEMMA UsosBusca ==
  ASSUME Base, Previsto, NEW h \in Hilo, BuscaNodo(h)
  PROVE  UsosInv'
<1>1. /\ vivo /\ en[h] = "busca" /\ en[h] \in Subiendo
      /\ UNCHANGED <<discos, mongoArchivos, subidas, caidas>>
  BY DEF BuscaNodo, Subiendo, contador
<1>2. /\ subidas \in Nat \ {0} /\ archivo \in DOMAIN archivos /\ mano \in [Hilo -> Mano]
      /\ \A i \in DOMAIN nodos : nodos[i].estado # 0
      /\ ArchivosReflejados(mongoArchivos, archivos, {archivo})
      /\ \A g \in Hilo \ {h} : en[g] = "libre"
  BY <1>1, EnSubida
<1>3. NodosReflejados(mongoNodos, nodos, {}) /\ Sana(Tomados, Escritos, nodos, discos)
      /\ Servidores(nodos) /\ nodos \in Seq(UnNodo) /\ mongoNodos \in Seq(UnNodo)
  BY <1>1, AlDiaLibre
<1>4. PICK k, i :
        \/ Muere /\ UNCHANGED mongoNodos
        \/ /\ UNCHANGED <<nodos, letra, llega, archivos, archivo, vivo>>
           /\ \/ en' = [en EXCEPT ![h] = "bloque"] /\ UNCHANGED <<mano, mongoNodos>>
              \/ /\ i # 0 /\ \E x : i = PorNombre(x)
                 /\ en' = [en EXCEPT ![h] = "toma"]
                 /\ mano' = [mano EXCEPT ![h].lugar = k, ![h].nodo = i]
                 /\ mongoNodos' = SinNodo(nodos[i])
  BY DEF BuscaNodo
<1>5. CASE Muere /\ UNCHANGED mongoNodos
  BY <1>1, <1>5, UsosMuereSubiendo
<1>6. CASE /\ UNCHANGED <<nodos, letra, llega, archivos, archivo, vivo>>
           /\ en' = [en EXCEPT ![h] = "bloque"] /\ UNCHANGED <<mano, mongoNodos>>
  <2>1. "bloque" \in Subiendo \cup {"libre"} /\ "bloque" \in Subiendo
    BY DEF Subiendo
  <2>2. /\ llega' = {} /\ en'[h] = "bloque"
        /\ \A g \in Hilo \ {h} : en'[g] = "libre"
        /\ en'["consola"] # "formatea" /\ en'["consola"] # "creaNodo"
        /\ en'["consola"] \notin DeArchivo
    BY <1>1, <1>6, <2>1, HiloSolo
  <2>3. Sana(Tomados', Escritos', nodos', discos')
    <3>1. \A g \in Hilo : en'[g] \notin EnCamino
      BY <2>2 DEF EnCamino
    <3>2. MismosBloques(nodos, nodos')
      BY <1>6 DEF MismosBloques
    <3>. QED
      BY <1>1, <1>3, <1>6, <3>1, <3>2, PasoSinEnvio
  <2>. QED
    BY <1>1, <1>2, <1>3, <1>6, <2>1, <2>2, <2>3, UsosDeSubida
<1>7. CASE /\ UNCHANGED <<nodos, letra, llega, archivos, archivo, vivo>>
           /\ i # 0 /\ \E x : i = PorNombre(x)
           /\ en' = [en EXCEPT ![h] = "toma"]
           /\ mano' = [mano EXCEPT ![h].lugar = k, ![h].nodo = i]
           /\ mongoNodos' = SinNodo(nodos[i])
  <2>1. "toma" \in Subiendo \cup {"libre"} /\ "toma" \in Subiendo
    BY DEF Subiendo
  <2>2. /\ llega' = {} /\ en'[h] = "toma"
        /\ \A g \in Hilo \ {h} : en'[g] = "libre"
        /\ en'["consola"] # "formatea" /\ en'["consola"] # "creaNodo"
        /\ en'["consola"] \notin DeArchivo
    BY <1>1, <1>7, <2>1, HiloSolo
  <2>3. i \in DOMAIN nodos
    <3>1. i \in 0..Len(nodos)
      BY <1>3, <1>7, NodoBuscado
    <3>. QED
      BY <1>3, <1>7, <3>1
  <2>4. mano'[h].nodo = i /\ mano'[h].bloque = mano[h].bloque
    BY <1>2, <1>7 DEF Mano
  <2>5. NodosReflejados(mongoNodos', nodos', {mano'[h].nodo})
    BY <1>3, <1>7, <2>3, <2>4, SinNodoRefleja
  <2>6. Sana(Tomados', Escritos', nodos', discos')
    <3>1. \A u \in Uso : ~PorEnviar(h, u)' /\ (Enviado(h, u)' => Enviado(h, u))
      BY <1>1, <1>7, <2>2, <2>4 DEF Enviado, PorEnviar, Usa, Siguiente, EnCamino
    <3>2. Tomados' \subseteq Uso /\ Escritos' \subseteq Uso
      BY DEF Tomados, Escritos
    <3>3. \A u \in Uso : u \in Escritos' \/ u \in Tomados' => EnLista(archivos, u) \/ Enviado(h, u)
      BY <1>7, <2>2, <3>1, QuienUsaPrima
    <3>4. Tomados' \subseteq Tomados /\ Escritos' \subseteq Escritos
      BY <3>2, <3>3 DEF Tomados, Escritos
    <3>5. Menos(Tomados, Escritos, nodos, Tomados', Escritos', nodos', discos)
      BY <1>3, <1>7, <3>4 DEF Menos, MismosBloques
    <3>. QED
      BY <1>1, <3>5, SanaMenos
  <2>. QED
    BY <1>1, <1>2, <1>7, <2>1, <2>2, <2>5, <2>6, UsosDeSubida
<1>. QED
  BY <1>4, <1>5, <1>6, <1>7

(* The uses W after the head of the free blocks of node i is taken: those  *)
(* of before and, if there was a free block, that one, for one block.      *)
Tomando(T, W, i, a, nro) ==
  \A w \in W :
    \/ w \in T
    \/ /\ w.copia = [nodo |-> nodos[i].nombre, bloque |-> BloqueLibre(nodos[i])]
       /\ w.copia.bloque # 0 /\ w.arch = a /\ w.nro = nro

LEMMA TomaSana ==
  ASSUME NEW T, NEW E, NEW ds, Sana(T, E, nodos, ds), nodos \in Seq(UnNodo),
         NEW i \in DOMAIN nodos, NEW W, NEW a, NEW nro, Tomando(T, W, i, a, nro)
  PROVE  Sana(W, E, [nodos EXCEPT ![i] = Toma(@)], ds)
<1>. DEFINE L == [nodos EXCEPT ![i] = Toma(@)]
            s == nodos[i].libres
            r == Toma(nodos[i]).libres
            c == [nodo |-> nodos[i].nombre, bloque |-> BloqueLibre(nodos[i])]
<1>1. nodos[i] \in UnNodo /\ s \in Seq(Bloque0)
  <2>1. nodos[i] \in UnNodo
    OBVIOUS
  <2>. QED
    BY <2>1 DEF UnNodo
<1>2. /\ DOMAIN L = DOMAIN nodos /\ L[i] = Toma(nodos[i]) /\ L[i].libres = r
      /\ L[i].nombre = nodos[i].nombre /\ L[i].dir = nodos[i].dir
      /\ \A k \in DOMAIN nodos \ {i} : L[k] = nodos[k]
  BY <1>1 DEF Toma, UnNodo
<1>3. \A k \in DOMAIN nodos : L[k].nombre = nodos[k].nombre /\ L[k].dir = nodos[k].dir
  BY <1>2
<1>. HIDE DEF L
<1>4. /\ r = IF s = <<>> THEN s ELSE Tail(s)
      /\ BloqueLibre(nodos[i]) = IF s = <<>> THEN 0 ELSE Head(s)
  BY <1>1 DEF Toma, UnNodo, BloqueLibre
<1>5. /\ s # <<>> => \A p \in DOMAIN r : p + 1 \in DOMAIN s /\ r[p] = s[p + 1]
      /\ s # <<>> => 1 \in DOMAIN s /\ BloqueLibre(nodos[i]) = s[1]
      /\ s = <<>> => r = <<>> /\ BloqueLibre(nodos[i]) = 0
      /\ \A p \in DOMAIN s : p \in Nat
      /\ \A p \in DOMAIN r : p \in Nat /\ p >= 1
  <2>. HIDE DEF r, s
  <2>1. CASE s = <<>>
    BY <1>4, <2>1
  <2>2. CASE s # <<>>
    <3>1. /\ r = Tail(s) /\ BloqueLibre(nodos[i]) = s[1]
      BY <1>1, <1>4, <2>2
    <3>2. DOMAIN r = 1..(Len(s) - 1) /\ \A p \in 1..(Len(s) - 1) : r[p] = s[p + 1]
      BY <1>1, <2>2, <3>1
    <3>3. Len(s) \in Nat /\ Len(s) >= 1 /\ DOMAIN s = 1..Len(s)
      BY <1>1, <2>2
    <3>. QED
      BY <2>2, <3>1, <3>2, <3>3
  <2>. QED
    BY <2>1, <2>2
<1>6. LibresUnicos(nodos[i])
  BY DEF Sana, Servidores
<1>7. /\ ToSet(r) \subseteq ToSet(s)
      /\ BloqueLibre(nodos[i]) # 0 => /\ BloqueLibre(nodos[i]) \in ToSet(s)
                                      /\ BloqueLibre(nodos[i]) \notin ToSet(r)
  <2>1. \A p, q \in DOMAIN s : s[p] = s[q] /\ s[p] # 0 => p = q
    BY <1>6 DEF LibresUnicos
  <2>. HIDE DEF r, s
  <2>2. ASSUME NEW p \in DOMAIN r
        PROVE  r[p] \in ToSet(s) /\ (BloqueLibre(nodos[i]) # 0 => r[p] # BloqueLibre(nodos[i]))
    <3>1. s # <<>>
      BY <1>5
    <3>2. p + 1 \in DOMAIN s /\ r[p] = s[p + 1] /\ p + 1 # 1
      BY <1>5, <3>1
    <3>. QED
      BY <1>5, <2>1, <3>1, <3>2 DEF ToSet
  <2>. QED
    BY <1>5, <2>2 DEF ToSet
<1>8. ASSUME NEW w \in W, w \notin T
      PROVE  /\ w.copia = c /\ w.copia.nodo = nodos[i].nombre
             /\ w.copia.bloque = BloqueLibre(nodos[i])
             /\ w.copia.bloque # 0 /\ w.arch = a /\ w.nro = nro
  BY <1>8 DEF Tomando
<1>9. ASSUME NEW w \in W, w \notin T, NEW t \in T
      PROVE  t.copia # w.copia
  <2>1. SUFFICES ASSUME t.copia = w.copia PROVE FALSE
    OBVIOUS
  <2>2. t.copia.nodo = nodos[i].nombre /\ t.copia.bloque \in ToSet(s)
    BY <1>7, <1>8, <1>9, <2>1
  <2>. QED
    BY <2>2 DEF Sana, SinLibres
<1>. HIDE DEF r, s, c
<1>10. SinCompartir(W)
  <2>1. SUFFICES ASSUME NEW t \in W, NEW u \in W, t.copia = u.copia
                 PROVE  t.arch = u.arch /\ t.nro = u.nro
    BY DEF SinCompartir
  <2>2. CASE t \in T /\ u \in T
    BY <2>1, <2>2 DEF Sana, SinCompartir
  <2>3. CASE t \notin T /\ u \notin T
    BY <1>8, <2>3
  <2>. QED
    BY <1>9, <2>1, <2>2, <2>3
<1>11. SinLibres(W, L)
  <2>1. SUFFICES ASSUME NEW w \in W, NEW k \in DOMAIN L, L[k].nombre = w.copia.nodo
                 PROVE  w.copia.bloque \notin ToSet(L[k].libres)
    BY DEF SinLibres
  <2>2. k \in DOMAIN nodos /\ nodos[k].nombre = w.copia.nodo
    BY <1>2, <1>3, <2>1
  <2>3. CASE w \in T
    <3>1. w.copia.bloque \notin ToSet(nodos[k].libres)
      BY <2>2, <2>3 DEF Sana, SinLibres
    <3>2. CASE k = i
      <4>1. L[k].libres = r /\ w.copia.bloque \notin ToSet(s)
        BY <1>2, <3>1, <3>2 DEF s
      <4>. QED
        BY <1>7, <4>1
    <3>3. CASE k # i
      BY <1>2, <2>2, <3>1, <3>3
    <3>. QED
      BY <3>2, <3>3
  <2>4. CASE w \notin T
    <3>1. k = i
      BY <1>8, <2>2, <2>4 DEF Sana, Servidores
    <3>. QED
      BY <1>2, <1>7, <1>8, <2>4, <3>1
  <2>. QED
    BY <2>3, <2>4
<1>12. Escrito(E, L, ds)
  BY <1>2, <1>3 DEF Sana, Escrito
<1>13. LibresUnicos(L[i])
  <2>1. \A p, q \in DOMAIN s : s[p] = s[q] /\ s[p] # 0 => p = q
    BY <1>6 DEF LibresUnicos, s
  <2>2. ASSUME NEW p \in DOMAIN r, NEW q \in DOMAIN r, r[p] = r[q], r[p] # 0
        PROVE  p = q
    <3>1. s # <<>>
      BY <1>5
    <3>2. p + 1 \in DOMAIN s /\ r[p] = s[p + 1] /\ q + 1 \in DOMAIN s /\ r[q] = s[q + 1]
      BY <1>5, <3>1
    <3>3. p + 1 = q + 1
      BY <2>1, <2>2, <3>2
    <3>. QED
      BY <1>5, <3>3
  <2>. QED
    BY <1>2, <2>2 DEF LibresUnicos
<1>14. Servidores(L)
  <2>1. \A j, k \in DOMAIN L : L[j].nombre = L[k].nombre \/ L[j].dir = L[k].dir => j = k
    BY <1>2, <1>3 DEF Sana, Servidores
  <2>2. \A k \in DOMAIN L : LibresUnicos(L[k])
    BY <1>2, <1>13 DEF Sana, Servidores
  <2>. QED
    BY <2>1, <2>2 DEF Servidores
<1>15. Sana(W, E, L, ds)
  BY <1>10, <1>11, <1>12, <1>14 DEF Sana
<1>. QED
  BY <1>15 DEF L

(* funcionLoca takes a block of the chosen node and saves its document.    *)
LEMMA UsosToma ==
  ASSUME Base, TipoInv', Previsto, NEW h \in Hilo, TomaBloque(h)
  PROVE  UsosInv'
<1>. DEFINE i == mano[h].nodo
            x == nodos[i]
            c == [nodo |-> x.nombre, bloque |-> BloqueLibre(x)]
<1>1. /\ vivo /\ en[h] = "toma" /\ en[h] \in Subiendo
      /\ UNCHANGED <<discos, mongoArchivos, subidas, caidas>>
  BY DEF TomaBloque, Subiendo, contador
<1>2. /\ subidas \in Nat \ {0} /\ archivo \in DOMAIN archivos /\ mano \in [Hilo -> Mano]
      /\ \A j \in DOMAIN nodos : nodos[j].estado # 0
      /\ ArchivosReflejados(mongoArchivos, archivos, {archivo})
      /\ \A g \in Hilo \ {h} : en[g] = "libre"
  BY <1>1, EnSubida
<1>3. Sana(Tomados, Escritos, nodos, discos) /\ Servidores(nodos)
      /\ nodos \in Seq(UnNodo) /\ mongoNodos \in Seq(UnNodo)
  BY <1>1, AlDiaLibre
<1>4. CASE Muere /\ UNCHANGED mongoNodos
  BY <1>1, <1>4, UsosMuereSubiendo
<1>5. CASE ~(Muere /\ UNCHANGED mongoNodos)
  <2>1. /\ nodos' = [nodos EXCEPT ![i] = Toma(@)]
        /\ mongoNodos' = Append(mongoNodos, Toma(x))
        /\ mano' = [mano EXCEPT ![h].dir = x.dir, ![h].copia = c]
        /\ en' = [en EXCEPT ![h] = "manda"]
        /\ UNCHANGED <<letra, llega, archivos, archivo, vivo>>
    BY <1>5 DEF TomaBloque
  <2>2. "manda" \in Subiendo \cup {"libre"} /\ "manda" \in Subiendo /\ "manda" # "toma"
    BY DEF Subiendo
  <2>3. /\ llega' = {} /\ en'[h] = "manda"
        /\ \A g \in Hilo \ {h} : en'[g] = "libre"
        /\ en'["consola"] # "formatea" /\ en'["consola"] # "creaNodo"
        /\ en'["consola"] \notin DeArchivo
    BY <1>1, <2>1, <2>2, HiloSolo
  <2>4. i \in DOMAIN nodos /\ NodosReflejados(mongoNodos, nodos, {i})
    BY <1>1 DEF Base, ReplicasInv, SubidaSana, Elegido, UsosInv, NodosAlDia
  <2>5. x \in UnNodo
    BY <1>3, <2>4
  <2>. HIDE DEF i
  <2>6. /\ DOMAIN nodos' = DOMAIN nodos /\ nodos'[i] = Toma(x)
        /\ \A j \in DOMAIN nodos \ {i} : nodos'[j] = nodos[j]
        /\ Toma(x).nombre = x.nombre /\ Toma(x).dir = x.dir /\ Toma(x).estado = x.estado
    BY <2>1, <2>4, <2>5 DEF Toma, UnNodo
  <2>7. /\ mano'[h].nodo = i /\ mano'[h].dir = x.dir /\ mano'[h].copia = c
        /\ mano'[h].bloque = mano[h].bloque
    BY <1>2, <2>1 DEF Mano, i
  <2>8. Destino(h)'
    BY <2>4, <2>6, <2>7 DEF Destino
  <2>9. \A j \in DOMAIN nodos' : nodos'[j].estado # 0
    BY <1>2, <2>4, <2>6
  <2>10. Sana(Tomados', Escritos', nodos', discos')
    <3>1. \A u \in Uso : Enviado(h, u)' <=> Enviado(h, u)
      BY <1>1, <2>1, <2>3, <2>7 DEF Enviado, Usa, Siguiente, EnCamino
    <3>2. \A u \in Uso : u \in Escritos' <=> u \in Escritos
      BY <1>2, <2>1, <2>3, <3>1, QuienUsa, QuienUsaPrima
    <3>3. Escritos' \subseteq Escritos
      BY <3>2 DEF Escritos
    <3>4. Tomando(Tomados, Tomados', i, archivo, Len(archivos[archivo].bloques) + 1)
      <4>1. SUFFICES ASSUME NEW w \in Tomados', w \notin Tomados
                     PROVE  /\ w.copia = c /\ w.copia.bloque # 0 /\ w.arch = archivo
                            /\ w.nro = Len(archivos[archivo].bloques) + 1
        BY DEF Tomando
      <4>2. w \in Uso
        BY DEF Tomados
      <4>3. w \notin Escritos /\ (w \in Escritos' \/ PorEnviar(h, w)')
        BY <2>3, <4>1, <4>2, QuienUsaPrima DEF Tomados
      <4>4. PorEnviar(h, w)'
        BY <3>2, <4>2, <4>3
      <4>. QED
        BY <2>1, <2>7, <4>4 DEF PorEnviar, Siguiente
    <3>5. Sana(Tomados', Escritos, nodos', discos)
      BY <1>3, <2>1, <2>4, <3>4, TomaSana
    <3>6. Menos(Tomados', Escritos, nodos', Tomados', Escritos', nodos', discos)
      BY <3>3, <3>5 DEF Menos, MismosBloques
    <3>. QED
      BY <1>1, <3>6, SanaMenos
  <2>11. NodosReflejados(mongoNodos', nodos', {})
    <3>1. NodosReflejados(mongoNodos, nodos', {i})
      BY <2>4, <2>6 DEF NodosReflejados
    <3>2. Servidores(nodos')
      BY <2>10 DEF Sana
    <3>3. nodos'[i] \in UnNodo /\ i \in DOMAIN nodos'
      BY <2>4, <2>5, <2>6, TomaEs
    <3>4. NodosReflejados(Append(mongoNodos, nodos'[i]), nodos', {})
      BY <1>3, <2>9, <3>1, <3>2, <3>3, ConNodoRefleja
    <3>. QED
      BY <2>1, <2>6, <3>4
  <2>. QED
    BY <1>1, <1>2, <2>1, <2>2, <2>3, <2>8, <2>9, <2>10, <2>11, UsosDeSubida
<1>. QED
  BY <1>4, <1>5

(* setBloque: what is written is the content of the block that the thread  *)
(* took, and no other block in use changes.                                *)
LEMMA EscribeSana ==
  ASSUME Base, vivo, NEW h \in Hilo, en[h] = "manda"
  PROVE  Sana(Tomados, Tomados, nodos,
              [discos EXCEPT ![mano[h].dir][mano[h].copia.bloque] = mano[h].bloque.dato])
<1>. DEFINE c == mano[h].copia
            p == mano[h].dir
            v == mano[h].bloque.dato
            ds == [discos EXCEPT ![p][c.bloque] = v]
            i == mano[h].nodo
            u0 == [arch |-> archivo, nro |-> Len(archivos[archivo].bloques) + 1,
                   copia |-> c, dato |-> v]
<1>1. en[h] \in Subiendo
  BY DEF Subiendo
<1>2. /\ mano[h] \in Mano /\ p \in Nodo /\ c \in UnaCopia
      /\ discos \in [Nodo -> [Bloque0 -> Seq(Nat)]]
      /\ archivo \in DOMAIN archivos /\ archivos[archivo] \in UnArchivo
      /\ \A g \in Hilo \ {h} : en[g] = "libre"
  <2>1. mano[h] \in Mano /\ p \in Nodo /\ c.nodo \in Nombre
    BY DEF Base, TipoInv, HilosOK
  <2>2. c \in UnaCopia
    BY <2>1 DEF Mano, UnaCopia
  <2>. QED
    BY <1>1, <2>1, <2>2, EnSubida DEF Base, TipoInv, MemoriaOK
<1>3. v \in Seq(Nat) /\ c.bloque \in Bloque0 /\ archivo \in Nat
      /\ Len(archivos[archivo].bloques) \in Nat
  <2>1. archivos[archivo].bloques \in Seq(UnBloque) /\ mano[h].bloque \in UnBloque
    BY <1>2 DEF UnArchivo, Mano
  <2>2. archivo \in Nat
    BY DEF Base, TipoInv, MemoriaOK
  <2>. QED
    BY <1>2, <2>1, <2>2 DEF UnBloque, UnaCopia
<1>4. /\ Sana(Tomados, Escritos, nodos, discos)
      /\ i \in DOMAIN nodos /\ nodos[i].nombre = c.nodo /\ nodos[i].dir = p
  BY DEF Base, UsosInv, MemoriaSana, EnvioSano, Destino
<1>5. /\ ds[p][c.bloque] = v
      /\ \A q \in Nodo, b \in Bloque0 : ~(q = p /\ b = c.bloque) => ds[q][b] = discos[q][b]
  BY <1>2, <1>3
<1>. HIDE DEF ds
<1>6. c.bloque # 0 => u0 \in Tomados
  <2>1. SUFFICES ASSUME c.bloque # 0 PROVE u0 \in Tomados
    OBVIOUS
  <2>2. u0 \in Uso
    BY <1>2, <1>3 DEF Uso
  <2>3. /\ u0.arch = archivo /\ u0.nro = Len(archivos[archivo].bloques) + 1
        /\ u0.copia = c /\ u0.dato = v
    OBVIOUS
  <2>. HIDE DEF u0
  <2>4. PorEnviar(h, u0)
    BY <2>1, <2>3 DEF PorEnviar, Siguiente
  <2>. QED
    BY <2>2, <2>4 DEF Tomados
<1>7. u0.arch = archivo /\ u0.nro = Len(archivos[archivo].bloques) + 1 /\ u0.copia = c
  OBVIOUS
<1>. HIDE DEF u0
<1>8. ASSUME NEW e \in Tomados, NEW k \in DOMAIN nodos, nodos[k].nombre = e.copia.nodo
      PROVE  ds[nodos[k].dir][e.copia.bloque] = e.dato
  <2>1. e \in Uso /\ (EnLista(archivos, e) \/ Enviado(h, e) \/ PorEnviar(h, e))
    <3>1. e \in Uso
      BY DEF Tomados
    <3>. QED
      BY <1>2, <3>1, QuienUsa
  <2>2. e.copia \in UnaCopia /\ e.copia.bloque \in Bloque0 /\ e.copia.bloque # 0
    BY <2>1 DEF Uso, UnaCopia, EnLista, Enviado, PorEnviar, Usa
  <2>3. nodos[k].dir \in Nodo
    <3>1. nodos[k] \in UnNodo
      BY DEF Base, TipoInv, MemoriaOK
    <3>. QED
      BY <3>1 DEF UnNodo
  <2>4. CASE e.copia = c
    <3>1. e.arch = archivo /\ e.nro = Len(archivos[archivo].bloques) + 1
      BY <1>4, <1>6, <1>7, <2>2, <2>4 DEF Sana, SinCompartir
    <3>2. ~EnLista(archivos, e)
      <4>1. archivos[archivo].bloques \in Seq(UnBloque)
        BY <1>2 DEF UnArchivo
      <4>2. e.nro \notin DOMAIN archivos[archivo].bloques
        BY <3>1, <4>1
      <4>. QED
        BY <3>1, <4>2 DEF EnLista
    <3>3. e.dato = v
      BY <2>1, <3>2 DEF Enviado, PorEnviar, Usa
    <3>4. k = i
      BY <1>4, <1>8, <2>4 DEF Sana, Servidores
    <3>. QED
      BY <1>4, <1>5, <2>4, <3>3, <3>4
  <2>5. CASE e.copia # c
    <3>1. e \in Escritos
      BY <1>2, <2>1, <2>5, QuienUsa DEF PorEnviar
    <3>2. discos[nodos[k].dir][e.copia.bloque] = e.dato
      BY <1>4, <1>8, <3>1 DEF Sana, Escrito
    <3>3. ~(nodos[k].dir = p /\ e.copia.bloque = c.bloque)
      <4>1. SUFFICES ASSUME nodos[k].dir = p, e.copia.bloque = c.bloque PROVE FALSE
        OBVIOUS
      <4>2. k = i
        BY <1>4, <4>1 DEF Sana, Servidores
      <4>3. e.copia.nodo = c.nodo
        BY <1>4, <1>8, <4>2
      <4>4. \A y, z \in UnaCopia : y.nodo = z.nodo /\ y.bloque = z.bloque => y = z
        BY DEF UnaCopia
      <4>. QED
        BY <1>2, <2>2, <2>5, <4>1, <4>3, <4>4
    <3>. QED
      BY <1>5, <2>2, <2>3, <3>2, <3>3
  <2>. QED
    BY <2>4, <2>5
<1>9. Escrito(Tomados, nodos, ds)
  BY <1>8 DEF Escrito
<1>10. Sana(Tomados, Tomados, nodos, ds)
  BY <1>4, <1>9 DEF Sana
<1>. QED
  BY <1>10 DEF ds

(* enviarBufferANodo, and the block that joins its file with the third     *)
(* copy.                                                                   *)
LEMMA UsosManda ==
  ASSUME Base, Previsto, NEW h \in Hilo, MandaCopia(h)
  PROVE  UsosInv'
<1>. DEFINE c == mano[h].copia
            b == [mano[h].bloque EXCEPT !.copias = Append(@, c)]
            n == Len(archivos[archivo].bloques)
<1>1. /\ vivo /\ en[h] = "manda" /\ en[h] \in Subiendo
      /\ UNCHANGED <<mongoNodos, mongoArchivos, subidas, caidas>>
      /\ discos' = [discos EXCEPT ![mano[h].dir][c.bloque] = b.dato]
      /\ \/ Muere
         \/ /\ mano' = [mano EXCEPT ![h].bloque = b, ![h].copia = SinCopia]
            /\ en' = [en EXCEPT ![h] = "busca"]
            /\ UNCHANGED <<nodos, llega, archivos, archivo, vivo>>
         \/ /\ archivos' = [archivos EXCEPT ![archivo].bloques = Append(@, b)]
            /\ en' = [en EXCEPT ![h] = "bloque"]
            /\ UNCHANGED <<nodos, llega, archivo, vivo>>
  BY DEF MandaCopia, Subiendo, mongo, contador
<1>2. /\ subidas \in Nat \ {0} /\ archivo \in DOMAIN archivos /\ mano \in [Hilo -> Mano]
      /\ archivos[archivo] \in UnArchivo /\ ~Alta /\ caidas \in Nat
      /\ \A j \in DOMAIN nodos : nodos[j].estado # 0
      /\ ArchivosReflejados(mongoArchivos, archivos, {archivo})
      /\ \A g \in Hilo \ {h} : en[g] = "libre"
  BY <1>1, EnSubida
<1>3. NodosReflejados(mongoNodos, nodos, {}) /\ ArchivosReflejados(mongoArchivos, archivos, {})
      /\ archivos \in Seq(UnArchivo)
  BY <1>1, AlDiaLibre
<1>4. mano[h].bloque \in UnBloque /\ c \in [nodo : Nombre \cup {Nadie}, bloque : Bloque0]
      /\ mano[h] \in Mano
  BY <1>2 DEF Mano
<1>. HIDE DEF c
<1>5. b.dato = mano[h].bloque.dato /\ b.copias = Append(mano[h].bloque.copias, c)
  BY <1>4 DEF UnBloque
<1>6. Sana(Tomados, Tomados, nodos, discos')
  BY <1>1, <1>5, EscribeSana DEF c
<1>7. ToSet(b.copias) \subseteq ToSet(mano[h].bloque.copias) \cup {c}
  <2>. DEFINE s == mano[h].bloque.copias
  <2>1. s \in Seq(UnaCopia)
    BY <1>4 DEF UnBloque
  <2>. HIDE DEF s
  <2>2. /\ DOMAIN Append(s, c) = 1..(Len(s) + 1) /\ DOMAIN s = 1..Len(s) /\ Len(s) \in Nat
        /\ \A k \in 1..Len(s) : Append(s, c)[k] = s[k]
        /\ Append(s, c)[Len(s) + 1] = c
    BY <2>1
  <2>3. \A k \in DOMAIN Append(s, c) : k \in DOMAIN s \/ k = Len(s) + 1
    BY <2>2
  <2>4. ToSet(Append(s, c)) \subseteq ToSet(s) \cup {c}
    BY <2>2, <2>3 DEF ToSet
  <2>. QED
    BY <1>5, <2>4 DEF s
<1>. HIDE DEF b
<1>8. ASSUME NEW u \in Uso, Siguiente(u), Usa(b, u)
      PROVE  u \in Tomados
  <2>1. Usa(mano[h].bloque, u) \/ u.copia = c
    BY <1>5, <1>7, <1>8 DEF Usa
  <2>2. Enviado(h, u) \/ PorEnviar(h, u)
    BY <1>1, <1>5, <1>8, <2>1 DEF Enviado, PorEnviar, EnCamino, Usa, c
  <2>. QED
    BY <1>2, <2>2, QuienUsa
<1>9. CASE Muere
  <2>1. UsosDe(archivos) \subseteq Tomados
    BY DEF Tomados, Escritos, UsosDe
  <2>2. Respaldo(Tomados, Tomados, nodos, discos', archivos, mongoArchivos, mongoNodos, {}, {})
    BY <1>3, <1>6, <2>1 DEF Respaldo
  <2>3. Sana(UsosDe(mongoArchivos'), UsosDe(mongoArchivos'), mongoNodos', discos')
    BY <1>1, <2>2, ImagenDe
  <2>4. ~Alta' /\ caidas' \in Nat /\ (subidas' = 0 => mongoArchivos' = <<>>)
    BY <1>1, <1>2 DEF Alta
  <2>5. \A j \in DOMAIN mongoNodos' : mongoNodos'[j].estado # 0
    BY <1>1 DEF Base, UsosInv, Registro
  <2>. QED
    BY <1>9, <2>3, <2>4, <2>5, UsosMuere
<1>10. CASE /\ mano' = [mano EXCEPT ![h].bloque = b, ![h].copia = SinCopia]
            /\ en' = [en EXCEPT ![h] = "busca"]
            /\ UNCHANGED <<nodos, llega, archivos, archivo, vivo>>
  <2>1. "busca" \in Subiendo \cup {"libre"} /\ "busca" \in Subiendo
        /\ "busca" # "toma" /\ "busca" # "manda"
    BY DEF Subiendo
  <2>2. /\ llega' = {} /\ en'[h] = "busca"
        /\ \A g \in Hilo \ {h} : en'[g] = "libre"
        /\ en'["consola"] # "formatea" /\ en'["consola"] # "creaNodo"
        /\ en'["consola"] \notin DeArchivo
    BY <1>1, <1>10, <2>1, HiloSolo
  <2>3. mano'[h].bloque = b
    BY <1>2, <1>10 DEF Mano
  <2>4. Sana(Tomados', Escritos', nodos', discos')
    <3>1. \A u \in Uso : ~PorEnviar(h, u)' /\ (Enviado(h, u)' => Siguiente(u) /\ Usa(b, u))
      BY <1>10, <2>1, <2>2, <2>3 DEF Enviado, PorEnviar, Usa, Siguiente
    <3>2. Tomados' \subseteq Uso /\ Escritos' \subseteq Uso
      BY DEF Tomados, Escritos
    <3>3. \A u \in Uso : u \in Escritos' \/ u \in Tomados'
                           => EnLista(archivos, u) \/ (Siguiente(u) /\ Usa(b, u))
      BY <1>10, <2>2, <3>1, QuienUsaPrima
    <3>4. \A u \in Uso : EnLista(archivos, u) => u \in Tomados
      BY DEF Tomados, Escritos
    <3>5. Tomados' \subseteq Tomados /\ Escritos' \subseteq Tomados
      BY <1>8, <3>2, <3>3, <3>4
    <3>6. Menos(Tomados, Tomados, nodos, Tomados', Escritos', nodos', discos')
      BY <1>6, <1>10, <3>5 DEF Menos, MismosBloques
    <3>. QED
      BY <3>6, SanaMenos
  <2>. QED
    BY <1>1, <1>2, <1>3, <1>10, <2>1, <2>2, <2>4, UsosDeSubida
<1>11. CASE /\ archivos' = [archivos EXCEPT ![archivo].bloques = Append(@, b)]
            /\ en' = [en EXCEPT ![h] = "bloque"]
            /\ UNCHANGED <<nodos, llega, archivo, vivo>>
  <2>1. "bloque" \in Subiendo \cup {"libre"} /\ "bloque" \in Subiendo
        /\ "bloque" # "toma" /\ "bloque" # "manda"
    BY DEF Subiendo
  <2>2. /\ llega' = {} /\ en'[h] = "bloque"
        /\ \A g \in Hilo \ {h} : en'[g] = "libre"
        /\ en'["consola"] # "formatea" /\ en'["consola"] # "creaNodo"
        /\ en'["consola"] \notin DeArchivo
    BY <1>1, <1>11, <2>1, HiloSolo
  <2>3. archivos[archivo].bloques \in Seq(UnBloque) /\ n \in Nat
    BY <1>2 DEF UnArchivo
  <2>4. /\ DOMAIN archivos' = DOMAIN archivos
        /\ archivos'[archivo].bloques = Append(archivos[archivo].bloques, b)
        /\ \A k \in DOMAIN archivos \ {archivo} : archivos'[k] = archivos[k]
    BY <1>2, <1>11 DEF UnArchivo
  <2>5. /\ DOMAIN archivos'[archivo].bloques = 1..(n + 1)
        /\ DOMAIN archivos[archivo].bloques = 1..n
        /\ archivos'[archivo].bloques[n + 1] = b
        /\ \A k \in 1..n : archivos'[archivo].bloques[k] = archivos[archivo].bloques[k]
    BY <2>3, <2>4
  <2>6. ASSUME NEW u \in Uso, EnLista(archivos', u)
        PROVE  u \in Tomados
    <3>1. CASE u.arch = archivo /\ u.nro = n + 1
      <4>1. Siguiente(u) /\ Usa(b, u)
        BY <2>5, <2>6, <3>1 DEF EnLista, Siguiente
      <4>. QED
        BY <1>8, <4>1
    <3>2. CASE ~(u.arch = archivo /\ u.nro = n + 1)
      <4>1. EnLista(archivos, u)
        <5>1. CASE u.arch = archivo
          <6>1. u.nro \in 1..(n + 1)
            BY <2>5, <2>6, <5>1 DEF EnLista
          <6>2. u.nro \in 1..n
            BY <2>3, <3>2, <5>1, <6>1
          <6>. QED
            BY <1>2, <2>5, <2>6, <5>1, <6>2 DEF EnLista
        <5>2. CASE u.arch # archivo
          BY <2>4, <2>6, <5>2 DEF EnLista
        <5>. QED
          BY <5>1, <5>2
      <4>. QED
        BY <4>1 DEF Tomados, Escritos
    <3>. QED
      BY <3>1, <3>2
  <2>7. Sana(Tomados', Escritos', nodos', discos')
    <3>1. \A g \in Hilo : en'[g] \notin EnCamino
      BY <2>2 DEF EnCamino
    <3>2. Tomados' = UsosDe(archivos') /\ Escritos' = UsosDe(archivos')
      BY <3>1, SoloArchivosPrima
    <3>3. UsosDe(archivos') \subseteq Tomados
      BY <2>6 DEF UsosDe
    <3>4. Menos(Tomados, Tomados, nodos, Tomados', Escritos', nodos', discos')
      BY <1>6, <1>11, <3>2, <3>3 DEF Menos, MismosBloques
    <3>. QED
      BY <3>4, SanaMenos
  <2>8. ArchivosReflejados(mongoArchivos', archivos', {archivo'})
    BY <1>1, <1>2, <1>11, <2>4 DEF ArchivosReflejados
  <2>. QED
    BY <1>1, <1>2, <1>3, <1>11, <2>1, <2>2, <2>7, <2>8, UsosDeSubida
<1>. QED
  BY <1>1, <1>9, <1>10, <1>11

-----------------------------------------------------------------------------
(* Every step.                                                             *)
LEMMA UsosPaso ==
  ASSUME Base, TipoInv', Previsto, [Next]_vars
  PROVE  UsosInv'
<1>1. CASE ConsolaPaso
  <2>1. ~Formatear /\ ~FormateaNodos
    BY DEF Formatear, FormateaNodos, Previsto, Base, UsosInv, Registro
  <2>2. CASE (\E n \in Nodo : AgregarNodo(n)) \/ (\E i \in DOMAIN nodos : EliminarNodo(i))
    BY <2>2, UsosOrdenaNodo
  <2>3. CASE CreaNodo
    BY <2>3, UsosCreaNodo
  <2>4. CASE \E r \in Ruta, e \in Envio : SubirArchivo(r, e)
    BY <2>4, UsosEmpiezaSubida
  <2>5. CASE \/ \E r, nueva \in Ruta : Renombrar(r, nueva)
             \/ \E r \in Ruta : EliminarArchivo(r)
             \/ \E r \in Ruta, b, c \in Respuesta : BorrarBloque(r, b, c)
             \/ LeeLiberado
    BY <2>5, UsosOrdena
  <2>6. CASE CreaArchivo
    BY <2>6, UsosCreaArchivo
  <2>7. CASE Libera \/ Quita
    BY <2>7, UsosLibera
  <2>. QED
    BY <1>1, <2>1, <2>2, <2>3, <2>4, <2>5, <2>6, <2>7 DEF ConsolaPaso
<1>2. CASE ServidorPaso
  <2>1. CASE \E r \in Ruta : SubirResultado(r)
    BY <2>1, UsosEmpiezaSubida
  <2>2. CASE \E n \in Nodo : NodoSePresenta(n) \/ NodoAgregado(n)
    BY <2>2, UsosLlegada
  <2>. QED
    BY <1>2, <2>1, <2>2 DEF ServidorPaso
<1>3. ASSUME NEW h \in Hilo, SubidaPaso(h)
      PROVE  UsosInv'
  BY <1>3, UsosBloque, UsosBusca, UsosToma, UsosManda DEF SubidaPaso
<1>4. CASE Caida \/ \E h \in Hilo : NodoNoAtiende(h)
  BY <1>4, UsosCaida
<1>5. CASE Arranca
  BY <1>5, UsosArranca
<1>6. CASE UNCHANGED vars
  <2>1. UNCHANGED <<nodos, letra, nombre, llega, archivos, archivo, en, mano, discos,
                    mongoNodos, mongoArchivos, vivo, subidas, caidas>>
    BY <1>6 DEF vars, memoria, mongo, contador
  <2>2. MemoriaSana' /\ EnvioSano' /\ NodosAlDia' /\ ArchivosAlDia' /\ ImagenSana'
    BY <2>1, UsosIgual DEF Base
  <2>3. Vacio' /\ Registro'
    BY <2>1 DEF Base, UsosInv, Vacio, Registro, Alta, Llegadas
  <2>. QED
    BY <2>2, <2>3 DEF UsosInv
<1>. QED
  BY <1>1, <1>2, <1>3, <1>4, <1>5, <1>6 DEF Next

(* The invariant holds in every state.                                     *)
LEMMA UsosInvSiempre ==
  ASSUME Previsto
  PROVE  Spec => []Base
<1>1. "juntos" \notin Eventos
  BY DEF Previsto
<1>2. Spec => []ReplicasInv
  BY <1>1, ReplicasInvSiempre
<1>3. TipoInv /\ Muerto /\ ReplicasInv /\ UsosInv /\ TipoInv' /\ [Next]_vars => UsosInv'
  BY UsosPaso DEF Base
<1>4. TipoInv /\ Muerto /\ ReplicasInv /\ UsosInv => Base
  BY DEF Base
<1>. QED
  BY <1>2, <1>3, <1>4, UsosInit, TipoSiempre, PTL DEF Spec

-----------------------------------------------------------------------------
(* What it says of the copies of a list of files.                          *)

(* The use that a copy is.                                                 *)
UsoEn(lista, x) ==
  [arch |-> x[1], nro |-> x[2], copia |-> CopiaEn(lista, x), dato |-> DatoEn(lista, x)]

LEMMA CopiaListada ==
  ASSUME NEW A \in Seq(Sano), NEW S \in SUBSET DOMAIN A, NEW x \in Copias(A, S)
  PROVE  /\ x[1] \in DOMAIN A /\ x[2] \in DOMAIN A[x[1]].bloques
         /\ x[3] \in DOMAIN A[x[1]].bloques[x[2]].copias
         /\ x = <<x[1], x[2], x[3]>>
         /\ CopiasDistintas(A[x[1]].bloques[x[2]])
         /\ CopiaEn(A, x).bloque # 0 => UsoEn(A, x) \in UsosDe(A)
<1>1. PICK a \in S : \E b \in DOMAIN A[a].bloques :
                       \E c \in DOMAIN A[a].bloques[b].copias : x = <<a, b, c>>
  BY DEF Copias
<1>2. PICK b \in DOMAIN A[a].bloques :
             \E c \in DOMAIN A[a].bloques[b].copias : x = <<a, b, c>>
  BY <1>1
<1>3. PICK c \in DOMAIN A[a].bloques[b].copias : x = <<a, b, c>>
  BY <1>2
<1>4. A[a] \in UnArchivo /\ ArchivoSano(A[a]) /\ a \in Nat /\ a \in DOMAIN A
  BY DEF Sano
<1>5. A[a].bloques \in Seq(UnBloque)
  BY <1>4 DEF UnArchivo
<1>6. A[a].bloques[b] \in UnBloque /\ b \in Nat
  BY <1>5
<1>7. A[a].bloques[b].copias \in Seq(UnaCopia) /\ A[a].bloques[b].dato \in Seq(Nat)
  BY <1>6 DEF UnBloque
<1>8. /\ A[a].bloques[b].copias[c] \in UnaCopia
      /\ A[a].bloques[b].copias[c] \in ToSet(A[a].bloques[b].copias)
  BY <1>7 DEF ToSet
<1>9. CopiasDistintas(A[a].bloques[b])
  BY <1>4 DEF ArchivoSano
<1>10. x[1] = a /\ x[2] = b /\ x[3] = c
  BY <1>3
<1>11. CopiaEn(A, x) = A[a].bloques[b].copias[c] /\ DatoEn(A, x) = A[a].bloques[b].dato
  BY <1>10 DEF CopiaEn, DatoEn
<1>12. CopiaEn(A, x).bloque # 0 => UsoEn(A, x) \in UsosDe(A)
  <2>. DEFINE u == UsoEn(A, x)
  <2>1. u \in Uso
    BY <1>4, <1>6, <1>7, <1>8, <1>10, <1>11 DEF UsoEn, Uso
  <2>2. /\ u.arch = a /\ u.nro = b /\ u.copia = A[a].bloques[b].copias[c]
        /\ u.dato = A[a].bloques[b].dato
    BY <1>10, <1>11 DEF UsoEn
  <2>. HIDE DEF u
  <2>3. ASSUME CopiaEn(A, x).bloque # 0
        PROVE  u \in UsosDe(A)
    BY <1>4, <1>8, <1>11, <2>1, <2>2, <2>3 DEF UsosDe, EnLista, Usa
  <2>. QED
    BY <2>3 DEF u
<1>. QED
  BY <1>3, <1>4, <1>9, <1>10, <1>12

(* A sound list shares only block 0.                                       *)
LEMMA SanaSinDobleUso ==
  ASSUME NEW A \in Seq(Sano), NEW S \in SUBSET DOMAIN A, NEW T, NEW E, NEW L, NEW ds,
         Sana(T, E, L, ds), UsosDe(A) \subseteq T
  PROVE  SoloElCero(A, S, L)
<1>. DEFINE u(x) == UsoEn(A, x)
<1>1. ASSUME NEW x \in Copias(A, S), CopiaEn(A, x).bloque # 0
      PROVE  /\ u(x) \in T
             /\ u(x).arch = x[1] /\ u(x).nro = x[2] /\ u(x).copia = CopiaEn(A, x)
  BY <1>1, CopiaListada DEF UsoEn
<1>. HIDE DEF u
<1>2. ASSUME NEW x \in Copias(A, S), NEW y \in Copias(A, S),
             CopiaEn(A, x) = CopiaEn(A, y), CopiaEn(A, x).bloque # 0
      PROVE  x = y
  <2>1. x[1] = y[1] /\ x[2] = y[2]
    BY <1>1, <1>2 DEF Sana, SinCompartir
  <2>2. /\ x[3] \in DOMAIN A[x[1]].bloques[x[2]].copias
        /\ y[3] \in DOMAIN A[x[1]].bloques[x[2]].copias
        /\ x = <<x[1], x[2], x[3]>> /\ y = <<y[1], y[2], y[3]>>
        /\ CopiasDistintas(A[x[1]].bloques[x[2]])
    BY <2>1, CopiaListada
  <2>3. A[x[1]].bloques[x[2]].copias[x[3]] = A[x[1]].bloques[x[2]].copias[y[3]]
    BY <1>2, <2>1 DEF CopiaEn
  <2>4. x[3] = y[3]
    BY <2>2, <2>3 DEF CopiasDistintas
  <2>. QED
    BY <2>1, <2>2, <2>4
<1>3. ASSUME NEW x \in Copias(A, S), NEW i \in DOMAIN L, L[i].nombre = CopiaEn(A, x).nodo,
             CopiaEn(A, x).bloque # 0
      PROVE  CopiaEn(A, x).bloque \notin ToSet(L[i].libres)
  BY <1>1, <1>3 DEF Sana, SinLibres
<1>. QED
  BY <1>2, <1>3 DEF SoloElCero

-----------------------------------------------------------------------------
(* The theorems.  Nothing is formatted, the two threads take turns, nodes  *)
(* arrive one by one before the first upload and are enabled once, and     *)
(* there are letters for them: files are uploaded, renamed, deleted block  *)
(* by block or whole, nodes removed and enabled again, and the process     *)
(* crashes and restarts anywhere in between.                               *)

(* buscarBloqueDisponible never gives a block that is in use: two copies   *)
(* share a block, or a copy lies in a free one, only if it is the block 0  *)
(* that a node without free blocks answers.                                *)
THEOREM DobleUsoSiempreDelCero ==
  ASSUME Eventos \subseteq {"borde", "resultados"}, Cardinality(Nodo) <= Letras
  PROVE  Spec => []DobleUsoSoloDelCero
<1>1. Spec => []Base
  BY UsosInvSiempre DEF Previsto
<1>2. Base => DobleUsoSoloDelCero
  <2>1. SUFFICES ASSUME Base PROVE DobleUsoSoloDelCero
    OBVIOUS
  <2>2. archivos \in Seq(Sano) /\ Listados \in SUBSET DOMAIN archivos
    BY <2>1, Sanos DEF Base, Listados
  <2>3. UsosDe(archivos) \subseteq Tomados
    BY DEF Tomados, Escritos, UsosDe
  <2>4. CASE vivo
    BY <2>1, <2>2, <2>3, <2>4, SanaSinDobleUso
    DEF Base, UsosInv, MemoriaSana, DobleUsoSoloDelCero
  <2>5. CASE ~vivo
    <3>1. archivos = <<>>
      BY <2>1, <2>5 DEF Base, Muerto
    <3>. QED
      BY <3>1 DEF DobleUsoSoloDelCero, SoloElCero, Copias, Listados
  <2>. QED
    BY <2>4, <2>5
<1>. QED
  BY <1>1, <1>2, PTL

(* The same of MongoDB between any two writes to it: the documents of a    *)
(* file and of its nodes go and come in an order that no crash can make    *)
(* the restart read a used block among the free ones.                      *)
THEOREM ImagenSiempreSinDobleUso ==
  ASSUME Eventos \subseteq {"borde", "resultados"}, Cardinality(Nodo) <= Letras
  PROVE  Spec => []ImagenSinDobleUso
<1>1. Spec => []Base
  BY UsosInvSiempre DEF Previsto
<1>2. Base => ImagenSinDobleUso
  <2>1. SUFFICES ASSUME Base PROVE ImagenSinDobleUso
    OBVIOUS
  <2>2. mongoArchivos \in Seq(Sano)
    BY <2>1, Sanos DEF Base
  <2>3. Sana(UsosDe(mongoArchivos), UsosDe(mongoArchivos), mongoNodos, discos)
    BY <2>1, ImagenViva DEF Base
  <2>. QED
    BY <2>2, <2>3, SanaSinDobleUso DEF ImagenSinDobleUso
<1>. QED
  BY <1>1, <1>2, PTL

(* The node that a copy names holds what the copy was made of: no later    *)
(* upload writes over it, and after a restart the name still leads to the  *)
(* node that has it.                                                       *)
THEOREM CopiaSiempreIntacta ==
  ASSUME Eventos \subseteq {"borde", "resultados"}, Cardinality(Nodo) <= Letras
  PROVE  Spec => []CopiaIntacta
<1>1. Spec => []Base
  BY UsosInvSiempre DEF Previsto
<1>2. Base => CopiaIntacta
  <2>1. SUFFICES ASSUME Base, NEW x \in Copias(archivos, Listados),
                        CopiaEn(archivos, x).bloque # 0
                 PROVE  Intacta(x)
    BY DEF CopiaIntacta
  <2>. DEFINE u == UsoEn(archivos, x)
              i == PorNombre(CopiaEn(archivos, x).nodo)
  <2>2. archivos \in Seq(Sano) /\ Listados \in SUBSET DOMAIN archivos
    BY <2>1, Sanos DEF Base, Listados
  <2>3. u \in UsosDe(archivos) /\ u.copia = CopiaEn(archivos, x) /\ u.dato = DatoEn(archivos, x)
    BY <2>1, <2>2, CopiaListada DEF UsoEn
  <2>. HIDE DEF u
  <2>4. nodos \in Seq(UnNodo)
    BY <2>1 DEF Base, TipoInv, MemoriaOK
  <2>5. i \in 0..Len(nodos) /\ (i # 0 => nodos[i].nombre = CopiaEn(archivos, x).nodo)
    BY <2>4, NodoBuscado
  <2>6. CASE i = 0
    BY <2>6 DEF Intacta
  <2>7. CASE i # 0
    <3>1. i \in DOMAIN nodos
      BY <2>4, <2>5, <2>7
    <3>2. vivo
      <4>1. ~vivo => nodos = <<>>
        BY <2>1 DEF Base, Muerto
      <4>. QED
        BY <3>1, <4>1
    <3>3. Escrito(Escritos, nodos, discos)
      BY <2>1, <3>2 DEF Base, UsosInv, MemoriaSana, Sana
    <3>4. u \in Escritos
      BY <2>3 DEF Escritos, UsosDe
    <3>5. discos[nodos[i].dir][CopiaEn(archivos, x).bloque] = DatoEn(archivos, x)
      BY <2>3, <2>5, <2>7, <3>1, <3>3, <3>4 DEF Escrito
    <3>. QED
      BY <3>5 DEF Intacta
  <2>. QED
    BY <2>6, <2>7
<1>. QED
  BY <1>1, <1>2, PTL

-----------------------------------------------------------------------------
(* The places of what stays when a list loses one element.                 *)
LosDe(s, I, T) == {i \in I : s[i] \in T}

LEMMA SitiosRemoveAt ==
  ASSUME NEW S, NEW s \in Seq(S), NEW p \in 1..Len(s), NEW T
  PROVE  Cardinality(LosDe(RemoveAt(s, p), DOMAIN RemoveAt(s, p), T))
           = Cardinality(LosDe(s, DOMAIN s \ {p}, T))
<1>. DEFINE t == RemoveAt(s, p)
            sitio(i) == IF i < p THEN i ELSE i + 1
            A == {i \in DOMAIN t : t[i] \in T}
            B == {i \in DOMAIN s \ {p} : s[i] \in T}
            f == [i \in A |-> sitio(i)]
<1>1. /\ t \in Seq(S) /\ Len(t) = Len(s) - 1
      /\ \A i \in 1..(Len(s) - 1) : t[i] = s[sitio(i)]
  BY RemoveAtEs
<1>. HIDE DEF t
<1>2. DOMAIN t = 1..(Len(s) - 1) /\ DOMAIN s = 1..Len(s) /\ Len(s) \in Nat
  BY <1>1
<1>3. f \in [A -> B]
  BY <1>1, <1>2
<1>4. \A i, j \in A : f[i] = f[j] => i = j
  BY <1>2
<1>5. ASSUME NEW k \in B
      PROVE  \E i \in A : f[i] = k
  <2>1. CASE k < p
    <3>1. k \in A /\ f[k] = k
      BY <1>1, <1>2, <2>1
    <3>. QED
      BY <3>1
  <2>2. CASE k > p
    <3>1. k - 1 \in A /\ f[k - 1] = k
      BY <1>1, <1>2, <2>2
    <3>. QED
      BY <3>1
  <2>. QED
    BY <2>1, <2>2, <1>2
<1>6. IsFiniteSet(A)
  <2>1. A \in SUBSET (1..(Len(s) - 1))
    BY <1>2
  <2>2. IsFiniteSet(1..(Len(s) - 1))
    BY <1>2, FS_Interval
  <2>. QED
    BY <2>1, <2>2, FS_Subset
<1>. HIDE DEF A, B, f
<1>7. f \in Bijection(A, B)
  BY <1>3, <1>4, <1>5 DEF Bijection, Injection, Surjection, IsInjective
<1>8. ExistsBijection(A, B)
  BY <1>7 DEF ExistsBijection
<1>9. Cardinality(B) = Cardinality(A)
  BY <1>6, <1>8, FS_Bijection
<1>. QED
  BY <1>9 DEF A, B, t, LosDe

(* Two sets of at most one element, both empty or none.                    *)
LEMMA CeroOUno ==
  ASSUME NEW A, NEW B, \A x, y \in A : x = y, \A x, y \in B : x = y, A = {} <=> B = {}
  PROVE  Cardinality(A) = Cardinality(B)
<1>1. CASE A = {}
  BY <1>1
<1>2. CASE A # {}
  <2>1. PICK x \in A : TRUE
    BY <1>2
  <2>2. PICK y \in B : TRUE
    BY <1>2
  <2>3. A = {x} /\ B = {y}
    BY <2>1, <2>2
  <2>. QED
    BY <2>3, FS_Singleton
<1>. QED
  BY <1>1, <1>2

-----------------------------------------------------------------------------
(* The documents of the files, each as many times as there are files like  *)
(* it, but those in O.                                                     *)
Sitios(A, O, x) == {k \in DOMAIN A \ O : ~A[k].colgado /\ Documento(A[k]) = x}
Completo(M, A, O) ==
  /\ \A d \in DOMAIN M : ~M[d].colgado
  /\ \A x : Cardinality(Sitios(M, {}, x)) = Cardinality(Sitios(A, O, x))

LEMMA SitiosFinitos ==
  ASSUME NEW S, NEW A \in Seq(S), NEW O, NEW x
  PROVE  IsFiniteSet(Sitios(A, O, x)) /\ Cardinality(Sitios(A, O, x)) \in Nat
<1>1. Sitios(A, O, x) \in SUBSET (1..Len(A)) /\ IsFiniteSet(1..Len(A))
  BY FS_Interval DEF Sitios
<1>. QED
  BY <1>1, FS_Subset, FS_CardinalityType

(* borrar_archivo_mongo: one document like that of the file goes.          *)
LEMMA SinArchivoCompleto ==
  ASSUME mongoArchivos \in Seq(UnArchivo), archivos \in Seq(UnArchivo),
         Completo(mongoArchivos, archivos, {}), NEW a \in DOMAIN archivos, ~archivos[a].colgado
  PROVE  Completo(SinArchivo(archivos[a]), archivos, {a})
<1>. DEFINE x == Documento(archivos[a])
            M == mongoArchivos
            I == {j \in 1..Len(M) : Documento(M[j]) = x}
            k == SelectInSeq(M, LAMBDA d : Documento(d) = x)
            r == SinArchivo(archivos[a])
<1>1. r = IF I # {} THEN RemoveAt(M, k) ELSE M
  BY DEF SinArchivo, RemoveFirstMatch
<1>2. k = IF I # {} THEN Min(I) ELSE 0
  BY DEF SelectInSeq
<1>. HIDE DEF k, r
<1>3. I # {} => Min(I) \in I
  <2>1. I \in SUBSET Nat
    OBVIOUS
  <2>. QED
    BY <2>1, MinEs
<1>. HIDE DEF x
<1>4. I # {}
  <2>1. a \in Sitios(archivos, {}, x)
    BY DEF Sitios, x
  <2>2. Cardinality(Sitios(archivos, {}, x)) # 0
    BY <2>1, SitiosFinitos, FS_EmptySet
  <2>3. Cardinality(Sitios(M, {}, x)) # 0
    BY <2>2 DEF Completo
  <2>4. Sitios(M, {}, x) # {}
    BY <2>3, FS_EmptySet
  <2>. QED
    BY <2>4 DEF Sitios
<1>5. k \in 1..Len(M) /\ Documento(M[k]) = x /\ r = RemoveAt(M, k)
  BY <1>1, <1>2, <1>3, <1>4
<1>6. ASSUME NEW d \in DOMAIN r
      PROVE  ~r[d].colgado
  <2>1. PICK e \in DOMAIN M : r[d] = M[e]
    BY <1>5, SinElemento
  <2>. QED
    BY <2>1 DEF Completo
<1>7. ASSUME NEW y
      PROVE  Cardinality(Sitios(r, {}, y)) = Cardinality(Sitios(archivos, {a}, y))
  <2>. DEFINE T == {z \in UnArchivo : ~z.colgado /\ Documento(z) = y}
  <2>1. r \in Seq(UnArchivo)
    BY <1>5, RemoveAtEs
  <2>2. Sitios(r, {}, y) = {i \in DOMAIN r : r[i] \in T}
    BY <2>1 DEF Sitios
  <2>3. Sitios(M, {}, y) \ {k} = {i \in DOMAIN M \ {k} : M[i] \in T}
    BY DEF Sitios
  <2>. HIDE DEF T
  <2>4. Cardinality(Sitios(r, {}, y)) = Cardinality(Sitios(M, {}, y) \ {k})
    <3>1. Cardinality(LosDe(RemoveAt(M, k), DOMAIN RemoveAt(M, k), T))
            = Cardinality(LosDe(M, DOMAIN M \ {k}, T))
      BY <1>5, SitiosRemoveAt
    <3>. QED
      BY <1>5, <2>2, <2>3, <3>1 DEF LosDe
  <2>5. Sitios(archivos, {a}, y) = Sitios(archivos, {}, y) \ {a}
    BY DEF Sitios
  <2>6. k \in Sitios(M, {}, y) <=> a \in Sitios(archivos, {}, y)
    BY <1>5 DEF Sitios, Completo, x
  <2>7. /\ IsFiniteSet(Sitios(M, {}, y)) /\ IsFiniteSet(Sitios(archivos, {}, y))
        /\ Cardinality(Sitios(M, {}, y)) = Cardinality(Sitios(archivos, {}, y))
    BY SitiosFinitos DEF Completo
  <2>8. Cardinality(Sitios(M, {}, y) \ {k}) = Cardinality(Sitios(archivos, {}, y) \ {a})
    <3>1. Cardinality(Sitios(M, {}, y) \ {k})
            = IF k \in Sitios(M, {}, y) THEN Cardinality(Sitios(M, {}, y)) - 1
              ELSE Cardinality(Sitios(M, {}, y))
      BY <2>7, FS_RemoveElement
    <3>2. Cardinality(Sitios(archivos, {}, y) \ {a})
            = IF a \in Sitios(archivos, {}, y) THEN Cardinality(Sitios(archivos, {}, y)) - 1
              ELSE Cardinality(Sitios(archivos, {}, y))
      BY <2>7, FS_RemoveElement
    <3>. QED
      BY <2>6, <2>7, <3>1, <3>2
  <2>. QED
    BY <2>4, <2>5, <2>8
<1>. QED
  BY <1>6, <1>7 DEF Completo, r

(* crear_archivo_mongo: the document of a file that has none comes.        *)
LEMMA ConArchivoCompleto ==
  ASSUME NEW M \in Seq(UnArchivo), NEW A \in Seq(UnArchivo), NEW a \in DOMAIN A,
         ~A[a].colgado, Completo(M, A, {a})
  PROVE  Completo(Append(M, A[a]), A, {})
<1>. DEFINE r == Append(M, A[a])
            n == Len(M) + 1
<1>1. /\ DOMAIN r = 1..n /\ DOMAIN M = 1..Len(M) /\ Len(M) \in Nat /\ n \notin DOMAIN M
      /\ \A d \in 1..Len(M) : r[d] = M[d]
      /\ r[n] = A[a]
  OBVIOUS
<1>2. r \in Seq(UnArchivo)
  OBVIOUS
<1>. HIDE DEF r, n
<1>3. DOMAIN r = DOMAIN M \cup {n}
  BY <1>1 DEF n
<1>4. \A d \in DOMAIN r : ~r[d].colgado
  BY <1>1, <1>3 DEF Completo
<1>5. ASSUME NEW y
      PROVE  Cardinality(Sitios(r, {}, y)) = Cardinality(Sitios(A, {}, y))
  <2>1. /\ IsFiniteSet(Sitios(M, {}, y)) /\ IsFiniteSet(Sitios(A, {a}, y))
        /\ Cardinality(Sitios(M, {}, y)) = Cardinality(Sitios(A, {a}, y))
    BY SitiosFinitos DEF Completo
  <2>2. n \notin Sitios(M, {}, y) /\ a \notin Sitios(A, {a}, y)
    BY <1>1 DEF Sitios
  <2>3. CASE Documento(A[a]) = y
    <3>1. Sitios(r, {}, y) = Sitios(M, {}, y) \cup {n}
      BY <1>1, <1>3, <2>3 DEF Sitios
    <3>2. Sitios(A, {}, y) = Sitios(A, {a}, y) \cup {a}
      BY <2>3 DEF Sitios
    <3>3. Cardinality(Sitios(M, {}, y) \cup {n}) = Cardinality(Sitios(M, {}, y)) + 1
      BY <2>1, <2>2, FS_AddElement
    <3>4. Cardinality(Sitios(A, {a}, y) \cup {a}) = Cardinality(Sitios(A, {a}, y)) + 1
      BY <2>1, <2>2, FS_AddElement
    <3>. QED
      BY <2>1, <3>1, <3>2, <3>3, <3>4
  <2>4. CASE Documento(A[a]) # y
    <3>1. Sitios(r, {}, y) = Sitios(M, {}, y)
      BY <1>1, <1>3, <2>4 DEF Sitios
    <3>2. Sitios(A, {}, y) = Sitios(A, {a}, y)
      BY <2>4 DEF Sitios
    <3>. QED
      BY <2>1, <3>1, <3>2
  <2>. QED
    BY <2>3, <2>4
<1>. QED
  BY <1>4, <1>5 DEF Completo, r

(* The files in hand may change, be added or be freed.                     *)
LEMMA CambiaCompleto ==
  ASSUME NEW M, NEW A, NEW O, Completo(M, A, O), NEW B, NEW P,
         \A k : /\ k \in DOMAIN A \ O /\ ~A[k].colgado
                     <=> k \in DOMAIN B \ P /\ ~B[k].colgado
                /\ k \in DOMAIN A \ O /\ ~A[k].colgado => B[k] = A[k]
  PROVE  Completo(M, B, P)
<1>1. ASSUME NEW x
      PROVE  Sitios(A, O, x) = Sitios(B, P, x)
  BY DEF Sitios
<1>. QED
  BY <1>1 DEF Completo

-----------------------------------------------------------------------------
(* The documents of the nodes that are not in O.                           *)
Guardados(M, L, O) ==
  \A k \in DOMAIN L \ O : L[k].estado # 0 => \E d \in DOMAIN M : M[d] = L[k]

(* borrar_nodo_mongo keeps the documents of the other nodes.               *)
LEMMA SinNodoGuarda ==
  ASSUME mongoNodos \in Seq(UnNodo), nodos \in Seq(UnNodo), Servidores(nodos),
         NodosReflejados(mongoNodos, nodos, {}), NEW i \in DOMAIN nodos,
         Guardados(mongoNodos, nodos, {})
  PROVE  Guardados(SinNodo(nodos[i]), nodos, {i})
<1>. DEFINE x == nodos[i]
            M == mongoNodos
            I == {j \in 1..Len(M) : [M[j] EXCEPT !.libres = x.libres] = x}
            k == SelectInSeq(M, LAMBDA d : [d EXCEPT !.libres = x.libres] = x)
            r == SinNodo(x)
<1>1. r = IF I # {} THEN RemoveAt(M, k) ELSE M
  BY DEF SinNodo, RemoveFirstMatch
<1>2. k = IF I # {} THEN Min(I) ELSE 0
  BY DEF SelectInSeq
<1>. HIDE DEF k, r
<1>3. I # {} => Min(I) \in I
  <2>1. I \in SUBSET Nat
    OBVIOUS
  <2>. QED
    BY <2>1, MinEs
<1>4. CASE I = {}
  <2>1. r = M
    BY <1>1, <1>4
  <2>. QED
    BY <2>1 DEF Guardados, r
<1>5. CASE I # {}
  <2>1. /\ k \in 1..Len(M) /\ r = RemoveAt(M, k)
        /\ [M[k] EXCEPT !.libres = x.libres] = x
    BY <1>1, <1>2, <1>3, <1>5
  <2>2. M[k].nombre = x.nombre
    <3>1. M[k] \in UnNodo
      BY <2>1
    <3>. QED
      BY <2>1, <3>1 DEF UnNodo
  <2>3. ASSUME NEW j \in DOMAIN nodos \ {i}, nodos[j].estado # 0
        PROVE  \E d \in DOMAIN r : r[d] = nodos[j]
    <3>1. PICK e \in DOMAIN M : M[e] = nodos[j]
      BY <2>3 DEF Guardados
    <3>2. e # k
      BY <2>2, <2>3, <3>1 DEF Servidores
    <3>3. /\ Len(r) = Len(M) - 1 /\ r \in Seq(UnNodo)
          /\ \A d \in 1..(Len(M) - 1) : r[d] = M[IF d < k THEN d ELSE d + 1]
      BY <2>1, RemoveAtEs
    <3>4. DOMAIN r = 1..(Len(M) - 1) /\ e \in 1..Len(M) /\ Len(M) \in Nat
      BY <3>3
    <3>5. CASE e < k
      <4>1. e \in DOMAIN r /\ r[e] = M[e]
        BY <2>1, <3>3, <3>4, <3>5
      <4>. QED
        BY <3>1, <4>1
    <3>6. CASE e > k
      <4>1. /\ e - 1 \in 1..(Len(M) - 1) /\ ~(e - 1 < k) /\ (e - 1) + 1 = e
        BY <2>1, <3>4, <3>6
      <4>2. r[e - 1] = M[IF e - 1 < k THEN e - 1 ELSE (e - 1) + 1]
        BY <3>3, <4>1
      <4>3. e - 1 \in DOMAIN r /\ r[e - 1] = M[e]
        BY <3>4, <4>1, <4>2
      <4>. QED
        BY <3>1, <4>3
    <3>. QED
      BY <2>1, <3>2, <3>4, <3>5, <3>6
  <2>. QED
    BY <2>3 DEF Guardados, r
<1>. QED
  BY <1>4, <1>5

(* crear_nodo_mongo, with what else changes of the node.                   *)
LEMMA ConNodoGuarda ==
  ASSUME NEW M \in Seq(UnNodo), NEW L, NEW i, Guardados(M, L, {i}), NEW K,
         DOMAIN K = DOMAIN L, \A k \in DOMAIN L \ {i} : K[k] = L[k], NEW x, x = K[i],
         x \in UnNodo
  PROVE  Guardados(Append(M, x), K, {})
<1>. DEFINE r == Append(M, x)
<1>1. /\ DOMAIN r = 1..(Len(M) + 1) /\ DOMAIN M = 1..Len(M) /\ Len(M) \in Nat
      /\ \A d \in 1..Len(M) : r[d] = M[d]
      /\ r[Len(M) + 1] = x
  OBVIOUS
<1>. HIDE DEF r
<1>2. /\ \A d \in DOMAIN M : d \in DOMAIN r /\ r[d] = M[d]
      /\ Len(M) + 1 \in DOMAIN r
  BY <1>1
<1>3. ASSUME NEW k \in DOMAIN K, K[k].estado # 0
      PROVE  \E d \in DOMAIN r : r[d] = K[k]
  <2>1. CASE k = i
    BY <1>1, <1>2, <2>1
  <2>2. CASE k # i
    BY <1>2, <1>3, <2>2 DEF Guardados
  <2>. QED
    BY <2>1, <2>2
<1>. QED
  BY <1>3 DEF Guardados, r

-----------------------------------------------------------------------------
(* The invariant: only the console uploads, and every enabled or removed   *)
(* node and every file has its document, but those in its hands.           *)

SoloConsola == Eventos \subseteq {"borde"} /\ Cardinality(Nodo) <= Letras

NodoEnMano ==
  IF en["consola"] \in {"toma", "creaNodo"} THEN {mano["consola"].nodo} ELSE {}
ArchivoEnMano ==
  IF en["consola"] \in Subiendo THEN {archivo}
  ELSE IF TrabajaArchivo THEN {mano["consola"].arch} ELSE {}

SinColgados(M) == \A d \in DOMAIN M : ~M[d].colgado

AlDia ==
  /\ en["servidor"] = "libre"
  /\ SinColgados(mongoArchivos)
  /\ vivo => /\ Guardados(mongoNodos, nodos, NodoEnMano)
             /\ Completo(mongoArchivos, archivos, ArchivoEnMano)
             /\ TrabajaArchivo => ~archivos[mano["consola"].arch].colgado

BaseDia == Base /\ AlDia /\ SoloConsola

LEMMA PrevistoSolo == SoloConsola => Previsto
  BY DEF SoloConsola, Previsto

LEMMA DiaInit == Init => AlDia
<1>. SUFFICES ASSUME Init
              PROVE  AlDia
  OBVIOUS
<1>1. /\ en["servidor"] = "libre" /\ en["consola"] = "libre"
      /\ nodos = <<>> /\ archivos = <<>> /\ mongoNodos = <<>> /\ mongoArchivos = <<>>
  BY DEF Init, Hilo
<1>2. ~TrabajaArchivo /\ NodoEnMano = {} /\ ArchivoEnMano = {}
  BY <1>1 DEF TrabajaArchivo, DeArchivo, NodoEnMano, ArchivoEnMano, Subiendo
<1>3. SinColgados(<<>>) /\ Guardados(<<>>, <<>>, {}) /\ Completo(<<>>, <<>>, {})
  BY DEF SinColgados, Guardados, Completo
<1>. QED
  BY <1>1, <1>2, <1>3 DEF AlDia

LEMMA DiaMuere ==
  ASSUME Muere, SinColgados(mongoArchivos')
  PROVE  AlDia'
<1>1. vivo' = FALSE /\ en'["servidor"] = "libre"
  BY DEF Muere, Hilo
<1>. QED
  BY <1>1 DEF AlDia

(* cargar_listas_mongo: memory is what MongoDB holds.                      *)
LEMMA DiaArranca ==
  ASSUME BaseDia, Arranca
  PROVE  AlDia'
<1>1. /\ ~vivo /\ nodos' = mongoNodos /\ archivos' = mongoArchivos
      /\ UNCHANGED <<en, mano, archivo, mongoNodos, mongoArchivos>>
  BY DEF Arranca, mongo
<1>2. en'["consola"] = "libre" /\ en'["servidor"] = "libre"
  BY <1>1 DEF BaseDia, Base, Muerto, Hilo
<1>3. ~TrabajaArchivo' /\ NodoEnMano' = {} /\ ArchivoEnMano' = {}
  BY <1>2 DEF TrabajaArchivo, DeArchivo, NodoEnMano, ArchivoEnMano, Subiendo
<1>4. SinColgados(mongoArchivos)
  BY DEF BaseDia, AlDia
<1>5. /\ Guardados(mongoNodos, mongoNodos, {})
      /\ Completo(mongoArchivos, mongoArchivos, {})
  BY <1>4 DEF Guardados, Completo, SinColgados
<1>. QED
  BY <1>1, <1>2, <1>3, <1>4, <1>5 DEF AlDia

(* Where the console is after a step of its own.                           *)
LEMMA DiaSigue ==
  ASSUME en'["servidor"] = "libre", Guardados(mongoNodos', nodos', NodoEnMano'),
         Completo(mongoArchivos', archivos', ArchivoEnMano'),
         TrabajaArchivo' => ~archivos'[mano'["consola"].arch].colgado
  PROVE  AlDia'
<1>1. SinColgados(mongoArchivos')
  BY DEF Completo, SinColgados
<1>. QED
  BY <1>1 DEF AlDia

LEMMA EnConsola ==
  ASSUME BaseDia, NEW e, en' = [en EXCEPT !["consola"] = e]
  PROVE  en'["consola"] = e /\ en'["servidor"] = "libre"
BY DEF BaseDia, AlDia, Base, TipoInv, HilosOK, Hilo

LEMMA ConsolaLibre ==
  ASSUME BaseDia, Puede("consola")
  PROVE  /\ vivo /\ en["consola"] = "libre" /\ llega = {}
         /\ Guardados(mongoNodos, nodos, {}) /\ Completo(mongoArchivos, archivos, {})
<1>1. vivo /\ en["consola"] = "libre" /\ llega = {}
  BY DEF Puede, BaseDia, SoloConsola
<1>2. NodoEnMano = {} /\ ArchivoEnMano = {}
  BY <1>1 DEF TrabajaArchivo, DeArchivo, NodoEnMano, ArchivoEnMano, Subiendo
<1>. QED
  BY <1>1, <1>2 DEF BaseDia, AlDia

-----------------------------------------------------------------------------
(* The console on nodes.                                                   *)

LEMMA DiaNodoVaYViene ==
  ASSUME BaseDia, Puede("consola"), NEW i \in DOMAIN nodos, NEW x,
         nodos' = [nodos EXCEPT ![i] = x], mongoNodos' = SinNodo(nodos[i]),
         en' = [en EXCEPT !["consola"] = "creaNodo"],
         mano' = [mano EXCEPT !["consola"].nodo = i, !["consola"].luego = "libre"],
         UNCHANGED <<archivos, archivo, mongoArchivos>>
  PROVE  AlDia'
<1>1. /\ vivo /\ Guardados(mongoNodos, nodos, {}) /\ Completo(mongoArchivos, archivos, {})
  BY ConsolaLibre
<1>2. en'["consola"] = "creaNodo" /\ en'["servidor"] = "libre"
  BY EnConsola
<1>3. mano'["consola"].nodo = i /\ mano'["consola"].luego = "libre"
  BY DEF BaseDia, Base, TipoInv, HilosOK, Hilo, Mano
<1>4. ~TrabajaArchivo' /\ NodoEnMano' = {i} /\ ArchivoEnMano' = {}
  BY <1>2, <1>3 DEF TrabajaArchivo, DeArchivo, NodoEnMano, ArchivoEnMano, Subiendo
<1>5. /\ mongoNodos \in Seq(UnNodo) /\ nodos \in Seq(UnNodo) /\ Servidores(nodos)
      /\ NodosReflejados(mongoNodos, nodos, {})
  BY <1>1, AlDiaLibre DEF BaseDia
<1>6. Guardados(mongoNodos', nodos, {i})
  BY <1>1, <1>5, SinNodoGuarda
<1>7. Guardados(mongoNodos', nodos', {i})
  BY <1>5, <1>6 DEF Guardados
<1>. QED
  BY <1>1, <1>2, <1>4, <1>7, DiaSigue

LEMMA DiaOrdenaNodo ==
  ASSUME BaseDia, TipoInv',
         (\E n \in Nodo : AgregarNodo(n)) \/ (\E i \in DOMAIN nodos : EliminarNodo(i))
  PROVE  AlDia'
<1>0. nodos \in Seq(UnNodo) /\ mongoNodos \in Seq(UnNodo)
  BY DEF BaseDia, Base, TipoInv, MemoriaOK
<1>1. ASSUME NEW n \in Nodo, AgregarNodo(n)
      PROVE  AlDia'
  <2>. DEFINE i == NodoDe(n)
  <2>1. i \in DOMAIN nodos /\ nodos[i] \in UnNodo
    <3>1. i \in 0..Len(nodos) /\ i # 0
      BY <1>0, <1>1, NodoBuscado DEF AgregarNodo
    <3>. HIDE DEF i
    <3>. QED
      BY <1>0, <3>1
  <2>2. /\ Puede("consola") /\ nodos[i].estado # 1
        /\ UNCHANGED <<archivos, archivo, mongoArchivos>>
    BY <1>1 DEF AgregarNodo, BaseDia, SoloConsola
  <2>3. CASE nodos[i].estado = -1
    <3>1. /\ mongoNodos' = SinNodo(nodos[i]) /\ nodos' = [nodos EXCEPT ![i] = Vuelve(@)]
          /\ en' = [en EXCEPT !["consola"] = "creaNodo"]
          /\ mano' = [mano EXCEPT !["consola"].nodo = i, !["consola"].luego = "libre"]
      BY <1>1, <2>3 DEF AgregarNodo
    <3>. DEFINE x == Vuelve(nodos[i])
    <3>2. nodos' = [nodos EXCEPT ![i] = x]
      BY <3>1
    <3>. HIDE DEF i, x
    <3>. QED
      BY <2>1, <2>2, <3>1, <3>2, DiaNodoVaYViene
  <2>4. CASE nodos[i].estado # -1
    <3>. DEFINE x == Habilita(nodos[i])
    <3>1. /\ nodos' = [nodos EXCEPT ![i] = x] /\ mongoNodos' = Append(mongoNodos, x)
          /\ UNCHANGED <<en, mano>>
      BY <1>1, <2>4 DEF AgregarNodo
    <3>. HIDE DEF i, x
    <3>3. /\ vivo /\ en["consola"] = "libre"
          /\ Guardados(mongoNodos, nodos, {}) /\ Completo(mongoArchivos, archivos, {})
      BY <2>2, ConsolaLibre
    <3>4. ~TrabajaArchivo' /\ NodoEnMano' = {} /\ ArchivoEnMano' = {}
      BY <3>1, <3>3 DEF TrabajaArchivo, DeArchivo, NodoEnMano, ArchivoEnMano, Subiendo
    <3>5. Guardados(mongoNodos, nodos, {i})
      BY <3>3 DEF Guardados
    <3>6. /\ DOMAIN nodos' = DOMAIN nodos /\ x = nodos'[i]
          /\ \A k \in DOMAIN nodos \ {i} : nodos'[k] = nodos[k]
      BY <2>1, <3>1
    <3>2. x \in UnNodo
      <4>1. nodos' \in Seq(UnNodo)
        BY DEF TipoInv, MemoriaOK
      <4>. QED
        BY <2>1, <3>6, <4>1
    <3>7. Guardados(Append(mongoNodos, x), nodos', {})
      BY <1>0, <3>2, <3>5, <3>6, ConNodoGuarda
    <3>8. en'["servidor"] = "libre"
      BY <3>1 DEF BaseDia, AlDia
    <3>. QED
      BY <2>2, <3>1, <3>3, <3>4, <3>7, <3>8, DiaSigue
  <2>. QED
    BY <2>3, <2>4
<1>2. ASSUME NEW i \in DOMAIN nodos, EliminarNodo(i)
      PROVE  AlDia'
  <2>. DEFINE x == [nodos[i] EXCEPT !.estado = -1]
  <2>1. /\ Puede("consola") /\ mongoNodos' = SinNodo(nodos[i])
        /\ nodos' = [nodos EXCEPT ![i] = x]
        /\ en' = [en EXCEPT !["consola"] = "creaNodo"]
        /\ mano' = [mano EXCEPT !["consola"].nodo = i, !["consola"].luego = "libre"]
        /\ UNCHANGED <<archivos, archivo, mongoArchivos>>
    BY <1>2 DEF EliminarNodo
  <2>. HIDE DEF x
  <2>. QED
    BY <2>1, DiaNodoVaYViene
<1>. QED
  BY <1>1, <1>2

LEMMA DiaCreaNodo ==
  ASSUME BaseDia, CreaNodo
  PROVE  AlDia'
<1>. DEFINE i == mano["consola"].nodo
            e == mano["consola"].luego
<1>1. /\ vivo /\ en["consola"] = "creaNodo" /\ en' = [en EXCEPT !["consola"] = e]
      /\ mongoNodos' = Append(mongoNodos, nodos[i])
      /\ UNCHANGED <<nodos, archivos, archivo, mano, mongoArchivos>>
  BY DEF CreaNodo
<1>2. /\ nodos \in Seq(UnNodo) /\ mongoNodos \in Seq(UnNodo) /\ mano["consola"] \in Mano
      /\ i \in 1..Len(nodos)
  BY <1>1, TieneLaConsola DEF BaseDia, Base, TipoInv, ConsolaOK
<1>3. e \in {"libre", "libera", "creaArchivo"}
  BY <1>2 DEF Mano
<1>4. en'["consola"] = e /\ en'["servidor"] = "libre"
  <2>. HIDE DEF e
  <2>. QED
    BY <1>1, EnConsola
<1>5. /\ TrabajaArchivo' <=> TrabajaArchivo
      /\ NodoEnMano' = {} /\ ArchivoEnMano' = ArchivoEnMano /\ NodoEnMano = {i}
  BY <1>1, <1>3, <1>4 DEF TrabajaArchivo, DeArchivo, NodoEnMano, ArchivoEnMano, Subiendo
<1>6. /\ Guardados(mongoNodos, nodos, {i}) /\ Completo(mongoArchivos, archivos, ArchivoEnMano)
      /\ TrabajaArchivo => ~archivos[mano["consola"].arch].colgado
  BY <1>1, <1>5 DEF BaseDia, AlDia
<1>7. nodos[i] \in UnNodo
  <2>. HIDE DEF i
  <2>. QED
    BY <1>2
<1>. HIDE DEF i, e
<1>8. Guardados(Append(mongoNodos, nodos[i]), nodos, {})
  BY <1>2, <1>6, <1>7, ConNodoGuarda
<1>. QED
  BY <1>1, <1>4, <1>5, <1>6, <1>8, DiaSigue

(* A node that arrives is not enabled, and has no document.                *)
LEMMA DiaLlegada ==
  ASSUME BaseDia, NEW n \in Nodo, NodoSePresenta(n) \/ NodoAgregado(n)
  PROVE  AlDia'
<1>1. /\ vivo /\ UNCHANGED <<archivos, archivo, en, mano, mongoNodos, mongoArchivos>>
      /\ \/ nodos' = nodos
         \/ nodos' = Append(nodos, [dir |-> n, nombre |-> nombre, estado |-> 0, libres |-> <<>>])
  BY DEF NodoSePresenta, NodoAgregado, mongo
<1>2. /\ TrabajaArchivo' <=> TrabajaArchivo
      /\ NodoEnMano' = NodoEnMano /\ ArchivoEnMano' = ArchivoEnMano
  BY <1>1 DEF TrabajaArchivo, NodoEnMano, ArchivoEnMano
<1>3. Guardados(mongoNodos, nodos, NodoEnMano)
  BY <1>1 DEF BaseDia, AlDia
<1>4. nodos \in Seq(UnNodo)
  BY DEF BaseDia, Base, TipoInv, MemoriaOK
<1>5. \A k \in DOMAIN nodos' : nodos'[k].estado # 0 => k \in DOMAIN nodos /\ nodos'[k] = nodos[k]
  BY <1>1, <1>4
<1>6. Guardados(mongoNodos', nodos', NodoEnMano')
  BY <1>1, <1>2, <1>3, <1>5 DEF Guardados
<1>. QED
  BY <1>1, <1>2, <1>6, DiaSigue DEF BaseDia, AlDia

-----------------------------------------------------------------------------
(* The console on files.                                                   *)

(* The search of a file gives one that was not freed.                      *)
LEMMA ArchivoVigente ==
  ASSUME archivos \in Seq(UnArchivo), NEW r, ArchivoEn(r) # 0
  PROVE  ArchivoEn(r) \in DOMAIN archivos /\ ~archivos[ArchivoEn(r)].colgado
<1>. DEFINE I == {i \in 1..Len(archivos) : ~archivos[i].colgado /\ archivos[i].ruta = r}
<1>1. ArchivoEn(r) = IF I # {} THEN Min(I) ELSE 0
  BY DEF ArchivoEn, SelectInSeq
<1>2. I # {} => Min(I) \in I
  <2>1. I \in SUBSET Nat
    OBVIOUS
  <2>. QED
    BY <2>1, MinEs
<1>. QED
  BY <1>1, <1>2

(* The document of a file goes, and the console goes on with the file.     *)
LEMMA DiaQuitaDocumento ==
  ASSUME BaseDia, Puede("consola"), NEW a \in DOMAIN archivos, ~archivos[a].colgado,
         NEW e \in DeArchivo, en' = [en EXCEPT !["consola"] = e], mano'["consola"].arch = a,
         mongoArchivos' = SinArchivo(archivos[a]),
         DOMAIN archivos' = DOMAIN archivos, ~archivos'[a].colgado,
         \A k \in DOMAIN archivos \ {a} : archivos'[k] = archivos[k],
         UNCHANGED <<nodos, mongoNodos>>
  PROVE  AlDia'
<1>1. /\ vivo /\ Guardados(mongoNodos, nodos, {}) /\ Completo(mongoArchivos, archivos, {})
  BY ConsolaLibre
<1>2. en'["consola"] = e /\ en'["servidor"] = "libre"
  BY EnConsola
<1>3. NodoEnMano' = {} /\ ArchivoEnMano' = {a}
  BY <1>2 DEF TrabajaArchivo, DeArchivo, NodoEnMano, ArchivoEnMano, Subiendo
<1>4. archivos \in Seq(UnArchivo) /\ mongoArchivos \in Seq(UnArchivo)
  BY DEF BaseDia, Base, TipoInv, MemoriaOK
<1>5. Completo(mongoArchivos', archivos, {a})
  BY <1>1, <1>4, SinArchivoCompleto
<1>6. Completo(mongoArchivos', archivos', {a})
  BY <1>5, CambiaCompleto
<1>. QED
  BY <1>1, <1>2, <1>3, <1>6, DiaSigue

LEMMA DiaOrdena ==
  ASSUME BaseDia,
         \/ \E r, nueva \in Ruta : Renombrar(r, nueva)
         \/ \E r \in Ruta : EliminarArchivo(r)
         \/ \E r \in Ruta, b, c \in Respuesta : BorrarBloque(r, b, c)
         \/ LeeLiberado
  PROVE  AlDia'
<1>0. "creaArchivo" \in DeArchivo /\ "libera" \in DeArchivo /\ "quita" \in DeArchivo
  BY DEF DeArchivo
<1>m. mano \in [Hilo -> Mano] /\ "consola" \in Hilo /\ archivos \in Seq(UnArchivo)
      /\ mongoArchivos \in Seq(UnArchivo)
  BY TieneLaConsola DEF BaseDia, Base
<1>1. ASSUME NEW r \in Ruta, NEW nueva \in Ruta, Renombrar(r, nueva)
      PROVE  AlDia'
  <2>. DEFINE a == ArchivoEn(r)
  <2>1. a \in DOMAIN archivos /\ ~archivos[a].colgado
    BY <1>m, <1>1, ArchivoVigente DEF Renombrar
  <2>2. /\ Puede("consola") /\ mongoArchivos' = SinArchivo(archivos[a])
        /\ archivos' = [archivos EXCEPT ![a].ruta = nueva]
        /\ en' = [en EXCEPT !["consola"] = "creaArchivo"]
        /\ mano' = [mano EXCEPT !["consola"].arch = a]
        /\ UNCHANGED <<nodos, mongoNodos>>
    BY <1>1 DEF Renombrar, Ordena
  <2>. HIDE DEF a
  <2>3. mano'["consola"].arch = a
    BY <1>m, <2>2 DEF Mano
  <2>4. archivos[a] \in UnArchivo
    BY <1>m, <2>1
  <2>5. /\ DOMAIN archivos' = DOMAIN archivos /\ ~archivos'[a].colgado
        /\ \A k \in DOMAIN archivos \ {a} : archivos'[k] = archivos[k]
    BY <2>1, <2>2, <2>4 DEF UnArchivo
  <2>. QED
    BY <1>0, <2>1, <2>2, <2>3, <2>5, DiaQuitaDocumento
<1>2. ASSUME NEW r \in Ruta, EliminarArchivo(r)
      PROVE  AlDia'
  <2>. DEFINE a == ArchivoEn(r)
  <2>1. a \in DOMAIN archivos /\ ~archivos[a].colgado
    BY <1>m, <1>2, ArchivoVigente DEF EliminarArchivo
  <2>2. /\ Puede("consola") /\ mongoArchivos' = SinArchivo(archivos[a])
        /\ en' = [en EXCEPT !["consola"] = "libera"]
        /\ mano' = [mano EXCEPT !["consola"].arch = a]
        /\ UNCHANGED <<nodos, archivos, mongoNodos>>
    BY <1>2 DEF EliminarArchivo, Ordena
  <2>. HIDE DEF a
  <2>3. mano'["consola"].arch = a
    BY <1>m, <2>2 DEF Mano
  <2>. QED
    BY <1>0, <2>1, <2>2, <2>3, DiaQuitaDocumento
<1>3. ASSUME NEW r \in Ruta, NEW b \in Respuesta, NEW c \in Respuesta, BorrarBloque(r, b, c)
      PROVE  AlDia'
  <2>. DEFINE a == ArchivoEn(r)
  <2>1. a \in DOMAIN archivos /\ ~archivos[a].colgado
    BY <1>m, <1>3, ArchivoVigente DEF BorrarBloque
  <2>2. Puede("consola") /\ UNCHANGED mongoNodos
    BY <1>3 DEF BorrarBloque, Ordena
  <2>3. \/ Muere /\ (UNCHANGED mongoArchivos \/ mongoArchivos' = SinArchivo(archivos[a]))
        \/ /\ mongoArchivos' = SinArchivo(archivos[a])
           /\ en' = [en EXCEPT !["consola"] = "quita"]
           /\ mano' = [mano EXCEPT !["consola"].arch = a, !["consola"].cual = <<b, c>>]
           /\ UNCHANGED <<nodos, archivos>>
    BY <1>3 DEF BorrarBloque
  <2>. HIDE DEF a
  <2>4. SinColgados(SinArchivo(archivos[a])) /\ SinColgados(mongoArchivos)
    <3>1. Completo(mongoArchivos, archivos, {})
      BY <2>2, ConsolaLibre
    <3>2. Completo(SinArchivo(archivos[a]), archivos, {a})
      BY <1>m, <2>1, <3>1, SinArchivoCompleto
    <3>. QED
      BY <3>1, <3>2 DEF Completo, SinColgados
  <2>5. CASE Muere /\ (UNCHANGED mongoArchivos \/ mongoArchivos' = SinArchivo(archivos[a]))
    BY <2>4, <2>5, DiaMuere
  <2>6. CASE /\ mongoArchivos' = SinArchivo(archivos[a])
             /\ en' = [en EXCEPT !["consola"] = "quita"]
             /\ mano' = [mano EXCEPT !["consola"].arch = a, !["consola"].cual = <<b, c>>]
             /\ UNCHANGED <<nodos, archivos>>
    <3>1. mano'["consola"].arch = a
      BY <1>m, <2>6 DEF Mano
    <3>. QED
      BY <1>0, <2>1, <2>2, <2>6, <3>1, DiaQuitaDocumento
  <2>. QED
    BY <2>3, <2>5, <2>6
<1>4. CASE LeeLiberado
  BY <1>4, DiaMuere DEF LeeLiberado, mongo, BaseDia, AlDia
<1>. QED
  BY <1>1, <1>2, <1>3, <1>4

LEMMA DiaCreaArchivo ==
  ASSUME BaseDia, CreaArchivo
  PROVE  AlDia'
<1>. DEFINE a == mano["consola"].arch
<1>1. /\ vivo /\ en["consola"] = "creaArchivo" /\ en' = [en EXCEPT !["consola"] = "libre"]
      /\ mongoArchivos' = Append(mongoArchivos, archivos[a])
      /\ UNCHANGED <<nodos, archivos, mongoNodos>>
  BY DEF CreaArchivo
<1>2. a \in DOMAIN archivos /\ archivos \in Seq(UnArchivo) /\ mongoArchivos \in Seq(UnArchivo)
  BY <1>1, TieneLaConsola DEF BaseDia, Base, TipoInv, ConsolaOK, DeArchivo
<1>3. TrabajaArchivo /\ NodoEnMano = {} /\ ArchivoEnMano = {a}
  BY <1>1 DEF TrabajaArchivo, DeArchivo, NodoEnMano, ArchivoEnMano, Subiendo
<1>4. /\ Guardados(mongoNodos, nodos, {}) /\ Completo(mongoArchivos, archivos, {a})
      /\ ~archivos[a].colgado
  BY <1>1, <1>3 DEF BaseDia, AlDia
<1>5. en'["consola"] = "libre" /\ en'["servidor"] = "libre"
  BY <1>1, EnConsola
<1>6. ~TrabajaArchivo' /\ NodoEnMano' = {} /\ ArchivoEnMano' = {}
  BY <1>5 DEF TrabajaArchivo, DeArchivo, NodoEnMano, ArchivoEnMano, Subiendo
<1>. HIDE DEF a
<1>7. Completo(Append(mongoArchivos, archivos[a]), archivos, {})
  BY <1>2, <1>4, ConArchivoCompleto
<1>. QED
  BY <1>1, <1>4, <1>5, <1>6, <1>7, DiaSigue

(* A copy leaves its block: the file and the node are in hand.             *)
LEMMA DiaQuitaCopia ==
  ASSUME BaseDia, NEW a, NEW b, NEW c, NEW luego \in {"libera", "creaArchivo"}, vivo,
         en["consola"] \in DeArchivo, mano["consola"].arch = a, QuitaCopia(a, b, c, luego),
         UNCHANGED mongoArchivos
  PROVE  AlDia'
<1>. DEFINE copia == archivos[a].bloques[b].copias[c]
            i == PorNombre(copia.nodo)
            x == Devuelve(nodos[i], copia.bloque)
            bl == [archivos[a].bloques EXCEPT ![b].copias = RemoveAt(@, c)]
            k == [archivos[a] EXCEPT !.bloques = bl]
<1>0. SinColgados(mongoArchivos)
  BY DEF BaseDia, AlDia
<1>1. CASE Muere
  BY <1>0, <1>1, DiaMuere
<1>2. CASE ~Muere
  <2>1. /\ i # 0
        /\ archivos' = [archivos EXCEPT ![a].bloques[b].copias = RemoveAt(@, c)]
        /\ mongoNodos' = SinNodo(nodos[i])
        /\ nodos' = [nodos EXCEPT ![i] = x]
        /\ en' = [en EXCEPT !["consola"] = "creaNodo"]
        /\ mano' = [mano EXCEPT !["consola"].nodo = i, !["consola"].luego = luego]
        /\ UNCHANGED archivo
    BY <1>2 DEF QuitaCopia
  <2>2. /\ a \in 1..Len(archivos) /\ mano["consola"] \in Mano /\ mano \in [Hilo -> Mano]
        /\ "consola" \in Hilo /\ archivos \in Seq(UnArchivo) /\ nodos \in Seq(UnNodo)
        /\ mongoNodos \in Seq(UnNodo)
    BY TieneLaConsola DEF BaseDia, Base, TipoInv, ConsolaOK
  <2>3. i \in DOMAIN nodos
    <3>1. i \in 0..Len(nodos)
      BY <2>2, NodoBuscado
    <3>. HIDE DEF i
    <3>. QED
      BY <2>1, <2>2, <3>1
  <2>4. archivos' = [archivos EXCEPT ![a] = k]
    BY <2>1
  <2>5. archivos[a] \in UnArchivo /\ k.colgado = archivos[a].colgado
    <3>1. archivos[a] \in UnArchivo
      BY <2>2
    <3>. HIDE DEF bl
    <3>. QED
      BY <3>1 DEF UnArchivo
  <2>. HIDE DEF i, x, k
  <2>6. /\ mano'["consola"].nodo = i /\ mano'["consola"].luego = luego
        /\ mano'["consola"].arch = a
    BY <2>1, <2>2 DEF Mano
  <2>7. en'["consola"] = "creaNodo" /\ en'["servidor"] = "libre"
    BY <2>1, EnConsola
  <2>8. TrabajaArchivo /\ NodoEnMano = {} /\ ArchivoEnMano = {a}
    BY DEF TrabajaArchivo, DeArchivo, NodoEnMano, ArchivoEnMano, Subiendo
  <2>9. TrabajaArchivo' /\ NodoEnMano' = {i} /\ ArchivoEnMano' = {a}
    BY <2>6, <2>7 DEF TrabajaArchivo, DeArchivo, NodoEnMano, ArchivoEnMano, Subiendo
  <2>10. /\ Guardados(mongoNodos, nodos, {}) /\ Completo(mongoArchivos, archivos, {a})
         /\ ~archivos[a].colgado
    BY <2>8 DEF BaseDia, AlDia
  <2>11. Completo(mongoArchivos', archivos', {a})
    <3>1. DOMAIN archivos' = DOMAIN archivos /\ \A d \in DOMAIN archivos \ {a} : archivos'[d] = archivos[d]
      BY <2>4
    <3>2. Completo(mongoArchivos, archivos', {a})
      BY <2>10, <3>1, CambiaCompleto
    <3>. QED
      BY <3>2
  <2>12. Guardados(mongoNodos', nodos', {i})
    <3>1. NodosReflejados(mongoNodos, nodos, {}) /\ Servidores(nodos)
      BY AlDiaLibre DEF BaseDia
    <3>2. Guardados(mongoNodos', nodos, {i})
      BY <2>1, <2>2, <2>3, <2>10, <3>1, SinNodoGuarda
    <3>. QED
      BY <2>1, <3>2 DEF Guardados
  <2>13. ~archivos'[mano'["consola"].arch].colgado
    BY <2>2, <2>4, <2>5, <2>6, <2>10
  <2>. QED
    BY <2>7, <2>9, <2>11, <2>12, <2>13, DiaSigue
<1>. QED
  BY <1>1, <1>2

LEMMA DiaLibera ==
  ASSUME BaseDia, Libera \/ Quita
  PROVE  AlDia'
<1>. DEFINE a == mano["consola"].arch
<1>1. /\ vivo /\ en["consola"] \in DeArchivo /\ UNCHANGED mongoArchivos
  BY DEF Libera, Quita, DeArchivo
<1>2. CASE Quita
  BY <1>1, <1>2, DiaQuitaCopia DEF Quita
<1>3. CASE Libera /\ ConCopias(a) # 0
  BY <1>1, <1>3, DiaQuitaCopia DEF Libera
<1>4. CASE Libera /\ ConCopias(a) = 0
  <2>1. /\ archivos' = [archivos EXCEPT ![a].colgado = TRUE, ![a].bloques = <<>>]
        /\ en' = [en EXCEPT !["consola"] = "libre"]
        /\ UNCHANGED <<nodos, mongoNodos>>
    BY <1>4 DEF Libera
  <2>2. a \in 1..Len(archivos) /\ archivos \in Seq(UnArchivo)
    BY <1>1, TieneLaConsola DEF BaseDia, Base, TipoInv, ConsolaOK
  <2>3. en'["consola"] = "libre" /\ en'["servidor"] = "libre"
    BY <2>1, EnConsola
  <2>4. NodoEnMano = {} /\ ArchivoEnMano = {a}
    BY <1>1 DEF TrabajaArchivo, DeArchivo, NodoEnMano, ArchivoEnMano, Subiendo
  <2>5. ~TrabajaArchivo' /\ NodoEnMano' = {} /\ ArchivoEnMano' = {}
    BY <2>3 DEF TrabajaArchivo, DeArchivo, NodoEnMano, ArchivoEnMano, Subiendo
  <2>6. /\ Guardados(mongoNodos, nodos, {}) /\ Completo(mongoArchivos, archivos, {a})
    BY <1>1, <2>4 DEF BaseDia, AlDia
  <2>. HIDE DEF a
  <2>7. archivos[a] \in UnArchivo
    BY <2>2
  <2>8. /\ DOMAIN archivos' = DOMAIN archivos /\ archivos'[a].colgado
        /\ \A k \in DOMAIN archivos \ {a} : archivos'[k] = archivos[k]
    <3>. DEFINE y == [[archivos[a] EXCEPT !.colgado = TRUE] EXCEPT !.bloques = <<>>]
    <3>1. y.colgado
      BY <2>7 DEF UnArchivo
    <3>2. archivos' = [archivos EXCEPT ![a] = y]
      BY <2>1, <2>2
    <3>. HIDE DEF y
    <3>. QED
      BY <2>2, <3>1, <3>2
  <2>9. Completo(mongoArchivos, archivos', {})
    BY <2>6, <2>8, CambiaCompleto
  <2>. QED
    BY <1>1, <2>1, <2>3, <2>5, <2>6, <2>9, DiaSigue
<1>. QED
  BY <1>2, <1>3, <1>4

-----------------------------------------------------------------------------
(* Uploads, of the console.                                                *)

LEMMA DiaSubirArchivo ==
  ASSUME BaseDia, NEW r, NEW e, SubirArchivo(r, e)
  PROVE  AlDia'
<1>. DEFINE x == ArchivoNuevo(r, e)
            n == Len(archivos) + 1
<1>1. /\ Puede("consola") /\ archivos' = Append(archivos, x) /\ archivo' = n
      /\ en' = [en EXCEPT !["consola"] = "bloque"]
      /\ UNCHANGED <<nodos, mongoNodos, mongoArchivos>>
  BY DEF SubirArchivo, ElNuevo, mongo
<1>2. /\ vivo /\ Guardados(mongoNodos, nodos, {}) /\ Completo(mongoArchivos, archivos, {})
  BY <1>1, ConsolaLibre
<1>3. en'["consola"] = "bloque" /\ en'["servidor"] = "libre"
  BY <1>1, EnConsola
<1>4. ~TrabajaArchivo' /\ NodoEnMano' = {} /\ ArchivoEnMano' = {n}
  BY <1>1, <1>3 DEF TrabajaArchivo, DeArchivo, NodoEnMano, ArchivoEnMano, Subiendo
<1>5. archivos \in Seq(UnArchivo)
  BY DEF BaseDia, Base, TipoInv, MemoriaOK
<1>. HIDE DEF x
<1>6. \A k : /\ k \in DOMAIN archivos' \ {n} <=> k \in DOMAIN archivos
             /\ k \in DOMAIN archivos => archivos'[k] = archivos[k]
  BY <1>1, <1>5
<1>. HIDE DEF n
<1>7. Completo(mongoArchivos, archivos', {n})
  <2>1. \A k : /\ k \in DOMAIN archivos \ {} /\ ~archivos[k].colgado
                     <=> k \in DOMAIN archivos' \ {n} /\ ~archivos'[k].colgado
               /\ k \in DOMAIN archivos \ {} /\ ~archivos[k].colgado => archivos'[k] = archivos[k]
    BY <1>6
  <2>. QED
    BY <1>2, <2>1, CambiaCompleto
<1>. QED
  BY <1>1, <1>2, <1>3, <1>4, <1>7, DiaSigue

(* The places where an upload is, and what they have in hand.              *)
LEMMA DiaEnMano ==
  ASSUME en["consola"] \in Subiendo
  PROVE  /\ ~TrabajaArchivo /\ ArchivoEnMano = {archivo}
         /\ NodoEnMano = IF en["consola"] = "toma" THEN {mano["consola"].nodo} ELSE {}
BY DEF TrabajaArchivo, DeArchivo, NodoEnMano, ArchivoEnMano, Subiendo

LEMMA DiaEnManoPrima ==
  ASSUME en'["consola"] \in Subiendo
  PROVE  /\ ~TrabajaArchivo' /\ ArchivoEnMano' = {archivo'}
         /\ NodoEnMano' = IF en'["consola"] = "toma" THEN {mano'["consola"].nodo} ELSE {}
BY DEF TrabajaArchivo, DeArchivo, NodoEnMano, ArchivoEnMano, Subiendo

(* A step of an upload that keeps the nodes, and the other files.          *)
LEMMA DiaSubeIgual ==
  ASSUME BaseDia, vivo, en["consola"] \in Subiendo \ {"toma"},
         NEW e \in Subiendo \ {"toma"}, en' = [en EXCEPT !["consola"] = e],
         DOMAIN archivos' = DOMAIN archivos,
         \A k \in DOMAIN archivos \ {archivo} : archivos'[k] = archivos[k],
         UNCHANGED <<nodos, archivo, mongoNodos, mongoArchivos>>
  PROVE  AlDia'
<1>1. en'["consola"] = e /\ en'["servidor"] = "libre"
  BY EnConsola
<1>2. /\ Guardados(mongoNodos, nodos, {}) /\ Completo(mongoArchivos, archivos, {archivo})
  BY DiaEnMano DEF BaseDia, AlDia
<1>3. ~TrabajaArchivo' /\ ArchivoEnMano' = {archivo} /\ NodoEnMano' = {}
  BY <1>1, DiaEnManoPrima
<1>4. Completo(mongoArchivos, archivos', {archivo})
  BY <1>2, CambiaCompleto
<1>. QED
  BY <1>1, <1>2, <1>3, <1>4, DiaSigue

LEMMA DiaBloque ==
  ASSUME BaseDia, EmpiezaBloque("consola") \/ TerminaSubida("consola")
  PROVE  AlDia'
<1>1. vivo /\ en["consola"] = "bloque" /\ UNCHANGED mongoNodos
  BY DEF EmpiezaBloque, TerminaSubida, mongo
<1>2. "bloque" \in Subiendo /\ "busca" \in Subiendo /\ SinColgados(mongoArchivos)
  BY DEF Subiendo, BaseDia, AlDia
<1>3. CASE EmpiezaBloque("consola")
  <2>1. en' = [en EXCEPT !["consola"] = "busca"]
        /\ UNCHANGED <<nodos, archivos, archivo, mongoNodos, mongoArchivos>>
    BY <1>3 DEF EmpiezaBloque, mongo
  <2>. QED
    BY <1>1, <1>2, <2>1, DiaSubeIgual
<1>4. CASE Muere /\ UNCHANGED mongoArchivos
  BY <1>2, <1>4, DiaMuere
<1>5. CASE TerminaSubida("consola") /\ ~(Muere /\ UNCHANGED mongoArchivos)
  <2>1. /\ ~ArchivoPerdido /\ mongoArchivos' = Append(mongoArchivos, archivos[archivo])
        /\ en' = [en EXCEPT !["consola"] = "libre"]
        /\ UNCHANGED <<nodos, archivos, archivo>>
    BY <1>5 DEF TerminaSubida
  <2>2. /\ archivos \in Seq(UnArchivo) /\ mongoArchivos \in Seq(UnArchivo)
        /\ archivo \in 0..Len(archivos)
    BY DEF BaseDia, Base, TipoInv, MemoriaOK
  <2>3. archivo \in DOMAIN archivos /\ ~archivos[archivo].colgado
    BY <2>1, <2>2 DEF ArchivoPerdido
  <2>4. en'["consola"] = "libre" /\ en'["servidor"] = "libre"
    BY <2>1, EnConsola
  <2>5. /\ Guardados(mongoNodos, nodos, {}) /\ Completo(mongoArchivos, archivos, {archivo})
    BY <1>1, <1>2, DiaEnMano DEF BaseDia, AlDia
  <2>6. ~TrabajaArchivo' /\ NodoEnMano' = {} /\ ArchivoEnMano' = {}
    BY <2>4 DEF TrabajaArchivo, DeArchivo, NodoEnMano, ArchivoEnMano, Subiendo
  <2>7. Completo(Append(mongoArchivos, archivos[archivo]), archivos, {})
    BY <2>2, <2>3, <2>5, ConArchivoCompleto
  <2>. QED
    BY <1>1, <2>1, <2>4, <2>5, <2>6, <2>7, DiaSigue
<1>. QED
  BY <1>3, <1>4, <1>5

LEMMA DiaBusca ==
  ASSUME BaseDia, BuscaNodo("consola")
  PROVE  AlDia'
<1>1. vivo /\ en["consola"] = "busca" /\ UNCHANGED mongoArchivos
  BY DEF BuscaNodo
<1>2. /\ "bloque" \in Subiendo /\ "busca" \in Subiendo /\ "toma" \in Subiendo
      /\ SinColgados(mongoArchivos)
  BY DEF Subiendo, BaseDia, AlDia
<1>3. PICK k, i :
        \/ Muere
        \/ /\ UNCHANGED <<nodos, archivos, archivo>>
           /\ \/ en' = [en EXCEPT !["consola"] = "bloque"] /\ UNCHANGED mongoNodos
              \/ /\ i # 0 /\ \E x : i = PorNombre(x)
                 /\ en' = [en EXCEPT !["consola"] = "toma"]
                 /\ mano' = [mano EXCEPT !["consola"].lugar = k, !["consola"].nodo = i]
                 /\ mongoNodos' = SinNodo(nodos[i])
  BY DEF BuscaNodo
<1>4. CASE Muere
  BY <1>1, <1>2, <1>4, DiaMuere
<1>5. CASE /\ UNCHANGED <<nodos, archivos, archivo, mongoNodos>>
           /\ en' = [en EXCEPT !["consola"] = "bloque"]
  BY <1>1, <1>2, <1>5, DiaSubeIgual
<1>6. CASE /\ UNCHANGED <<nodos, archivos, archivo>>
           /\ i # 0 /\ \E x : i = PorNombre(x)
           /\ en' = [en EXCEPT !["consola"] = "toma"]
           /\ mano' = [mano EXCEPT !["consola"].lugar = k, !["consola"].nodo = i]
           /\ mongoNodos' = SinNodo(nodos[i])
  <2>1. /\ nodos \in Seq(UnNodo) /\ mongoNodos \in Seq(UnNodo) /\ Servidores(nodos)
        /\ NodosReflejados(mongoNodos, nodos, {}) /\ mano \in [Hilo -> Mano]
        /\ "consola" \in Hilo
    BY <1>1, AlDiaLibre, TieneLaConsola DEF BaseDia, Base
  <2>2. i \in DOMAIN nodos
    <3>1. i \in 0..Len(nodos)
      BY <1>6, <2>1, NodoBuscado
    <3>. QED
      BY <1>6, <2>1, <3>1
  <2>3. mano'["consola"].nodo = i
    BY <1>6, <2>1 DEF Mano
  <2>4. en'["consola"] = "toma" /\ en'["servidor"] = "libre"
    BY <1>6, EnConsola
  <2>5. /\ Guardados(mongoNodos, nodos, {}) /\ Completo(mongoArchivos, archivos, {archivo})
    BY <1>1, <1>2, DiaEnMano DEF BaseDia, AlDia
  <2>6. ~TrabajaArchivo' /\ NodoEnMano' = {i} /\ ArchivoEnMano' = {archivo}
    BY <1>2, <1>6, <2>3, <2>4, DiaEnManoPrima
  <2>7. Guardados(mongoNodos', nodos, {i})
    BY <1>6, <2>1, <2>2, <2>5, SinNodoGuarda
  <2>. QED
    BY <1>1, <1>6, <2>4, <2>5, <2>6, <2>7, DiaSigue
<1>. QED
  BY <1>3, <1>4, <1>5, <1>6

LEMMA DiaToma ==
  ASSUME BaseDia, TipoInv', TomaBloque("consola")
  PROVE  AlDia'
<1>. DEFINE i == mano["consola"].nodo
            x == Toma(nodos[i])
<1>1. vivo /\ en["consola"] = "toma" /\ UNCHANGED mongoArchivos
  BY DEF TomaBloque
<1>2. /\ "toma" \in Subiendo /\ "manda" \in Subiendo
      /\ SinColgados(mongoArchivos)
  BY DEF Subiendo, BaseDia, AlDia
<1>3. CASE Muere
  BY <1>1, <1>2, <1>3, DiaMuere
<1>4. CASE ~Muere
  <2>1. /\ nodos' = [nodos EXCEPT ![i] = x] /\ mongoNodos' = Append(mongoNodos, x)
        /\ en' = [en EXCEPT !["consola"] = "manda"] /\ UNCHANGED <<archivos, archivo>>
    BY <1>4 DEF TomaBloque
  <2>2. /\ nodos \in Seq(UnNodo) /\ mongoNodos \in Seq(UnNodo) /\ nodos' \in Seq(UnNodo)
    BY DEF BaseDia, Base, TipoInv, MemoriaOK
  <2>3. i \in DOMAIN nodos
    BY <1>1 DEF BaseDia, Base, ReplicasInv, SubidaSana, Elegido, Hilo
  <2>4. en'["consola"] = "manda" /\ en'["servidor"] = "libre"
    BY <2>1, EnConsola
  <2>5. /\ Guardados(mongoNodos, nodos, {i}) /\ Completo(mongoArchivos, archivos, {archivo})
    BY <1>1, <1>2, DiaEnMano DEF BaseDia, AlDia
  <2>6. ~TrabajaArchivo' /\ NodoEnMano' = {} /\ ArchivoEnMano' = {archivo}
    BY <1>2, <2>1, <2>4, DiaEnManoPrima
  <2>. HIDE DEF i, x
  <2>7. /\ DOMAIN nodos' = DOMAIN nodos /\ x = nodos'[i] /\ x \in UnNodo
        /\ \A k \in DOMAIN nodos \ {i} : nodos'[k] = nodos[k]
    BY <2>1, <2>2, <2>3
  <2>8. Guardados(Append(mongoNodos, x), nodos', {})
    BY <2>2, <2>5, <2>7, ConNodoGuarda
  <2>. QED
    BY <1>1, <2>1, <2>4, <2>5, <2>6, <2>8, DiaSigue
<1>. QED
  BY <1>3, <1>4

LEMMA DiaManda ==
  ASSUME BaseDia, MandaCopia("consola")
  PROVE  AlDia'
<1>. DEFINE b == [mano["consola"].bloque EXCEPT !.copias = Append(@, mano["consola"].copia)]
<1>1. vivo /\ en["consola"] = "manda" /\ UNCHANGED <<mongoNodos, mongoArchivos>>
  BY DEF MandaCopia, mongo
<1>2. /\ "bloque" \in Subiendo /\ "busca" \in Subiendo /\ "manda" \in Subiendo
      /\ SinColgados(mongoArchivos) /\ archivos \in Seq(UnArchivo)
  BY DEF Subiendo, BaseDia, AlDia, Base, TipoInv, MemoriaOK
<1>3. \/ Muere
      \/ /\ en' = [en EXCEPT !["consola"] = "busca"] /\ UNCHANGED <<nodos, archivos, archivo>>
      \/ /\ archivos' = [archivos EXCEPT ![archivo].bloques = Append(@, b)]
         /\ en' = [en EXCEPT !["consola"] = "bloque"] /\ UNCHANGED <<nodos, archivo>>
  BY DEF MandaCopia
<1>. HIDE DEF b
<1>4. CASE Muere
  BY <1>1, <1>2, <1>4, DiaMuere
<1>5. CASE en' = [en EXCEPT !["consola"] = "busca"] /\ UNCHANGED <<nodos, archivos, archivo>>
  BY <1>1, <1>2, <1>5, DiaSubeIgual
<1>6. CASE /\ archivos' = [archivos EXCEPT ![archivo].bloques = Append(@, b)]
           /\ en' = [en EXCEPT !["consola"] = "bloque"] /\ UNCHANGED <<nodos, archivo>>
  <2>1. /\ DOMAIN archivos' = DOMAIN archivos
        /\ \A k \in DOMAIN archivos \ {archivo} : archivos'[k] = archivos[k]
    BY <1>6
  <2>. QED
    BY <1>1, <1>2, <1>6, <2>1, DiaSubeIgual
<1>. QED
  BY <1>3, <1>4, <1>5, <1>6

-----------------------------------------------------------------------------

LEMMA DiaPaso ==
  ASSUME BaseDia, TipoInv', [Next]_vars
  PROVE  AlDia'
<1>1. CASE ConsolaPaso
  <2>1. ~Formatear /\ ~FormateaNodos
    BY DEF Formatear, FormateaNodos, BaseDia, SoloConsola, Base, UsosInv, Registro
  <2>2. CASE (\E n \in Nodo : AgregarNodo(n)) \/ (\E i \in DOMAIN nodos : EliminarNodo(i))
    BY <2>2, DiaOrdenaNodo
  <2>3. CASE CreaNodo
    BY <2>3, DiaCreaNodo
  <2>4. CASE \E r \in Ruta, e \in Envio : SubirArchivo(r, e)
    BY <2>4, DiaSubirArchivo
  <2>5. CASE \/ \E r, nueva \in Ruta : Renombrar(r, nueva)
             \/ \E r \in Ruta : EliminarArchivo(r)
             \/ \E r \in Ruta, b, c \in Respuesta : BorrarBloque(r, b, c)
             \/ LeeLiberado
    BY <2>5, DiaOrdena
  <2>6. CASE CreaArchivo
    BY <2>6, DiaCreaArchivo
  <2>7. CASE Libera \/ Quita
    BY <2>7, DiaLibera
  <2>. QED
    BY <1>1, <2>1, <2>2, <2>3, <2>4, <2>5, <2>6, <2>7 DEF ConsolaPaso
<1>2. CASE ServidorPaso
  <2>1. ~\E r \in Ruta : SubirResultado(r)
    BY DEF SubirResultado, BaseDia, SoloConsola
  <2>. QED
    BY <1>2, <2>1, DiaLlegada DEF ServidorPaso
<1>3. ASSUME NEW h \in Hilo, SubidaPaso(h)
      PROVE  AlDia'
  <2>1. en[h] # "libre"
    BY <1>3 DEF SubidaPaso, EmpiezaBloque, TerminaSubida, BuscaNodo, TomaBloque, MandaCopia
  <2>2. h = "consola"
    BY <2>1 DEF BaseDia, AlDia, Hilo
  <2>. QED
    BY <1>3, <2>2, DiaBloque, DiaBusca, DiaToma, DiaManda DEF SubidaPaso
<1>4. CASE Caida \/ \E h \in Hilo : NodoNoAtiende(h)
  <2>1. Muere /\ UNCHANGED mongoArchivos
    BY <1>4 DEF Caida, NodoNoAtiende, mongo
  <2>. QED
    BY <2>1, DiaMuere DEF BaseDia, AlDia
<1>5. CASE Arranca
  BY <1>5, DiaArranca
<1>6. CASE UNCHANGED vars
  <2>1. UNCHANGED <<nodos, archivos, archivo, en, mano, mongoNodos, mongoArchivos, vivo>>
    BY <1>6 DEF vars, memoria, mongo
  <2>2. /\ TrabajaArchivo' <=> TrabajaArchivo
        /\ NodoEnMano' = NodoEnMano /\ ArchivoEnMano' = ArchivoEnMano
    BY <2>1 DEF TrabajaArchivo, NodoEnMano, ArchivoEnMano
  <2>. QED
    BY <2>1, <2>2 DEF BaseDia, AlDia
<1>. QED
  BY <1>1, <1>2, <1>3, <1>4, <1>5, <1>6 DEF Next

LEMMA DiaSiempre ==
  ASSUME SoloConsola
  PROVE  Spec => [](Base /\ AlDia)
<1>1. Spec => []Base
  BY PrevistoSolo, UsosInvSiempre
<1>2. Base /\ AlDia /\ TipoInv' /\ [Next]_vars => AlDia'
  BY DiaPaso DEF BaseDia
<1>3. Base => TipoInv
  BY DEF Base
<1>. QED
  BY <1>1, <1>2, <1>3, DiaInit, PTL DEF Spec

(* Between two operations MongoDB holds what memory holds, no more and no  *)
(* less: for any nodes, capacity, files, uploads and bounds, whatever is   *)
(* removed, enabled again, renamed, deleted, asked for past the end or     *)
(* restarted in between, every enabled or removed node has its document    *)
(* and every file that is listed has one of its own (crear_nodo_mongo,     *)
(* crear_archivo_mongo and the borrar_* of filesystemdev.c).  The nodes    *)
(* arrive before the first upload and no node uploads results: those are   *)
(* saved before their only block is sent, and never again.                 *)
THEOREM MongoSiempreAlDia ==
  ASSUME Eventos \subseteq {"borde"}, Cardinality(Nodo) <= Letras
  PROVE  Spec => []MongoAlDia
<1>1. ASSUME Base, AlDia
      PROVE  MongoAlDia
  <2>. DEFINE I == {i \in DOMAIN nodos : nodos[i].estado # 0}
  <2>1. SUFFICES ASSUME Quieto
                 PROVE  /\ \A x : Veces(mongoNodos, DOMAIN mongoNodos, x) = Veces(nodos, I, x)
                        /\ \A x : Veces(Documentos(mongoArchivos), DOMAIN mongoArchivos, x)
                                   = Veces(Documentos(archivos), Listados, x)
    BY DEF MongoAlDia, MismosElementos
  <2>2. vivo /\ en["consola"] = "libre"
    BY <2>1 DEF Quieto, Hilo
  <2>3. NodoEnMano = {} /\ ArchivoEnMano = {}
    BY <2>2 DEF TrabajaArchivo, DeArchivo, NodoEnMano, ArchivoEnMano, Subiendo
  <2>4. /\ Guardados(mongoNodos, nodos, {}) /\ Completo(mongoArchivos, archivos, {})
        /\ NodosReflejados(mongoNodos, nodos, {}) /\ Servidores(nodos)
    BY <1>1, <2>2, <2>3, AlDiaLibre DEF AlDia
  <2>5. ASSUME NEW x
        PROVE  Veces(mongoNodos, DOMAIN mongoNodos, x) = Veces(nodos, I, x)
    <3>. DEFINE A == {d \in DOMAIN mongoNodos : mongoNodos[d] = x}
                B == {i \in I : nodos[i] = x}
    <3>1. \A d, e \in A : d = e
      BY <2>4 DEF NodosReflejados
    <3>2. \A i, j \in B : i = j
      BY <2>4 DEF Servidores
    <3>3. A = {} <=> B = {}
      BY <2>4 DEF NodosReflejados, Guardados
    <3>. HIDE DEF A, B
    <3>4. Cardinality(A) = Cardinality(B)
      BY <3>1, <3>2, <3>3, CeroOUno
    <3>. QED
      BY <3>4 DEF Veces, A, B
  <2>6. ASSUME NEW x
        PROVE  Veces(Documentos(mongoArchivos), DOMAIN mongoArchivos, x)
                 = Veces(Documentos(archivos), Listados, x)
    <3>1. {d \in DOMAIN mongoArchivos : Documentos(mongoArchivos)[d] = x}
            = Sitios(mongoArchivos, {}, x)
      BY <2>4 DEF Sitios, Completo, Documentos
    <3>2. {d \in Listados : Documentos(archivos)[d] = x} = Sitios(archivos, {}, x)
      BY DEF Sitios, Listados, Documentos
    <3>. QED
      BY <2>4, <3>1, <3>2 DEF Veces, Completo
  <2>. QED
    BY <2>5, <2>6
<1>2. SoloConsola
  BY DEF SoloConsola
<1>. QED
  BY <1>1, <1>2, DiaSiempre, PTL

-----------------------------------------------------------------------------
(* Uploads end: with three nodes a block finds a slot for each copy.       *)

Entero(a) == Len(a.bloques) = a.pedidos
Enteros == {a \in UnArchivo : Entero(a)}

(* A slot notes that it was sent block n of some file.                     *)
Noto(lugar, n) == \E q \in DOMAIN lugar.tiene : lugar.tiene[q][2] = n

(* During an upload every slot of arrayNodos is that of a node of the      *)
(* list, and nothing was sent of the blocks to come.                       *)
SitiosEnteros ==
  /\ Len(arrayNodos) = Len(nodos) /\ Len(nodos) >= 3
  /\ \A p \in DOMAIN arrayNodos :
       /\ \E i \in DOMAIN nodos : nodos[i].nombre = arrayNodos[p].nombre
       /\ \A q \in DOMAIN arrayNodos[p].tiene : arrayNodos[p].tiene[q][2] < nroBloque

(* Every block asked for is in the file, on its way or still to be sent.   *)
PorSubir ==
  Len(archivos[archivo].bloques) + Len(mano["consola"].datos)
    + (IF en["consola"] \in EnCamino THEN 1 ELSE 0) = archivos[archivo].pedidos

(* Only the slots of the nodes with a copy note the block on its way.      *)
Llevado(x) ==
  \/ \E c \in DOMAIN mano["consola"].bloque.copias : mano["consola"].bloque.copias[c].nodo = x
  \/ en["consola"] = "manda" /\ mano["consola"].copia.nodo = x

BloqueSeguido ==
  /\ mano["consola"].bloque.nro < nroBloque
  /\ Len(mano["consola"].bloque.copias) < 3
  /\ \A p \in DOMAIN arrayNodos :
       Noto(arrayNodos[p], mano["consola"].bloque.nro) => Llevado(arrayNodos[p].nombre)

Subida ==
  /\ archivo \in DOMAIN archivos /\ ~archivos[archivo].colgado
  /\ SitiosEnteros /\ PorSubir
  /\ en["consola"] \in EnCamino => BloqueSeguido

EnterosSalvo(A, O) == \A a \in DOMAIN A \ O : A[a].colgado \/ Entero(A[a])

EnterosInv ==
  caidas = 0 =>
    /\ mongoArchivos \in Seq(Enteros)
    /\ vivo => IF en["consola"] \in Subiendo
               THEN EnterosSalvo(archivos, {archivo}) /\ Subida
               ELSE EnterosSalvo(archivos, {})

BaseEntera == BaseDia /\ EnterosInv /\ Cardinality(Nodo) >= 3

-----------------------------------------------------------------------------
(* The names of the nodes are found, and those of the slots are theirs.    *)

LEMMA NombreHallado ==
  ASSUME nodos \in Seq(UnNodo), NEW i \in DOMAIN nodos, NEW x, nodos[i].nombre = x
  PROVE  PorNombre(x) \in DOMAIN nodos /\ nodos[PorNombre(x)].nombre = x
<1>. DEFINE I == {j \in 1..Len(nodos) : nodos[j].nombre = x}
<1>1. PorNombre(x) = IF I # {} THEN Min(I) ELSE 0
  BY DEF PorNombre, SelectInSeq
<1>2. I \in SUBSET Nat /\ i \in I
  OBVIOUS
<1>3. Min(I) \in I
  BY <1>2, MinEs
<1>. QED
  BY <1>1, <1>2, <1>3

(* llenarArrayDeNodos with distinct names: slot p is that of node p.       *)
LEMMA ArrayDeTodos ==
  ASSUME nodos \in Seq(UnNodo), Servidores(nodos)
  PROVE  /\ Len(ArrayLleno) = Len(nodos)
         /\ \A p \in DOMAIN ArrayLleno :
              ArrayLleno[p] = [nombre |-> nodos[p].nombre, tiene |-> <<>>]
<1>. DEFINE P == {i \in DOMAIN nodos : PorNombre(nodos[i].nombre) = i}
            A(i) == {j \in P : j <= i}
            t == ArrayLleno
            suyo(p) == CHOOSE i \in P : Cardinality(A(i)) = p
<1>1. /\ DOMAIN t = 1..Len(nodos)
      /\ t = [p \in 1..Len(nodos) |->
                IF \E i \in P : Cardinality(A(i)) = p
                THEN [Hueco EXCEPT !.nombre = nodos[suyo(p)].nombre] ELSE Hueco]
  BY DEF ArrayLleno
<1>. HIDE DEF t
<1>2. Len(nodos) \in Nat /\ DOMAIN nodos = 1..Len(nodos)
  OBVIOUS
<1>3. ASSUME NEW i \in DOMAIN nodos
      PROVE  PorNombre(nodos[i].nombre) = i
  <2>. DEFINE j == PorNombre(nodos[i].nombre)
  <2>1. j \in DOMAIN nodos /\ nodos[j].nombre = nodos[i].nombre
    BY NombreHallado
  <2>. HIDE DEF j
  <2>2. j = i
    BY <2>1 DEF Servidores
  <2>. QED
    BY <2>2 DEF j
<1>4. P = 1..Len(nodos)
  BY <1>2, <1>3
<1>. HIDE DEF P
<1>5. ASSUME NEW i \in 1..Len(nodos)
      PROVE  Cardinality(A(i)) = i
  <2>1. A(i) = 1..i
    BY <1>2, <1>4
  <2>2. Cardinality(1..i) = i
    BY <1>2, FS_Interval
  <2>. QED
    BY <2>1, <2>2
<1>. HIDE DEF A
<1>6. ASSUME NEW p \in 1..Len(nodos)
      PROVE  t[p] = [nombre |-> nodos[p].nombre, tiene |-> <<>>]
  <2>1. suyo(p) \in P /\ Cardinality(A(suyo(p))) = p
    BY <1>4, <1>5, <1>6
  <2>. HIDE DEF suyo
  <2>2. suyo(p) = p
    BY <1>4, <1>5, <2>1
  <2>3. \E i \in P : Cardinality(A(i)) = p
    BY <2>1
  <2>. QED
    BY <1>1, <1>6, <2>2, <2>3 DEF Hueco
<1>7. Len(t) = Len(nodos)
  <2>1. t \in Seq(Sitio)
    BY ArrayLlenoEs DEF t
  <2>. QED
    BY <1>1, <1>2, <2>1
<1>. QED
  BY <1>1, <1>6, <1>7 DEF t

(* buscarNodoEnArray answers -1 only if every slot was sent the block.     *)
LEMMA SitioSinHallar ==
  ASSUME NEW s \in Seq(Sitio), NEW m \in 0..Len(s), NEW a, NEW nro,
         NodoEnArray(s, m, a, nro) = 0
  PROVE  \A p \in 1..m : s[p].nombre = Nadie \/ Noto(s[p], nro)
<1>. DEFINE I == {i \in 1..m : s[i].nombre # Nadie /\ <<a.ruta, nro>> \notin ToSet(s[i].tiene)}
<1>1. NodoEnArray(s, m, a, nro) = IF I # {} THEN Min(I) ELSE 0
  BY DEF NodoEnArray, SelectInSubSeq
<1>2. I # {} => Min(I) \in I
  <2>1. I \in SUBSET Nat
    OBVIOUS
  <2>. QED
    BY <2>1, MinEs
<1>3. I = {}
  <2>. SUFFICES ASSUME I # {}
                PROVE  FALSE
    OBVIOUS
  <2>1. Min(I) = 0 /\ Min(I) \in I
    BY <1>1, <1>2
  <2>2. 0 \notin I
    OBVIOUS
  <2>. HIDE DEF I
  <2>. QED
    BY <2>1, <2>2
<1>4. ASSUME NEW p \in 1..m, s[p].nombre # Nadie
      PROVE  Noto(s[p], nro)
  <2>1. <<a.ruta, nro>> \in ToSet(s[p].tiene)
    BY <1>3, <1>4
  <2>2. PICK q \in DOMAIN s[p].tiene : s[p].tiene[q] = <<a.ruta, nro>>
    BY <2>1 DEF ToSet
  <2>3. s[p].tiene[q][2] = nro
    BY <2>2
  <2>. QED
    BY <2>3 DEF Noto
<1>. QED
  BY <1>4

(* What agregarBloqueEnArrayNodos changes.                                 *)
LEMMA AnotaSolo ==
  ASSUME NEW s \in Seq(Sitio), NEW k \in DOMAIN s, NEW a, NEW nro,
         <<a.ruta, nro>> \in Ruta \X Nat, NEW t, t = Anota(s, k, a, nro)
  PROVE  /\ t \in Seq(Sitio) /\ Len(t) = Len(s) /\ DOMAIN t = DOMAIN s
         /\ \A p \in DOMAIN s : t[p].nombre = s[p].nombre
         /\ \A p \in DOMAIN s \ {k} : t[p] = s[p]
         /\ \A q \in DOMAIN t[k].tiene : \/ t[k].tiene[q][2] = nro
                                         \/ q \in DOMAIN s[k].tiene /\ t[k].tiene[q] = s[k].tiene[q]
<1>. DEFINE e == <<a.ruta, nro>>
            y == [s[k] EXCEPT !.tiene = Append(@, e)]
<1>1. s[k] \in Sitio
  OBVIOUS
<1>2. s[k].tiene \in Seq(Ruta \X Nat) /\ s[k].nombre \in Nombre \cup {Nadie}
  BY <1>1 DEF Sitio
<1>3. t = [s EXCEPT ![k] = y]
  BY DEF Anota
<1>4. e[2] = nro /\ e \in Ruta \X Nat
  OBVIOUS
<1>. HIDE DEF e
<1>5. y.nombre = s[k].nombre /\ y.tiene = Append(s[k].tiene, e) /\ y \in Sitio
  <2>1. Append(s[k].tiene, e) \in Seq(Ruta \X Nat)
    BY <1>2, <1>4
  <2>. DEFINE w == Append(s[k].tiene, e)
  <2>2. y = [s[k] EXCEPT !.tiene = w]
    OBVIOUS
  <2>. HIDE DEF y, w
  <2>3. y.nombre = s[k].nombre /\ y.tiene = w
    BY <1>1, <2>2 DEF Sitio
  <2>4. w \in Seq(Ruta \X Nat)
    BY <2>1 DEF w
  <2>5. y \in Sitio
    BY <1>1, <2>2, <2>4 DEF Sitio
  <2>. QED
    BY <2>3, <2>5 DEF w
<1>. HIDE DEF y
<1>6. t \in Seq(Sitio) /\ Len(t) = Len(s) /\ DOMAIN t = DOMAIN s /\ t[k] = y
      /\ \A p \in DOMAIN s \ {k} : t[p] = s[p]
  BY <1>3, <1>5
<1>7. \A q \in DOMAIN y.tiene : \/ y.tiene[q] = e
                                \/ q \in DOMAIN s[k].tiene /\ y.tiene[q] = s[k].tiene[q]
  BY <1>2, <1>4, <1>5
<1>8. \A p \in DOMAIN s : t[p].nombre = s[p].nombre
  BY <1>5, <1>6
<1>. QED
  BY <1>4, <1>6, <1>7, <1>8

-----------------------------------------------------------------------------
(* The steps outside uploads.                                              *)

LEMMA EnterosInit == Init => EnterosInv
<1>. SUFFICES ASSUME Init
              PROVE  EnterosInv
  OBVIOUS
<1>1. archivos = <<>> /\ mongoArchivos = <<>> /\ en["consola"] = "libre"
  BY DEF Init, Hilo
<1>2. "libre" \notin Subiendo
  BY DEF Subiendo
<1>. QED
  BY <1>1, <1>2 DEF EnterosInv, EnterosSalvo

LEMMA EnterosMuere ==
  ASSUME Muere, caidas' = 0 => mongoArchivos' \in Seq(Enteros)
  PROVE  EnterosInv'
<1>1. vivo' = FALSE
  BY DEF Muere
<1>. QED
  BY <1>1 DEF EnterosInv

LEMMA EnterosFuera ==
  ASSUME en'["consola"] \notin Subiendo,
         caidas' = 0 => mongoArchivos' \in Seq(Enteros) /\ EnterosSalvo(archivos', {})
  PROVE  EnterosInv'
BY DEF EnterosInv

(* Documents that go, or stay.                                             *)
LEMMA EnterosSinArchivo ==
  ASSUME EnterosInv, caidas = 0
  PROVE  mongoArchivos \in Seq(Enteros) /\ \A a : SinArchivo(a) \in Seq(Enteros)
<1>1. mongoArchivos \in Seq(Enteros)
  BY DEF EnterosInv
<1>. QED
  BY <1>1, SinArchivoEs

LEMMA EnterosNodos ==
  ASSUME BaseEntera,
         \/ \E n \in Nodo : AgregarNodo(n) \/ NodoSePresenta(n) \/ NodoAgregado(n)
         \/ \E i \in DOMAIN nodos : EliminarNodo(i)
         \/ CreaNodo
  PROVE  EnterosInv'
<1>1. vivo /\ UNCHANGED <<archivos, mongoArchivos, caidas>>
  BY DEF AgregarNodo, EliminarNodo, CreaNodo, NodoSePresenta, NodoAgregado, Puede, mongo, contador
<1>2. en["consola"] \notin Subiendo /\ en'["consola"] \notin Subiendo
  <2>1. CASE (\E n \in Nodo : AgregarNodo(n)) \/ (\E i \in DOMAIN nodos : EliminarNodo(i))
    <3>1. en["consola"] = "libre"
          /\ (en' = en \/ en' = [en EXCEPT !["consola"] = "creaNodo"])
      BY <2>1 DEF AgregarNodo, EliminarNodo, Puede
    <3>2. en'["consola"] \in {"libre", "creaNodo"}
      BY <3>1, EnConsola DEF BaseEntera
    <3>. QED
      BY <3>1, <3>2 DEF Subiendo
  <2>2. CASE CreaNodo
    <3>. DEFINE e == mano["consola"].luego
    <3>1. en["consola"] = "creaNodo" /\ en' = [en EXCEPT !["consola"] = e]
      BY <2>2 DEF CreaNodo
    <3>2. mano["consola"] \in Mano
      BY TieneLaConsola DEF BaseEntera, BaseDia, Base
    <3>3. e \in {"libre", "libera", "creaArchivo"}
      BY <3>2 DEF Mano
    <3>. HIDE DEF e
    <3>4. en'["consola"] = e
      BY <3>1, EnConsola DEF BaseEntera
    <3>. QED
      BY <3>1, <3>3, <3>4 DEF Subiendo
  <2>3. CASE \E n \in Nodo : NodoSePresenta(n) \/ NodoAgregado(n)
    <3>1. UNCHANGED en
      BY <2>3 DEF NodoSePresenta, NodoAgregado
    <3>2. CASE \E n \in Nodo : NodoSePresenta(n)
      <4>1. \A h \in Hilo : en[h] = "libre"
        BY <3>2 DEF NodoSePresenta, BaseEntera, BaseDia, SoloConsola
      <4>. QED
        BY <3>1, <4>1 DEF Subiendo, Hilo
    <3>3. CASE \E n \in Nodo : NodoAgregado(n)
      <4>1. llega # {}
        BY <3>3 DEF NodoAgregado
      <4>2. \A h \in Hilo : en[h] = "libre"
        BY <4>1 DEF BaseEntera, BaseDia, Base, UsosInv, Registro, Llegadas
      <4>. QED
        BY <3>1, <4>2 DEF Subiendo, Hilo
    <3>. QED
      BY <2>3, <3>2, <3>3
  <2>. QED
    BY <2>1, <2>2, <2>3
<1>3. caidas = 0 => mongoArchivos \in Seq(Enteros) /\ EnterosSalvo(archivos, {})
  BY <1>1, <1>2 DEF BaseEntera, EnterosInv
<1>. QED
  BY <1>1, <1>2, <1>3, EnterosFuera

(* The commands on files.                                                  *)
LEMMA EnterosOrdena ==
  ASSUME BaseEntera,
         \/ \E r, nueva \in Ruta : Renombrar(r, nueva)
         \/ \E r \in Ruta : EliminarArchivo(r)
         \/ \E r \in Ruta, b, c \in Respuesta : BorrarBloque(r, b, c)
         \/ LeeLiberado
  PROVE  EnterosInv'
<1>1. Puede("consola") /\ UNCHANGED caidas
  BY DEF Renombrar, EliminarArchivo, BorrarBloque, LeeLiberado, Ordena
<1>2. vivo /\ en["consola"] = "libre" /\ en["consola"] \notin Subiendo
  BY <1>1, ConsolaLibre DEF BaseEntera, Subiendo
<1>3. caidas = 0 => EnterosSalvo(archivos, {}) /\ mongoArchivos \in Seq(Enteros)
  BY <1>2 DEF BaseEntera, EnterosInv
<1>4. caidas = 0 => \A a : SinArchivo(a) \in Seq(Enteros)
  BY EnterosSinArchivo DEF BaseEntera
<1>5. \/ UNCHANGED mongoArchivos
      \/ \E a : mongoArchivos' = SinArchivo(archivos[a])
  BY DEF Renombrar, EliminarArchivo, BorrarBloque, LeeLiberado, mongo
<1>6. caidas' = 0 => mongoArchivos' \in Seq(Enteros)
  BY <1>1, <1>3, <1>4, <1>5
<1>7. \/ Muere
      \/ /\ \E e \in DeArchivo : en' = [en EXCEPT !["consola"] = e]
         /\ \/ UNCHANGED archivos
            \/ \E a, r : archivos' = [archivos EXCEPT ![a].ruta = r]
  BY DEF Renombrar, EliminarArchivo, BorrarBloque, LeeLiberado, DeArchivo
<1>8. CASE Muere
  BY <1>6, <1>8, EnterosMuere
<1>9. CASE /\ \E e \in DeArchivo : en' = [en EXCEPT !["consola"] = e]
           /\ \/ UNCHANGED archivos
              \/ \E a, r : archivos' = [archivos EXCEPT ![a].ruta = r]
  <2>1. en'["consola"] \in DeArchivo
    BY <1>9, EnConsola DEF BaseEntera
  <2>2. en'["consola"] \notin Subiendo
    BY <2>1 DEF DeArchivo, Subiendo
  <2>3. ASSUME NEW a, NEW r, archivos' = [archivos EXCEPT ![a].ruta = r], EnterosSalvo(archivos, {})
        PROVE  EnterosSalvo(archivos', {})
    <3>1. archivos \in Seq(UnArchivo)
      BY TieneLaConsola DEF BaseEntera, BaseDia, Base
    <3>2. ASSUME NEW k \in DOMAIN archivos'
          PROVE  archivos'[k].colgado \/ Entero(archivos'[k])
      <4>1. k \in DOMAIN archivos /\ archivos[k] \in UnArchivo
        BY <2>3, <3>1
      <4>2. /\ archivos'[k].colgado = archivos[k].colgado
            /\ archivos'[k].bloques = archivos[k].bloques
            /\ archivos'[k].pedidos = archivos[k].pedidos
        BY <2>3, <4>1 DEF UnArchivo
      <4>. QED
        BY <2>3, <4>1, <4>2 DEF EnterosSalvo, Entero
    <3>. QED
      BY <3>2 DEF EnterosSalvo
  <2>4. caidas = 0 => EnterosSalvo(archivos', {})
    BY <1>3, <1>9, <2>3
  <2>. QED
    BY <1>1, <1>6, <2>2, <2>4, EnterosFuera
<1>. QED
  BY <1>7, <1>8, <1>9

(* A copy leaves its block: the file has as many blocks.                   *)
LEMMA EnterosQuitaCopia ==
  ASSUME BaseEntera, NEW a, NEW b, NEW c, NEW luego \in {"libera", "creaArchivo"}, vivo,
         en["consola"] \in DeArchivo, mano["consola"].arch = a, QuitaCopia(a, b, c, luego),
         UNCHANGED <<mongoArchivos, caidas>>
  PROVE  EnterosInv'
<1>. DEFINE bl == [archivos[a].bloques EXCEPT ![b].copias = RemoveAt(@, c)]
            k == [archivos[a] EXCEPT !.bloques = bl]
<1>1. en["consola"] \notin Subiendo
  BY DEF DeArchivo, Subiendo
<1>2. caidas = 0 => mongoArchivos \in Seq(Enteros) /\ EnterosSalvo(archivos, {})
  BY <1>1 DEF BaseEntera, EnterosInv
<1>3. CASE Muere
  BY <1>2, <1>3, EnterosMuere
<1>4. CASE ~Muere
  <2>1. /\ archivos' = [archivos EXCEPT ![a].bloques[b].copias = RemoveAt(@, c)]
        /\ en' = [en EXCEPT !["consola"] = "creaNodo"]
    BY <1>4 DEF QuitaCopia
  <2>2. a \in DOMAIN archivos /\ archivos \in Seq(UnArchivo)
    BY TieneLaConsola DEF BaseEntera, BaseDia, Base, TipoInv, ConsolaOK
  <2>3. archivos[a] \in UnArchivo
    BY <2>2
  <2>4. archivos[a].bloques \in Seq(UnBloque)
    BY <2>3 DEF UnArchivo
  <2>5. archivos' = [archivos EXCEPT ![a] = k]
    BY <2>1
  <2>6. Len(bl) = Len(archivos[a].bloques)
    BY <2>4
  <2>. HIDE DEF bl
  <2>7. k.colgado = archivos[a].colgado /\ k.pedidos = archivos[a].pedidos /\ k.bloques = bl
    BY <2>3 DEF UnArchivo
  <2>. HIDE DEF k
  <2>8. ASSUME EnterosSalvo(archivos, {})
        PROVE  EnterosSalvo(archivos', {})
    BY <2>2, <2>5, <2>6, <2>7, <2>8 DEF EnterosSalvo, Entero
  <2>9. en'["consola"] = "creaNodo"
    BY <2>1, EnConsola DEF BaseEntera
  <2>10. en'["consola"] \notin Subiendo
    BY <2>9 DEF Subiendo
  <2>. QED
    BY <1>2, <2>8, <2>10, EnterosFuera
<1>. QED
  BY <1>3, <1>4

LEMMA EnterosLibera ==
  ASSUME BaseEntera, Libera \/ Quita \/ CreaArchivo
  PROVE  EnterosInv'
<1>. DEFINE a == mano["consola"].arch
<1>1. vivo /\ en["consola"] \in DeArchivo /\ UNCHANGED caidas
  BY DEF Libera, Quita, CreaArchivo, DeArchivo, contador
<1>2. a \in DOMAIN archivos /\ archivos \in Seq(UnArchivo) /\ archivos[a] \in UnArchivo
  BY <1>1, TieneLaConsola DEF BaseEntera, BaseDia, Base, TipoInv, ConsolaOK
<1>3. en["consola"] \notin Subiendo /\ "libre" \notin Subiendo
  BY <1>1 DEF DeArchivo, Subiendo
<1>4. caidas = 0 => mongoArchivos \in Seq(Enteros) /\ EnterosSalvo(archivos, {})
  BY <1>1, <1>3 DEF BaseEntera, EnterosInv
<1>5. CASE Quita
  BY <1>1, <1>5, EnterosQuitaCopia DEF Quita, contador
<1>6. CASE Libera /\ ConCopias(a) # 0
  BY <1>1, <1>6, EnterosQuitaCopia DEF Libera, contador
<1>7. CASE Libera /\ ConCopias(a) = 0
  <2>1. /\ archivos' = [archivos EXCEPT ![a].colgado = TRUE, ![a].bloques = <<>>]
        /\ en' = [en EXCEPT !["consola"] = "libre"]
        /\ UNCHANGED mongoArchivos
    BY <1>7 DEF Libera
  <2>. HIDE DEF a
  <2>2. /\ DOMAIN archivos' = DOMAIN archivos /\ archivos'[a].colgado
        /\ \A k \in DOMAIN archivos \ {a} : archivos'[k] = archivos[k]
    BY <1>2, <2>1 DEF UnArchivo
  <2>3. ASSUME EnterosSalvo(archivos, {})
        PROVE  EnterosSalvo(archivos', {})
    BY <2>2, <2>3 DEF EnterosSalvo
  <2>4. en'["consola"] = "libre"
    BY <2>1, EnConsola DEF BaseEntera
  <2>. QED
    BY <1>1, <1>3, <1>4, <2>1, <2>3, <2>4, EnterosFuera
<1>8. CASE CreaArchivo
  <2>1. /\ en["consola"] = "creaArchivo" /\ mongoArchivos' = Append(mongoArchivos, archivos[a])
        /\ en' = [en EXCEPT !["consola"] = "libre"]
        /\ UNCHANGED archivos
    BY <1>8 DEF CreaArchivo
  <2>2. TrabajaArchivo
    BY <2>1 DEF TrabajaArchivo, DeArchivo
  <2>3. ~archivos[a].colgado
    BY <1>1, <2>2 DEF BaseEntera, BaseDia, AlDia
  <2>. HIDE DEF a
  <2>4. caidas = 0 => archivos[a] \in Enteros
    BY <1>2, <1>4, <2>3 DEF EnterosSalvo, Enteros
  <2>5. caidas = 0 => mongoArchivos' \in Seq(Enteros)
    BY <1>4, <2>1, <2>4
  <2>6. en'["consola"] = "libre"
    BY <2>1, EnConsola DEF BaseEntera
  <2>. QED
    BY <1>1, <1>3, <1>4, <2>1, <2>5, <2>6, EnterosFuera
<1>. QED
  BY <1>5, <1>6, <1>7, <1>8

LEMMA EnterosArranca ==
  ASSUME BaseEntera, Arranca
  PROVE  EnterosInv'
<1>1. /\ ~vivo /\ archivos' = mongoArchivos /\ UNCHANGED <<en, mongoArchivos, caidas>>
  BY DEF Arranca, mongo, contador
<1>2. en'["consola"] = "libre"
  BY <1>1 DEF BaseEntera, BaseDia, Base, Muerto, Hilo
<1>3. en'["consola"] \notin Subiendo
  BY <1>2 DEF Subiendo
<1>4. ASSUME mongoArchivos \in Seq(Enteros)
      PROVE  EnterosSalvo(mongoArchivos, {})
  BY <1>4 DEF EnterosSalvo, Enteros
<1>5. caidas = 0 => mongoArchivos \in Seq(Enteros)
  BY DEF BaseEntera, EnterosInv
<1>. QED
  BY <1>1, <1>3, <1>4, <1>5, EnterosFuera

LEMMA EnterosCaida ==
  ASSUME BaseEntera, Caida \/ \E h \in Hilo : NodoNoAtiende(h)
  PROVE  EnterosInv'
<1>1. Muere /\ caidas' = caidas + 1 /\ caidas \in Nat
  BY DEF Caida, NodoNoAtiende, BaseEntera, BaseDia, Base, UsosInv, Registro
<1>. QED
  BY <1>1, EnterosMuere

-----------------------------------------------------------------------------
(* The steps of an upload.                                                 *)

LEMMA EnterosSube ==
  ASSUME en'["consola"] \in Subiendo,
         caidas' = 0 => /\ mongoArchivos' \in Seq(Enteros)
                        /\ EnterosSalvo(archivos', {archivo'}) /\ Subida'
  PROVE  EnterosInv'
BY DEF EnterosInv

LEMMA EnterosSubir ==
  ASSUME BaseEntera, NEW r \in Ruta, NEW e \in Envio, SubirArchivo(r, e)
  PROVE  EnterosInv'
<1>. DEFINE x == ArchivoNuevo(r, e)
            n == Len(archivos) + 1
<1>1. /\ Puede("consola") /\ Formado /\ archivos' = Append(archivos, x) /\ archivo' = n
      /\ arrayNodos' = ArrayLleno /\ nroBloque' = 0
      /\ en' = [en EXCEPT !["consola"] = "bloque"]
      /\ mano' = [mano EXCEPT !["consola"].datos = Datos(e.bloques)]
      /\ UNCHANGED <<nodos, mongoArchivos, caidas>>
  BY DEF SubirArchivo, ElNuevo, mongo
<1>2. /\ vivo /\ en["consola"] = "libre" /\ en["consola"] \notin Subiendo
  BY <1>1, ConsolaLibre DEF BaseEntera, Subiendo
<1>3. en'["consola"] = "bloque" /\ en'["consola"] \in Subiendo /\ en'["consola"] \notin EnCamino
  BY <1>1, EnConsola DEF BaseEntera, Subiendo, EnCamino
<1>4. caidas = 0 => EnterosSalvo(archivos, {}) /\ mongoArchivos \in Seq(Enteros)
  BY <1>2 DEF BaseEntera, EnterosInv
<1>5. /\ archivos \in Seq(UnArchivo) /\ nodos \in Seq(UnNodo) /\ mano \in [Hilo -> Mano]
      /\ "consola" \in Hilo
  BY TieneLaConsola DEF BaseEntera, BaseDia, Base
<1>6. /\ x.bloques = <<>> /\ x.pedidos = e.bloques /\ ~x.colgado /\ e.bloques \in Nat
  BY MDFSAssumption DEF ArchivoNuevo
<1>. HIDE DEF x
<1>7. /\ n \in DOMAIN archivos' /\ archivos'[n] = x
      /\ \A k \in DOMAIN archivos' \ {n} : k \in DOMAIN archivos /\ archivos'[k] = archivos[k]
  BY <1>1, <1>5
<1>. HIDE DEF n
<1>8. caidas = 0 => EnterosSalvo(archivos', {archivo'})
  BY <1>1, <1>4, <1>7 DEF EnterosSalvo
<1>9. mano'["consola"].datos = Datos(e.bloques) /\ Len(Datos(e.bloques)) = e.bloques
  <2>1. mano'["consola"].datos = Datos(e.bloques)
    BY <1>1, <1>5 DEF Mano
  <2>. QED
    BY <1>6, <2>1 DEF Datos
<1>10. PorSubir'
  <2>1. Len(x.bloques) = 0
    BY <1>6
  <2>2. Len(x.bloques) + Len(Datos(e.bloques)) + 0 = x.pedidos
    BY <1>6, <1>9, <2>1
  <2>. QED
    BY <1>1, <1>3, <1>7, <1>9, <2>2 DEF PorSubir
<1>11. /\ Len(ArrayLleno) = Len(nodos)
       /\ \A p \in DOMAIN ArrayLleno :
            ArrayLleno[p] = [nombre |-> nodos[p].nombre, tiene |-> <<>>]
  <2>1. Servidores(nodos)
    BY <1>2, AlDiaLibre DEF BaseEntera, BaseDia
  <2>. QED
    BY <1>5, <2>1, ArrayDeTodos
<1>12. caidas = 0 => Len(nodos) >= 3
  <2>1. "altaTardia" \notin Eventos
    BY DEF BaseEntera, BaseDia, SoloConsola
  <2>. QED
    BY <1>1, <2>1 DEF Formado, BaseEntera
<1>13. caidas = 0 => SitiosEnteros'
  <2>1. DOMAIN ArrayLleno = DOMAIN nodos
    BY DEF ArrayLleno
  <2>2. ASSUME NEW p \in DOMAIN ArrayLleno
        PROVE  /\ \E i \in DOMAIN nodos : nodos[i].nombre = ArrayLleno[p].nombre
               /\ \A q \in DOMAIN ArrayLleno[p].tiene : ArrayLleno[p].tiene[q][2] < nroBloque'
    BY <1>11, <2>1, <2>2
  <2>. QED
    BY <1>1, <1>11, <1>12, <2>2 DEF SitiosEnteros
<1>14. caidas = 0 => Subida'
  BY <1>1, <1>3, <1>6, <1>7, <1>10, <1>13 DEF Subida
<1>. QED
  BY <1>1, <1>3, <1>4, <1>8, <1>14, EnterosSube

(* What is known of an upload while nothing crashed.                       *)
LEMMA EnSubidaEntera ==
  ASSUME BaseEntera, vivo, en["consola"] \in Subiendo
  PROVE  /\ archivo \in DOMAIN archivos /\ archivos[archivo] \in UnArchivo
         /\ mano \in [Hilo -> Mano] /\ mano["consola"] \in Mano /\ "consola" \in Hilo
         /\ archivos \in Seq(UnArchivo) /\ nodos \in Seq(UnNodo) /\ arrayNodos \in Seq(Sitio)
         /\ caidas \in Nat /\ nroBloque \in Nat /\ SitiosUnicos(arrayNodos)
         /\ caidas = 0 => /\ mongoArchivos \in Seq(Enteros)
                          /\ EnterosSalvo(archivos, {archivo}) /\ Subida
<1>1. "consola" \in Hilo
  BY DEF Hilo
<1>2. Base
  BY DEF BaseEntera, BaseDia
<1>3. TipoInv /\ SitiosUnicos(arrayNodos)
  BY <1>2 DEF Base, ReplicasInv
<1>4. arrayNodos \in Seq(Sitio) /\ nroBloque \in Nat
  BY <1>3 DEF TipoInv, MemoriaOK
<1>5. caidas = 0 => /\ mongoArchivos \in Seq(Enteros)
                    /\ EnterosSalvo(archivos, {archivo}) /\ Subida
  BY DEF BaseEntera, EnterosInv
<1>. QED
  BY <1>1, <1>2, <1>3, <1>4, <1>5, EnSubida, TieneLaConsola

LEMMA EnterosBloque ==
  ASSUME BaseEntera, EmpiezaBloque("consola") \/ TerminaSubida("consola")
  PROVE  EnterosInv'
<1>1. vivo /\ en["consola"] = "bloque" /\ UNCHANGED caidas
  BY DEF EmpiezaBloque, TerminaSubida, contador
<1>2. /\ en["consola"] \in Subiendo /\ en["consola"] \notin EnCamino
      /\ "busca" \in Subiendo /\ "busca" \in EnCamino /\ "libre" \notin Subiendo
  BY <1>1 DEF Subiendo, EnCamino
<1>3. /\ archivo \in DOMAIN archivos /\ archivos[archivo] \in UnArchivo
      /\ mano \in [Hilo -> Mano] /\ mano["consola"] \in Mano /\ "consola" \in Hilo
      /\ nroBloque \in Nat
      /\ caidas = 0 => /\ mongoArchivos \in Seq(Enteros)
                       /\ EnterosSalvo(archivos, {archivo}) /\ Subida
  BY <1>1, <1>2, EnSubidaEntera
<1>4. mano["consola"].datos \in Seq(Seq(Nat)) /\ archivos[archivo].bloques \in Seq(UnBloque)
      /\ archivos[archivo].pedidos \in Nat
  BY <1>3 DEF Mano, UnArchivo
<1>5. CASE EmpiezaBloque("consola")
  <2>. DEFINE b == [nro |-> nroBloque, dato |-> Head(mano["consola"].datos), copias |-> <<>>]
              m == [mano["consola"] EXCEPT !.bloque = b, !.datos = Tail(@)]
  <2>1. /\ mano["consola"].datos # <<>>
        /\ mano' = [mano EXCEPT !["consola"].bloque = b, !["consola"].datos = Tail(@)]
        /\ nroBloque' = nroBloque + 1 /\ en' = [en EXCEPT !["consola"] = "busca"]
        /\ UNCHANGED <<nodos, archivos, archivo, arrayNodos, mongoArchivos>>
    BY <1>5 DEF EmpiezaBloque, mongo
  <2>2. mano' = [mano EXCEPT !["consola"] = m]
    BY <1>3, <2>1
  <2>3. m.bloque = b /\ m.datos = Tail(mano["consola"].datos)
    BY <1>3 DEF Mano
  <2>4. b.nro = nroBloque /\ b.copias = <<>>
    OBVIOUS
  <2>. HIDE DEF b, m
  <2>5. mano'["consola"] = m
    BY <1>3, <2>2
  <2>6. en'["consola"] = "busca"
    BY <2>1, EnConsola DEF BaseEntera
  <2>7. Len(m.datos) + 1 = Len(mano["consola"].datos) /\ Len(m.datos) \in Nat
    BY <1>4, <2>1, <2>3
  <2>8. ASSUME Subida
        PROVE  Subida'
    <3>1. SitiosEnteros /\ PorSubir /\ ~archivos[archivo].colgado
      BY <2>8 DEF Subida
    <3>2. PorSubir'
      <4>1. Len(archivos[archivo].bloques) + Len(mano["consola"].datos) + 0 = archivos[archivo].pedidos
        BY <1>2, <3>1 DEF PorSubir
      <4>2. Len(archivos[archivo].bloques) + Len(m.datos) + 1 = archivos[archivo].pedidos
        <5>1. Len(archivos[archivo].bloques) \in Nat
          BY <1>4
        <5>2. \A v, w, z : v \in Nat /\ w \in Nat /\ z = w + 1 => v + w + 1 = v + z + 0
          OBVIOUS
        <5>. QED
          BY <2>7, <4>1, <5>1, <5>2
      <4>. QED
        BY <1>2, <2>1, <2>5, <2>6, <4>2 DEF PorSubir
    <3>3. ASSUME NEW p \in DOMAIN arrayNodos, NEW q \in DOMAIN arrayNodos[p].tiene
          PROVE  /\ arrayNodos[p].tiene[q][2] < nroBloque + 1
                 /\ arrayNodos[p].tiene[q][2] # nroBloque
      <4>1. arrayNodos[p].tiene[q][2] < nroBloque
        BY <3>1 DEF SitiosEnteros
      <4>2. arrayNodos \in Seq(Sitio)
        BY <1>1, <1>2, EnSubidaEntera
      <4>3. arrayNodos[p] \in Sitio
        BY <4>2
      <4>4. arrayNodos[p].tiene \in Seq(Ruta \X Nat)
        BY <4>3 DEF Sitio
      <4>5. arrayNodos[p].tiene[q] \in Ruta \X Nat
        BY <4>4
      <4>6. arrayNodos[p].tiene[q][2] \in Nat
        BY <4>5
      <4>. QED
        BY <1>3, <4>1, <4>6
    <3>4. SitiosEnteros'
      BY <2>1, <3>1, <3>3 DEF SitiosEnteros
    <3>5. \A p \in DOMAIN arrayNodos : ~Noto(arrayNodos[p], nroBloque)
      BY <3>3 DEF Noto
    <3>6. BloqueSeguido'
      BY <1>3, <2>1, <2>3, <2>4, <2>5, <3>5 DEF BloqueSeguido
    <3>. QED
      BY <1>3, <2>1, <3>1, <3>2, <3>4, <3>6 DEF Subida
  <2>. QED
    BY <1>1, <1>2, <1>3, <2>1, <2>6, <2>8, EnterosSube
<1>6. CASE Muere /\ UNCHANGED mongoArchivos
  BY <1>1, <1>3, <1>6, EnterosMuere
<1>7. CASE TerminaSubida("consola") /\ ~(Muere /\ UNCHANGED mongoArchivos)
  <2>1. /\ mano["consola"].datos = <<>>
        /\ mongoArchivos' = Append(mongoArchivos, archivos[archivo])
        /\ en' = [en EXCEPT !["consola"] = "libre"] /\ UNCHANGED archivos
    BY <1>7 DEF TerminaSubida
  <2>2. caidas = 0 => archivos[archivo] \in Enteros
    <3>1. caidas = 0 => Len(archivos[archivo].bloques) + 0 + 0 = archivos[archivo].pedidos
      BY <1>2, <1>3, <2>1 DEF Subida, PorSubir
    <3>2. caidas = 0 => Len(archivos[archivo].bloques) = archivos[archivo].pedidos
      BY <1>4, <3>1
    <3>. QED
      BY <1>3, <3>2 DEF Enteros, Entero
  <2>3. en'["consola"] = "libre"
    BY <2>1, EnConsola DEF BaseEntera
  <2>4. caidas = 0 => EnterosSalvo(archivos, {})
    BY <1>3, <2>2 DEF EnterosSalvo, Enteros
  <2>5. caidas = 0 => Append(mongoArchivos, archivos[archivo]) \in Seq(Enteros)
    BY <1>3, <2>2
  <2>. QED
    BY <1>1, <1>2, <2>1, <2>3, <2>4, <2>5, EnterosFuera
<1>. QED
  BY <1>5, <1>6, <1>7

(* Fewer than three copies leave one of three slots without the block.     *)
LEMMA QuedaSitio ==
  ASSUME NEW s, NEW n \in Nat, n >= 3, SitiosUnicos(s), DOMAIN s = 1..n,
         NEW k \in Seq(UnaCopia), Len(k) < 3,
         \A p \in 1..n : s[p].nombre # Nadie
  PROVE  \E p \in 1..n : \A c \in DOMAIN k : k[c].nodo # s[p].nombre
<1>. SUFFICES ASSUME \A p \in 1..n : \E c \in DOMAIN k : k[c].nodo = s[p].nombre
              PROVE  FALSE
  OBVIOUS
<1>1. 1 \in 1..n /\ 2 \in 1..n /\ 3 \in 1..n
  OBVIOUS
<1>2. PICK c1 \in DOMAIN k : k[c1].nodo = s[1].nombre
  BY <1>1
<1>3. PICK c2 \in DOMAIN k : k[c2].nodo = s[2].nombre
  BY <1>1
<1>4. PICK c3 \in DOMAIN k : k[c3].nodo = s[3].nombre
  BY <1>1
<1>5. DOMAIN k \subseteq {1, 2}
  OBVIOUS
<1>6. c1 = c2 \/ c1 = c3 \/ c2 = c3
  BY <1>5
<1>7. s[1].nombre # s[2].nombre /\ s[1].nombre # s[3].nombre /\ s[2].nombre # s[3].nombre
  <2>1. \A p, q \in 1..n : s[p].nombre = s[q].nombre => p = q
    BY DEF SitiosUnicos
  <2>. QED
    BY <1>1, <2>1
<1>. QED
  BY <1>2, <1>3, <1>4, <1>6, <1>7

(* funcionLoca finds a slot, and the node of it: it neither gives the copy *)
(* up nor ends the process.                                                *)
LEMMA BuscaHalla ==
  ASSUME BaseEntera, caidas = 0, BuscaNodo("consola")
  PROVE  /\ UNCHANGED <<nodos, archivos, archivo, nroBloque, vivo, mongoArchivos, caidas>>
         /\ en' = [en EXCEPT !["consola"] = "toma"]
         /\ mano'["consola"].bloque = mano["consola"].bloque
         /\ mano'["consola"].datos = mano["consola"].datos
         /\ mano'["consola"].copia = mano["consola"].copia
         /\ DOMAIN arrayNodos' = DOMAIN arrayNodos /\ Len(arrayNodos') = Len(arrayNodos)
         /\ \A p \in DOMAIN arrayNodos : \E r \in DOMAIN arrayNodos : arrayNodos'[p] = arrayNodos[r]
<1>. DEFINE mm == IF Len(nodos) < Len(arrayNodos) THEN Len(nodos) ELSE Len(arrayNodos)
            n == Len(arrayNodos)
            b == mano["consola"].bloque
            s == Ordenado(arrayNodos, mm)
            k == NodoEnArray(s, mm, archivos[archivo], b.nro)
            i == PorNombre(s[k].nombre)
            m == [mano["consola"] EXCEPT !.lugar = k, !.nodo = i]
<1>1. /\ vivo /\ en["consola"] = "busca" /\ UNCHANGED <<mongoArchivos, caidas>>
      /\ \/ ArchivoPerdido \/ Len(nodos) > n \/ (archivo # 0 /\ k # 0 /\ i = 0)
         \/ /\ arrayNodos' = s
            /\ \/ k = 0
               \/ /\ en' = [en EXCEPT !["consola"] = "toma"]
                  /\ mano' = [mano EXCEPT !["consola"].lugar = k, !["consola"].nodo = i]
            /\ UNCHANGED <<nodos, archivos, archivo, nroBloque, vivo>>
  BY DEF BuscaNodo, contador
<1>2. en["consola"] \in Subiendo /\ en["consola"] \in EnCamino
  BY <1>1 DEF Subiendo, EnCamino
<1>3. /\ archivo \in DOMAIN archivos /\ archivos \in Seq(UnArchivo)
      /\ mano \in [Hilo -> Mano] /\ mano["consola"] \in Mano /\ "consola" \in Hilo
      /\ nodos \in Seq(UnNodo) /\ arrayNodos \in Seq(Sitio)
      /\ SitiosUnicos(arrayNodos) /\ Subida
  BY <1>1, <1>2, EnSubidaEntera
<1>4. /\ ~archivos[archivo].colgado /\ SitiosEnteros /\ BloqueSeguido
  BY <1>2, <1>3 DEF Subida
<1>5. ~ArchivoPerdido /\ mm = n /\ n = Len(nodos) /\ n \in Nat /\ n >= 3
      /\ DOMAIN arrayNodos = 1..n
  BY <1>3, <1>4 DEF ArchivoPerdido, SitiosEnteros
<1>. HIDE DEF mm
<1>6. /\ s \in Seq(Sitio) /\ Len(s) = n
      /\ \E f \in [1..n -> 1..n] :
           /\ \A p, q \in 1..n : f[p] = f[q] => p = q
           /\ \A p \in 1..n : s[p] = arrayNodos[f[p]]
  <2>1. mm \in 0..Len(arrayNodos)
    BY <1>5
  <2>. QED
    BY <1>3, <2>1, OrdenadoEs
<1>. HIDE DEF s
<1>7. PICK f \in [1..n -> 1..n] :
        /\ \A p, q \in 1..n : f[p] = f[q] => p = q
        /\ \A p \in 1..n : s[p] = arrayNodos[f[p]]
  BY <1>6
<1>8. DOMAIN s = 1..n /\ \A p \in 1..n : f[p] \in 1..n
  <2>1. DOMAIN s = 1..Len(s)
    BY <1>6
  <2>. QED
    BY <1>6, <1>7, <2>1
<1>9. SitiosUnicos(s)
  <2>1. ASSUME NEW p \in 1..n, NEW q \in 1..n, s[p].nombre = s[q].nombre, s[p].nombre # Nadie
        PROVE  p = q
    <3>1. /\ f[p] \in DOMAIN arrayNodos /\ f[q] \in DOMAIN arrayNodos
          /\ s[p] = arrayNodos[f[p]] /\ s[q] = arrayNodos[f[q]]
      BY <1>5, <1>7, <1>8
    <3>2. f[p] = f[q]
      BY <1>3, <2>1, <3>1 DEF SitiosUnicos
    <3>. QED
      BY <1>7, <3>2
  <2>. QED
    BY <1>8, <2>1 DEF SitiosUnicos
<1>10. ASSUME NEW p \in 1..n
       PROVE  \E j \in DOMAIN nodos : nodos[j].nombre = s[p].nombre
  <2>1. f[p] \in DOMAIN arrayNodos /\ s[p] = arrayNodos[f[p]]
    BY <1>5, <1>7, <1>8
  <2>2. \E j \in DOMAIN nodos : nodos[j].nombre = arrayNodos[f[p]].nombre
    BY <1>4, <2>1 DEF SitiosEnteros
  <2>. QED
    BY <2>1, <2>2
<1>11. ASSUME NEW p \in 1..n
       PROVE  s[p].nombre # Nadie
  <2>1. PICK j \in DOMAIN nodos : nodos[j].nombre = s[p].nombre
    BY <1>10
  <2>2. nodos[j] \in UnNodo
    BY <1>3
  <2>3. nodos[j].nombre \in Nombre
    BY <2>2 DEF UnNodo
  <2>. QED
    BY <2>1, <2>3, MDFSAssumption DEF Nombre
<1>12. b.copias \in Seq(UnaCopia) /\ Len(b.copias) < 3
  BY <1>3, <1>4 DEF Mano, UnBloque, BloqueSeguido
<1>13. k # 0 /\ k \in 1..n
  <2>1. PICK p \in 1..n : \A c \in DOMAIN b.copias : b.copias[c].nodo # s[p].nombre
    BY <1>5, <1>8, <1>9, <1>11, <1>12, QuedaSitio
  <2>2. ~Llevado(s[p].nombre)
    BY <1>1, <2>1 DEF Llevado
  <2>3. ~Noto(s[p], b.nro)
    BY <1>4, <1>5, <1>7, <1>8, <2>2 DEF BloqueSeguido
  <2>4. mm \in 0..Len(s)
    BY <1>5, <1>6
  <2>5. k \in 0..mm
    BY <1>6, <2>4, SitioBuscado
  <2>6. k # 0
    BY <1>5, <1>6, <1>11, <2>3, <2>4, SitioSinHallar
  <2>. HIDE DEF k
  <2>. QED
    BY <1>5, <2>5, <2>6
<1>. HIDE DEF k
<1>14. i # 0
  <2>1. PICK j \in DOMAIN nodos : nodos[j].nombre = s[k].nombre
    BY <1>10, <1>13
  <2>2. i \in DOMAIN nodos
    BY <1>3, <2>1, NombreHallado
  <2>. HIDE DEF i
  <2>. QED
    BY <1>3, <2>2
<1>. HIDE DEF i
<1>15. /\ arrayNodos' = s
       /\ en' = [en EXCEPT !["consola"] = "toma"]
       /\ mano' = [mano EXCEPT !["consola"].lugar = k, !["consola"].nodo = i]
       /\ UNCHANGED <<nodos, archivos, archivo, nroBloque, vivo>>
  <2>1. ~ArchivoPerdido /\ ~(Len(nodos) > n)
    BY <1>5
  <2>. QED
    BY <1>1, <1>13, <1>14, <2>1, Zenon
<1>16. mano'["consola"] = m
  BY <1>3, <1>15
<1>17. /\ m.bloque = mano["consola"].bloque /\ m.datos = mano["consola"].datos
       /\ m.copia = mano["consola"].copia
  BY <1>3 DEF Mano
<1>. HIDE DEF m
<1>18. \A p \in DOMAIN arrayNodos : \E r \in DOMAIN arrayNodos : s[p] = arrayNodos[r]
  BY <1>5, <1>7, <1>8
<1>. QED
  BY <1>1, <1>5, <1>6, <1>8, <1>15, <1>16, <1>17, <1>18

LEMMA EnterosBusca ==
  ASSUME BaseEntera, BuscaNodo("consola")
  PROVE  EnterosInv'
<1>1. vivo /\ en["consola"] = "busca" /\ UNCHANGED caidas
  BY DEF BuscaNodo, contador
<1>2. /\ en["consola"] \in Subiendo /\ en["consola"] \in EnCamino
      /\ "toma" \in Subiendo /\ "toma" \in EnCamino
  BY <1>1 DEF Subiendo, EnCamino
<1>3. CASE caidas # 0
  BY <1>1, <1>3 DEF EnterosInv
<1>4. CASE caidas = 0
  <2>1. /\ UNCHANGED <<nodos, archivos, archivo, nroBloque, mongoArchivos>>
        /\ en' = [en EXCEPT !["consola"] = "toma"]
        /\ mano'["consola"].bloque = mano["consola"].bloque
        /\ mano'["consola"].datos = mano["consola"].datos
        /\ DOMAIN arrayNodos' = DOMAIN arrayNodos /\ Len(arrayNodos') = Len(arrayNodos)
        /\ \A p \in DOMAIN arrayNodos : \E r \in DOMAIN arrayNodos : arrayNodos'[p] = arrayNodos[r]
    BY <1>4, BuscaHalla
  <2>2. en'["consola"] = "toma"
    BY <2>1, EnConsola DEF BaseEntera
  <2>3. /\ mongoArchivos \in Seq(Enteros)
        /\ EnterosSalvo(archivos, {archivo}) /\ Subida
    BY <1>1, <1>2, <1>4, EnSubidaEntera
  <2>4. SitiosEnteros'
    <3>1. SitiosEnteros
      BY <2>3 DEF Subida
    <3>2. ASSUME NEW p \in DOMAIN arrayNodos
          PROVE  /\ \E i \in DOMAIN nodos : nodos[i].nombre = arrayNodos'[p].nombre
                 /\ \A q \in DOMAIN arrayNodos'[p].tiene :
                      arrayNodos'[p].tiene[q][2] < nroBloque
      <4>1. PICK r \in DOMAIN arrayNodos : arrayNodos'[p] = arrayNodos[r]
        BY <2>1
      <4>. QED
        BY <3>1, <4>1 DEF SitiosEnteros
    <3>. QED
      BY <2>1, <3>1, <3>2 DEF SitiosEnteros
  <2>5. PorSubir'
    BY <1>2, <2>1, <2>2, <2>3 DEF Subida, PorSubir
  <2>6. \A x : Llevado(x)' <=> Llevado(x)
    BY <1>1, <2>1, <2>2 DEF Llevado
  <2>7. BloqueSeguido
    BY <1>2, <2>3 DEF Subida
  <2>8. BloqueSeguido'
    <3>1. ASSUME NEW p \in DOMAIN arrayNodos, Noto(arrayNodos'[p], mano["consola"].bloque.nro)
          PROVE  Llevado(arrayNodos'[p].nombre)
      <4>1. PICK r \in DOMAIN arrayNodos : arrayNodos'[p] = arrayNodos[r]
        BY <2>1
      <4>. QED
        BY <2>7, <3>1, <4>1 DEF BloqueSeguido
    <3>. QED
      BY <2>1, <2>6, <2>7, <3>1 DEF BloqueSeguido
  <2>9. Subida'
    BY <2>1, <2>3, <2>4, <2>5, <2>8 DEF Subida
  <2>. QED
    BY <1>2, <2>1, <2>2, <2>3, <2>9, EnterosSube
<1>. QED
  BY <1>3, <1>4

(* funcionLoca takes a block of the node of the slot it chose.             *)
LEMMA TomaSigue ==
  ASSUME BaseEntera, TomaBloque("consola"),
         NEW i, i = mano["consola"].nodo, NEW k, k = mano["consola"].lugar
  PROVE  /\ vivo /\ en["consola"] = "toma" /\ i \in DOMAIN nodos /\ k \in DOMAIN arrayNodos
         /\ nodos[i].nombre = arrayNodos[k].nombre
         /\ nodos' = [nodos EXCEPT ![i] = Toma(nodos[i])]
         /\ arrayNodos' = Anota(arrayNodos, k, archivos[archivo], mano["consola"].bloque.nro)
         /\ mano'["consola"].copia = [nodo |-> nodos[i].nombre, bloque |-> BloqueLibre(nodos[i])]
         /\ mano'["consola"].bloque = mano["consola"].bloque
         /\ mano'["consola"].datos = mano["consola"].datos
         /\ en'["consola"] = "manda"
         /\ UNCHANGED <<archivos, archivo, nroBloque, vivo, mongoArchivos, caidas>>
<1>. DEFINE c == [nodo |-> nodos[i].nombre, bloque |-> BloqueLibre(nodos[i])]
            m == [mano["consola"] EXCEPT !.dir = nodos[i].dir, !.copia = c]
<1>1. vivo /\ en["consola"] = "toma"
  BY DEF TomaBloque
<1>2. en["consola"] \in Subiendo
  BY <1>1 DEF Subiendo
<1>3. /\ archivo \in DOMAIN archivos /\ archivos \in Seq(UnArchivo)
      /\ mano \in [Hilo -> Mano] /\ mano["consola"] \in Mano /\ "consola" \in Hilo
      /\ nodos \in Seq(UnNodo) /\ arrayNodos \in Seq(Sitio)
  BY <1>1, <1>2, EnSubidaEntera
<1>4. i \in DOMAIN nodos /\ k \in DOMAIN arrayNodos /\ nodos[i].nombre = arrayNodos[k].nombre
  BY <1>1, <1>3 DEF BaseEntera, BaseDia, Base, ReplicasInv, SubidaSana, Elegido
<1>5. i # 0 /\ archivo # 0 /\ ~(k > Len(arrayNodos))
  BY <1>3, <1>4
<1>6. /\ nodos' = [nodos EXCEPT ![i] = Toma(@)]
      /\ arrayNodos' = Anota(arrayNodos, k, archivos[archivo], mano["consola"].bloque.nro)
      /\ mano' = [mano EXCEPT !["consola"].dir = nodos[i].dir, !["consola"].copia = c]
      /\ en' = [en EXCEPT !["consola"] = "manda"]
      /\ UNCHANGED <<archivos, archivo, nroBloque, vivo, mongoArchivos, caidas>>
  BY <1>5 DEF TomaBloque, contador
<1>7. mano'["consola"] = m
  BY <1>3, <1>6
<1>. HIDE DEF c
<1>8. /\ m.copia = c /\ m.bloque = mano["consola"].bloque /\ m.datos = mano["consola"].datos
  BY <1>3 DEF Mano
<1>. HIDE DEF m
<1>9. en'["consola"] = "manda"
  BY <1>6, EnConsola DEF BaseEntera
<1>10. nodos' = [nodos EXCEPT ![i] = Toma(nodos[i])]
  BY <1>6
<1>. QED
  BY <1>1, <1>4, <1>6, <1>7, <1>8, <1>9, <1>10 DEF c

LEMMA EnterosToma ==
  ASSUME BaseEntera, TomaBloque("consola")
  PROVE  EnterosInv'
<1>. DEFINE i == mano["consola"].nodo
            k == mano["consola"].lugar
            nro == mano["consola"].bloque.nro
            a == archivos[archivo]
            c == [nodo |-> nodos[i].nombre, bloque |-> BloqueLibre(nodos[i])]
<1>1. /\ vivo /\ en["consola"] = "toma" /\ i \in DOMAIN nodos /\ k \in DOMAIN arrayNodos
      /\ nodos[i].nombre = arrayNodos[k].nombre
      /\ nodos' = [nodos EXCEPT ![i] = Toma(nodos[i])]
      /\ arrayNodos' = Anota(arrayNodos, k, a, nro)
      /\ mano'["consola"].copia = c
      /\ mano'["consola"].bloque = mano["consola"].bloque
      /\ mano'["consola"].datos = mano["consola"].datos
      /\ en'["consola"] = "manda"
      /\ UNCHANGED <<archivos, archivo, nroBloque, vivo, mongoArchivos, caidas>>
  BY TomaSigue
<1>2. /\ en["consola"] \in Subiendo /\ en["consola"] \in EnCamino
      /\ "manda" \in Subiendo /\ "manda" \in EnCamino
  BY <1>1 DEF Subiendo, EnCamino
<1>3. /\ archivo \in DOMAIN archivos /\ a \in UnArchivo
      /\ mano["consola"] \in Mano /\ nodos \in Seq(UnNodo) /\ arrayNodos \in Seq(Sitio)
      /\ caidas = 0 => /\ mongoArchivos \in Seq(Enteros)
                       /\ EnterosSalvo(archivos, {archivo}) /\ Subida
  BY <1>1, <1>2, EnSubidaEntera
<1>4. <<a.ruta, nro>> \in Ruta \X Nat
  BY <1>3 DEF Mano, UnBloque, UnArchivo
<1>5. c.nodo = nodos[i].nombre
  OBVIOUS
<1>. HIDE DEF i, k, nro, a, c
<1>6. /\ Len(arrayNodos') = Len(arrayNodos) /\ DOMAIN arrayNodos' = DOMAIN arrayNodos
      /\ \A p \in DOMAIN arrayNodos : arrayNodos'[p].nombre = arrayNodos[p].nombre
      /\ \A p \in DOMAIN arrayNodos \ {k} : arrayNodos'[p] = arrayNodos[p]
      /\ \A q \in DOMAIN arrayNodos'[k].tiene :
           \/ arrayNodos'[k].tiene[q][2] = nro
           \/ q \in DOMAIN arrayNodos[k].tiene /\ arrayNodos'[k].tiene[q] = arrayNodos[k].tiene[q]
  <2>. DEFINE t == arrayNodos'
  <2>1. t = Anota(arrayNodos, k, a, nro)
    BY <1>1
  <2>. HIDE DEF t
  <2>2. /\ Len(t) = Len(arrayNodos) /\ DOMAIN t = DOMAIN arrayNodos
        /\ \A p \in DOMAIN arrayNodos : t[p].nombre = arrayNodos[p].nombre
        /\ \A p \in DOMAIN arrayNodos \ {k} : t[p] = arrayNodos[p]
        /\ \A q \in DOMAIN t[k].tiene :
             \/ t[k].tiene[q][2] = nro
             \/ q \in DOMAIN arrayNodos[k].tiene /\ t[k].tiene[q] = arrayNodos[k].tiene[q]
    BY <1>1, <1>3, <1>4, <2>1, AnotaSolo
  <2>. QED
    BY <2>2 DEF t
<1>7. /\ DOMAIN nodos' = DOMAIN nodos /\ Len(nodos') = Len(nodos)
      /\ \A j \in DOMAIN nodos : nodos'[j].nombre = nodos[j].nombre
  <2>1. nodos[i] \in UnNodo
    BY <1>1, <1>3
  <2>2. Toma(nodos[i]).nombre = nodos[i].nombre
    BY <2>1 DEF Toma, UnNodo
  <2>. QED
    BY <1>1, <1>3, <2>2
<1>8. ASSUME caidas = 0
      PROVE  Subida'
  <2>1. Subida /\ SitiosEnteros /\ PorSubir /\ BloqueSeguido
    BY <1>2, <1>3, <1>8 DEF Subida
  <2>2. nro < nroBloque /\ Len(mano["consola"].bloque.copias) < 3
        /\ \A p \in DOMAIN arrayNodos : Noto(arrayNodos[p], nro) => Llevado(arrayNodos[p].nombre)
    BY <2>1 DEF BloqueSeguido, nro
  <2>3. SitiosEnteros'
    <3>1. ASSUME NEW p \in DOMAIN arrayNodos
          PROVE  \E j \in DOMAIN nodos : nodos'[j].nombre = arrayNodos'[p].nombre
      <4>1. PICK j \in DOMAIN nodos : nodos[j].nombre = arrayNodos[p].nombre
        BY <2>1 DEF SitiosEnteros
      <4>. QED
        BY <1>6, <1>7, <4>1
    <3>2. ASSUME NEW p \in DOMAIN arrayNodos, NEW q \in DOMAIN arrayNodos'[p].tiene
          PROVE  arrayNodos'[p].tiene[q][2] < nroBloque
      <4>1. CASE p = k
        BY <1>6, <2>1, <2>2, <3>2, <4>1 DEF SitiosEnteros
      <4>2. CASE p # k
        BY <1>6, <2>1, <3>2, <4>2 DEF SitiosEnteros
      <4>. QED
        BY <4>1, <4>2
    <3>. QED
      BY <1>1, <1>6, <1>7, <2>1, <3>1, <3>2 DEF SitiosEnteros
  <2>4. PorSubir'
    BY <1>1, <1>2, <2>1 DEF PorSubir
  <2>5. ASSUME NEW p \in DOMAIN arrayNodos, Noto(arrayNodos'[p], nro)
        PROVE  Llevado(arrayNodos[p].nombre)'
    <3>1. CASE p = k
      BY <1>1, <1>5, <1>6, <3>1 DEF Llevado
    <3>2. CASE p # k
      <4>1. Noto(arrayNodos[p], nro) /\ arrayNodos'[p] = arrayNodos[p]
        BY <1>6, <2>5, <3>2
      <4>. QED
        BY <1>1, <2>2, <4>1 DEF Llevado
    <3>. QED
      BY <3>1, <3>2
  <2>6. BloqueSeguido'
    BY <1>1, <1>6, <2>2, <2>5 DEF BloqueSeguido, nro
  <2>. QED
    BY <1>1, <1>3, <2>1, <2>3, <2>4, <2>6 DEF Subida
<1>. QED
  BY <1>1, <1>2, <1>3, <1>8, EnterosSube

(* The copy that was sent joins its block; the third puts the block in the *)
(* file.                                                                   *)
LEMMA MandaSigue ==
  ASSUME BaseEntera, caidas = 0, MandaCopia("consola"),
         NEW b, b = [mano["consola"].bloque EXCEPT !.copias = Append(@, mano["consola"].copia)]
  PROVE  /\ vivo /\ en["consola"] = "manda"
         /\ b \in UnBloque /\ b.nro = mano["consola"].bloque.nro
         /\ b.copias = Append(mano["consola"].bloque.copias, mano["consola"].copia)
         /\ mano["consola"].copia \in UnaCopia /\ mano["consola"].bloque.copias \in Seq(UnaCopia)
         /\ mano'["consola"].datos = mano["consola"].datos
         /\ UNCHANGED <<nodos, archivo, nroBloque, arrayNodos, vivo, mongoArchivos, caidas>>
         /\ \/ /\ Len(b.copias) < 3 /\ mano'["consola"].bloque = b
               /\ en'["consola"] = "busca" /\ UNCHANGED archivos
            \/ /\ archivos' = [archivos EXCEPT ![archivo].bloques = Append(@, b)]
               /\ en'["consola"] = "bloque"
<1>1. vivo /\ en["consola"] = "manda" /\ UNCHANGED <<mongoArchivos, caidas>>
  BY DEF MandaCopia, mongo, contador
<1>2. en["consola"] \in Subiendo
  BY <1>1 DEF Subiendo
<1>3. /\ archivo \in DOMAIN archivos /\ archivos \in Seq(UnArchivo)
      /\ mano \in [Hilo -> Mano] /\ mano["consola"] \in Mano /\ "consola" \in Hilo
      /\ Subida
  BY <1>1, <1>2, EnSubidaEntera
<1>4. ~ArchivoPerdido
  BY <1>3 DEF ArchivoPerdido, Subida
<1>. DEFINE c == mano["consola"].copia
            x == mano["consola"].bloque
            m1 == [mano["consola"] EXCEPT !.bloque = b, !.copia = SinCopia]
            m2 == [mano["consola"] EXCEPT !.bloque = SinBloque, !.copia = SinCopia]
<1>5. c \in UnaCopia
  <2>1. c.nodo \in Nombre
    BY <1>1, <1>3 DEF BaseEntera, BaseDia, Base, TipoInv, HilosOK
  <2>2. c \in [nodo : Nombre \cup {Nadie}, bloque : Bloque0]
    BY <1>3 DEF Mano
  <2>. HIDE DEF c
  <2>. QED
    BY <2>1, <2>2 DEF UnaCopia
<1>6. x \in UnBloque /\ x.copias \in Seq(UnaCopia)
  BY <1>3 DEF Mano, UnBloque
<1>7. b \in UnBloque /\ b.nro = x.nro /\ b.copias = Append(x.copias, c)
  <2>. DEFINE w == Append(x.copias, c)
  <2>1. w \in Seq(UnaCopia)
    BY <1>5, <1>6
  <2>2. b = [x EXCEPT !.copias = w]
    OBVIOUS
  <2>. HIDE DEF w, x, c
  <2>. QED
    BY <1>6, <2>1, <2>2 DEF UnBloque, w
<1>8. /\ UNCHANGED <<nodos, archivo, nroBloque, arrayNodos, vivo>>
      /\ \/ /\ Len(b.copias) < 3 /\ UNCHANGED archivos
            /\ mano' = [mano EXCEPT !["consola"].bloque = b, !["consola"].copia = SinCopia]
            /\ en' = [en EXCEPT !["consola"] = "busca"]
         \/ /\ archivos' = [archivos EXCEPT ![archivo].bloques = Append(@, b)]
            /\ mano' = [mano EXCEPT !["consola"].bloque = SinBloque, !["consola"].copia = SinCopia]
            /\ en' = [en EXCEPT !["consola"] = "bloque"]
  BY <1>4 DEF MandaCopia
<1>9. /\ m1.bloque = b /\ m1.datos = mano["consola"].datos /\ m2.datos = mano["consola"].datos
  BY <1>3 DEF Mano
<1>10. CASE /\ Len(b.copias) < 3 /\ UNCHANGED archivos
            /\ mano' = [mano EXCEPT !["consola"].bloque = b, !["consola"].copia = SinCopia]
            /\ en' = [en EXCEPT !["consola"] = "busca"]
  <2>1. mano'["consola"] = m1
    BY <1>3, <1>10
  <2>2. en'["consola"] = "busca"
    BY <1>10, EnConsola DEF BaseEntera
  <2>. HIDE DEF m1
  <2>. QED
    BY <1>1, <1>5, <1>6, <1>7, <1>8, <1>9, <1>10, <2>1, <2>2
<1>11. CASE /\ archivos' = [archivos EXCEPT ![archivo].bloques = Append(@, b)]
            /\ mano' = [mano EXCEPT !["consola"].bloque = SinBloque, !["consola"].copia = SinCopia]
            /\ en' = [en EXCEPT !["consola"] = "bloque"]
  <2>1. mano'["consola"] = m2
    BY <1>3, <1>11
  <2>2. en'["consola"] = "bloque"
    BY <1>11, EnConsola DEF BaseEntera
  <2>. HIDE DEF m2
  <2>. QED
    BY <1>1, <1>5, <1>6, <1>7, <1>8, <1>9, <1>11, <2>1, <2>2
<1>. QED
  BY <1>8, <1>10, <1>11

LEMMA EnterosManda ==
  ASSUME BaseEntera, MandaCopia("consola")
  PROVE  EnterosInv'
<1>1. vivo /\ en["consola"] = "manda" /\ UNCHANGED caidas
  BY DEF MandaCopia, contador
<1>2. /\ en["consola"] \in Subiendo /\ en["consola"] \in EnCamino
      /\ "busca" \in Subiendo /\ "busca" \in EnCamino /\ "bloque" \in Subiendo
      /\ "bloque" \notin EnCamino
  BY <1>1 DEF Subiendo, EnCamino
<1>3. CASE caidas # 0
  BY <1>1, <1>3 DEF EnterosInv
<1>4. CASE caidas = 0
  <2>. DEFINE c == mano["consola"].copia
              x == mano["consola"].bloque
              b == [x EXCEPT !.copias = Append(@, c)]
  <2>1. /\ b \in UnBloque /\ b.nro = x.nro /\ b.copias = Append(x.copias, c)
        /\ c \in UnaCopia /\ x.copias \in Seq(UnaCopia)
        /\ mano'["consola"].datos = mano["consola"].datos
        /\ UNCHANGED <<nodos, archivo, nroBloque, arrayNodos, vivo, mongoArchivos, caidas>>
        /\ \/ /\ Len(b.copias) < 3 /\ mano'["consola"].bloque = b
              /\ en'["consola"] = "busca" /\ UNCHANGED archivos
           \/ /\ archivos' = [archivos EXCEPT ![archivo].bloques = Append(@, b)]
              /\ en'["consola"] = "bloque"
    BY <1>4, MandaSigue
  <2>. HIDE DEF b
  <2>2. /\ archivo \in DOMAIN archivos /\ archivos[archivo] \in UnArchivo
        /\ archivos \in Seq(UnArchivo) /\ mano["consola"] \in Mano
        /\ mongoArchivos \in Seq(Enteros)
        /\ EnterosSalvo(archivos, {archivo}) /\ Subida
    BY <1>1, <1>2, <1>4, EnSubidaEntera
  <2>3. SitiosEnteros /\ PorSubir /\ BloqueSeguido
    BY <1>2, <2>2 DEF Subida
  <2>4. SitiosEnteros'
    BY <2>1, <2>3 DEF SitiosEnteros
  <2>5. CASE /\ Len(b.copias) < 3 /\ mano'["consola"].bloque = b
             /\ en'["consola"] = "busca" /\ UNCHANGED archivos
    <3>1. PorSubir'
      BY <1>2, <2>1, <2>3, <2>5 DEF PorSubir
    <3>2. ASSUME NEW y, Llevado(y)
          PROVE  Llevado(y)'
      <4>1. \E d \in DOMAIN b.copias : b.copias[d].nodo = y
        <5>1. CASE c.nodo = y
          <6>1. Len(x.copias) + 1 \in DOMAIN b.copias /\ b.copias[Len(x.copias) + 1] = c
            BY <2>1
          <6>. QED
            BY <5>1, <6>1
        <5>2. CASE \E d \in DOMAIN x.copias : x.copias[d].nodo = y
          <6>1. PICK d \in DOMAIN x.copias : x.copias[d].nodo = y
            BY <5>2
          <6>2. d \in DOMAIN b.copias /\ b.copias[d] = x.copias[d]
            BY <2>1
          <6>. QED
            BY <6>1, <6>2
        <5>. QED
          BY <3>2, <5>1, <5>2 DEF Llevado
      <4>. QED
        BY <2>5, <4>1 DEF Llevado
    <3>3. BloqueSeguido'
      BY <2>1, <2>3, <2>5, <3>2 DEF BloqueSeguido
    <3>4. Subida'
      BY <2>1, <2>2, <2>4, <2>5, <3>1, <3>3 DEF Subida
    <3>. QED
      BY <1>2, <2>1, <2>2, <2>5, <3>4, EnterosSube
  <2>6. CASE /\ archivos' = [archivos EXCEPT ![archivo].bloques = Append(@, b)]
             /\ en'["consola"] = "bloque"
    <3>. DEFINE a == archivos[archivo]
                bl == Append(a.bloques, b)
                y == [a EXCEPT !.bloques = bl]
    <3>1. archivos' = [archivos EXCEPT ![archivo] = y]
      BY <2>6
    <3>2. a.bloques \in Seq(UnBloque) /\ a.pedidos \in Nat
      BY <2>2 DEF UnArchivo
    <3>3. Len(bl) = Len(a.bloques) + 1 /\ Len(a.bloques) \in Nat
      BY <2>1, <3>2
    <3>. HIDE DEF bl
    <3>4. y.bloques = bl /\ y.pedidos = a.pedidos /\ y.colgado = a.colgado
      BY <2>2 DEF UnArchivo
    <3>. HIDE DEF y
    <3>5. /\ DOMAIN archivos' = DOMAIN archivos /\ archivos'[archivo] = y
          /\ \A k \in DOMAIN archivos \ {archivo} : archivos'[k] = archivos[k]
      BY <2>2, <3>1
    <3>6. EnterosSalvo(archivos', {archivo})
      BY <2>2, <3>5 DEF EnterosSalvo
    <3>7. PorSubir'
      <4>1. Len(mano["consola"].datos) \in Nat
        BY <2>2 DEF Mano
      <4>2. Len(a.bloques) + Len(mano["consola"].datos) + 1 = a.pedidos
        BY <1>2, <2>3 DEF PorSubir
      <4>3. \A v, w \in Nat : (v + 1) + w + 0 = v + w + 1
        OBVIOUS
      <4>4. Len(bl) + Len(mano["consola"].datos) + 0
              = Len(a.bloques) + Len(mano["consola"].datos) + 1
        <5>. HIDE DEF a
        <5>. QED
          BY <3>3, <4>1, <4>3
      <4>5. Len(bl) + Len(mano["consola"].datos) + 0 = y.pedidos
        BY <3>4, <4>2, <4>4
      <4>. QED
        BY <1>2, <2>1, <2>6, <3>4, <3>5, <4>5 DEF PorSubir
    <3>8. Subida'
      BY <1>2, <2>1, <2>2, <2>4, <2>6, <3>4, <3>5, <3>7 DEF Subida
    <3>. QED
      BY <1>2, <2>1, <2>2, <2>6, <3>6, <3>8, EnterosSube
  <2>. QED
    BY <2>1, <2>5, <2>6
<1>. QED
  BY <1>3, <1>4

-----------------------------------------------------------------------------

LEMMA EnterosPaso ==
  ASSUME BaseEntera, [Next]_vars
  PROVE  EnterosInv'
<1>1. CASE ConsolaPaso
  <2>1. ~Formatear /\ ~FormateaNodos
    BY DEF Formatear, FormateaNodos, BaseEntera, BaseDia, SoloConsola, Base, UsosInv, Registro
  <2>. QED
    BY <1>1, <2>1, EnterosNodos, EnterosSubir, EnterosOrdena, EnterosLibera DEF ConsolaPaso
<1>2. CASE ServidorPaso
  <2>1. ~\E r \in Ruta : SubirResultado(r)
    BY DEF SubirResultado, BaseEntera, BaseDia, SoloConsola
  <2>. QED
    BY <1>2, <2>1, EnterosNodos DEF ServidorPaso
<1>3. ASSUME NEW h \in Hilo, SubidaPaso(h)
      PROVE  EnterosInv'
  <2>1. en[h] # "libre"
    BY <1>3 DEF SubidaPaso, EmpiezaBloque, TerminaSubida, BuscaNodo, TomaBloque, MandaCopia
  <2>2. h = "consola"
    BY <2>1 DEF BaseEntera, BaseDia, AlDia, Hilo
  <2>. QED
    BY <1>3, <2>2, EnterosBloque, EnterosBusca, EnterosToma, EnterosManda DEF SubidaPaso
<1>4. CASE Caida \/ \E h \in Hilo : NodoNoAtiende(h)
  BY <1>4, EnterosCaida
<1>5. CASE Arranca
  BY <1>5, EnterosArranca
<1>6. CASE UNCHANGED vars
  <2>1. UNCHANGED <<nodos, archivos, archivo, nroBloque, arrayNodos, en, mano, mongoArchivos,
                    vivo, caidas>>
    BY <1>6 DEF vars, memoria, mongo, contador
  <2>2. EnterosInv' <=> EnterosInv
    BY <2>1 DEF EnterosInv, EnterosSalvo, Subida, SitiosEnteros, PorSubir, BloqueSeguido, Llevado
  <2>. QED
    BY <2>2 DEF BaseEntera
<1>. QED
  BY <1>1, <1>2, <1>3, <1>4, <1>5, <1>6 DEF Next

LEMMA EnterosSiempre ==
  ASSUME SoloConsola, Cardinality(Nodo) >= 3
  PROVE  Spec => [](Base /\ AlDia /\ EnterosInv)
<1>1. Spec => [](Base /\ AlDia)
  BY DiaSiempre
<1>2. Base /\ AlDia /\ EnterosInv /\ [Next]_vars => EnterosInv'
  BY EnterosPaso DEF BaseEntera, BaseDia
<1>. QED
  BY <1>1, <1>2, EnterosInit, PTL DEF Spec

(* Without a crash of the process or of a node, a file of the list has     *)
(* every block that was cut from it once its upload is over, whatever was  *)
(* removed, enabled again, renamed or deleted before: with three nodes or  *)
(* more buscarNodoEnArray never runs out of slots, so enviarBloque never   *)
(* gives a block up, which recorrerArchivo would not see.                  *)
THEOREM SubidaSiempreCompleta ==
  ASSUME Eventos \subseteq {"borde"}, Cardinality(Nodo) <= Letras,
         Cardinality(Nodo) >= 3
  PROVE  Spec => []SubidaCompleta
<1>1. ASSUME EnterosInv
      PROVE  SubidaCompleta
  <2>1. ASSUME Quieto, caidas = 0, NEW a \in Listados
        PROVE  Len(archivos[a].bloques) = archivos[a].pedidos
    <3>1. vivo /\ en["consola"] \notin Subiendo
      BY <2>1 DEF Quieto, Hilo, Subiendo
    <3>2. EnterosSalvo(archivos, {})
      BY <1>1, <2>1, <3>1 DEF EnterosInv
    <3>. QED
      BY <3>2 DEF EnterosSalvo, Entero, Listados
  <2>. QED
    BY <2>1 DEF SubidaCompleta
<1>2. SoloConsola
  BY DEF SoloConsola
<1>. QED
  BY <1>1, <1>2, EnterosSiempre, PTL

-----------------------------------------------------------------------------
(* No block is lost: every block of an enabled or removed node is among    *)
(* its free ones, or a copy has it.                                        *)

(* The copies of a file, of a list of files, and of the block on its way.  *)
Contiene(x, c) == \E k \in DOMAIN x.copias : x.copias[k] = c
EnArchivo(a, c) == \E b \in DOMAIN a.bloques : Contiene(a.bloques[b], c)
CopiasDe(A) == {c \in UnaCopia : \E a \in DOMAIN A : EnArchivo(A[a], c)}

EnMano ==
  IF en["consola"] \notin EnCamino THEN {}
  ELSE {c \in UnaCopia : \/ Contiene(mano["consola"].bloque, c)
                         \/ en["consola"] = "manda" /\ mano["consola"].copia = c}

EnUso == CopiasDe(archivos) \cup EnMano

(* The nodes L account for their blocks with the copies U, which are all   *)
(* of those nodes.                                                         *)
Contado(x, U) ==
  \A b \in Bloque0 : b \in ToSet(x.libres) \/ \E c \in U : c.nodo = x.nombre /\ c.bloque = b
Cuadra(L, U) ==
  /\ \A i \in DOMAIN L : L[i].estado # 0 => Contado(L[i], U)
  /\ \A c \in U : \E i \in DOMAIN L : L[i].nombre = c.nodo /\ L[i].estado # 0

SinBloques(A) == \A a \in DOMAIN A : A[a].colgado => A[a].bloques = <<>>

BloquesInv ==
  caidas = 0 =>
    IF vivo THEN Cuadra(nodos, EnUso) /\ SinBloques(archivos)
    ELSE Cuadra(mongoNodos, CopiasDe(mongoArchivos))

BaseBloques == BaseEntera /\ BloquesInv /\ Eventos = {}

-----------------------------------------------------------------------------
(* One node changes, and the copies of its blocks.                         *)
LEMMA CuadraNodo ==
  ASSUME NEW L, NEW U, Cuadra(L, U), Servidores(L), NEW i \in DOMAIN L, NEW K,
         DOMAIN K = DOMAIN L, \A j \in DOMAIN L \ {i} : K[j] = L[j],
         NEW x, x = K[i], x.nombre = L[i].nombre, x.estado # 0, NEW V, Contado(x, V),
         \A c \in U : c.nodo # x.nombre => c \in V,
         \A c \in V : c \in U \/ c.nodo = x.nombre
  PROVE  Cuadra(K, V)
<1>1. DOMAIN K = DOMAIN L /\ K[i] = x /\ \A j \in DOMAIN L \ {i} : K[j] = L[j]
  OBVIOUS
<1>2. ASSUME NEW j \in DOMAIN L, j # i, L[j].estado # 0
      PROVE  Contado(L[j], V)
  <2>1. Contado(L[j], U) /\ L[j].nombre # x.nombre
    BY <1>2 DEF Cuadra, Servidores
  <2>. QED
    BY <2>1 DEF Contado
<1>3. ASSUME NEW c \in V
      PROVE  \E j \in DOMAIN L : K[j].nombre = c.nodo /\ K[j].estado # 0
  <2>1. CASE c.nodo = x.nombre
    BY <1>1, <2>1
  <2>2. CASE c.nodo # x.nombre
    <3>1. PICK j \in DOMAIN L : L[j].nombre = c.nodo /\ L[j].estado # 0
      BY <2>2 DEF Cuadra
    <3>. QED
      BY <1>1, <2>2, <3>1
  <2>. QED
    BY <2>1, <2>2
<1>. QED
  BY <1>1, <1>2, <1>3 DEF Cuadra

(* A node that is enabled has every block free.                            *)
LEMMA HabilitaTodo ==
  ASSUME NEW x \in UnNodo
  PROVE  /\ Habilita(x).nombre = x.nombre /\ Habilita(x).estado # 0
         /\ \A b \in Bloque0 : b \in ToSet(Habilita(x).libres)
<1>. DEFINE t == TodosLosBloques
            s == x.libres
            l == s \o t
<1>1. s \in Seq(Bloque0) /\ Cap \in Nat \ {0}
  BY MDFSAssumption DEF UnNodo
<1>2. t \in Seq(Int) /\ Len(t) = Cap /\ \A b \in Bloque0 : t[b + 1] = b
  BY <1>1 DEF TodosLosBloques, Bloque0
<1>3. s \in Seq(Int) /\ Len(s) \in Nat
  BY <1>1 DEF Bloque0
<1>. HIDE DEF t, s
<1>4. ASSUME NEW b \in Bloque0
      PROVE  Len(s) + (b + 1) \in DOMAIN l /\ l[Len(s) + (b + 1)] = b
  <2>1. b + 1 \in 1..Len(t)
    BY <1>1, <1>2 DEF Bloque0
  <2>. QED
    BY <1>2, <1>3, <2>1
<1>5. \A b \in Bloque0 : b \in ToSet(l)
  BY <1>4 DEF ToSet
<1>6. Habilita(x) = [[x EXCEPT !.estado = 1] EXCEPT !.libres = x.libres \o t]
  BY DEF Habilita, Vuelve, t, UnNodo
<1>. HIDE DEF l
<1>7. Habilita(x).nombre = x.nombre /\ Habilita(x).estado = 1 /\ Habilita(x).libres = l
  <2>1. Habilita(x) = [[x EXCEPT !.estado = 1] EXCEPT !.libres = l]
    BY <1>6 DEF l, s
  <2>. QED
    BY <2>1 DEF UnNodo
<1>. QED
  BY <1>5, <1>7

(* The block that buscarBloqueDisponible takes is the only one that leaves *)
(* the free ones.                                                          *)
LEMMA TomaUno ==
  ASSUME NEW x \in UnNodo
  PROVE  /\ Toma(x).nombre = x.nombre /\ Toma(x).estado = x.estado
         /\ \A b \in ToSet(x.libres) : b \in ToSet(Toma(x).libres) \/ b = BloqueLibre(x)
<1>. DEFINE s == x.libres
            l == IF s = <<>> THEN s ELSE Tail(s)
<1>1. s \in Seq(Bloque0)
  BY DEF UnNodo
<1>2. Toma(x) = [x EXCEPT !.libres = l]
  BY DEF Toma
<1>3. BloqueLibre(x) = IF s = <<>> THEN 0 ELSE Head(s)
  BY DEF BloqueLibre
<1>. HIDE DEF s
<1>4. ASSUME NEW k \in DOMAIN s
      PROVE  s[k] \in ToSet(l) \/ s[k] = BloqueLibre(x)
  <2>1. s # <<>> /\ l = Tail(s)
    BY <1>1
  <2>2. CASE k = 1
    BY <1>1, <1>3, <2>1, <2>2
  <2>3. CASE k # 1
    <3>1. k - 1 \in DOMAIN Tail(s) /\ Tail(s)[k - 1] = s[k]
      BY <1>1, <2>1, <2>3
    <3>. QED
      BY <2>1, <3>1 DEF ToSet
  <2>. QED
    BY <2>2, <2>3
<1>. HIDE DEF l
<1>5. Toma(x).nombre = x.nombre /\ Toma(x).estado = x.estado /\ Toma(x).libres = l
  BY <1>2 DEF UnNodo
<1>. QED
  BY <1>4, <1>5 DEF ToSet, s

(* The block of a removed copy is free again.                              *)
LEMMA DevuelveUno ==
  ASSUME NEW x \in UnNodo, NEW n \in Bloque0
  PROVE  /\ Devuelve(x, n).nombre = x.nombre /\ Devuelve(x, n).estado = x.estado
         /\ \A b \in ToSet(x.libres) : b \in ToSet(Devuelve(x, n).libres)
         /\ n \in ToSet(Devuelve(x, n).libres)
<1>. DEFINE s == x.libres
            l == Append(s, n)
<1>1. s \in Seq(Bloque0)
  BY DEF UnNodo
<1>2. Devuelve(x, n) = [x EXCEPT !.libres = l]
  BY DEF Devuelve
<1>. HIDE DEF s
<1>3. \A k \in DOMAIN s : k \in DOMAIN l /\ l[k] = s[k]
  BY <1>1
<1>4. Len(s) + 1 \in DOMAIN l /\ l[Len(s) + 1] = n
  BY <1>1
<1>. HIDE DEF l
<1>5. /\ Devuelve(x, n).nombre = x.nombre /\ Devuelve(x, n).estado = x.estado
      /\ Devuelve(x, n).libres = l
  BY <1>2 DEF UnNodo
<1>. QED
  BY <1>3, <1>4, <1>5 DEF ToSet, s

-----------------------------------------------------------------------------
(* The copies of a list of files.                                          *)

LEMMA CopiasIguales ==
  ASSUME NEW A, NEW B, DOMAIN B = DOMAIN A, \A k \in DOMAIN A : B[k].bloques = A[k].bloques
  PROVE  CopiasDe(B) = CopiasDe(A)
BY DEF CopiasDe, EnArchivo

LEMMA CopiasMasUno ==
  ASSUME NEW A \in Seq(UnArchivo), NEW x, x.bloques = <<>>, NEW B, B = Append(A, x)
  PROVE  CopiasDe(B) = CopiasDe(A)
<1>1. /\ \A k \in DOMAIN A : k \in DOMAIN B /\ B[k] = A[k]
      /\ \A k \in DOMAIN B : (k \in DOMAIN A /\ B[k] = A[k]) \/ B[k] = x
  OBVIOUS
<1>2. \A c : ~EnArchivo(x, c)
  BY DEF EnArchivo
<1>. QED
  BY <1>1, <1>2 DEF CopiasDe

(* The document of a file tells the copies of its blocks.                  *)
LEMMA DocumentoConCopias ==
  ASSUME NEW x \in UnArchivo, NEW y \in UnArchivo, Documento(x) = Documento(y), NEW c,
         EnArchivo(x, c)
  PROVE  EnArchivo(y, c)
<1>1. /\ DOMAIN x.bloques = DOMAIN y.bloques
      /\ \A b \in DOMAIN y.bloques : x.bloques[b].copias = y.bloques[b].copias
  BY MismasCopias
<1>. QED
  BY <1>1 DEF EnArchivo, Contiene

LEMMA TambienEnEl ==
  ASSUME NEW X \in Seq(UnArchivo), NEW Y \in Seq(UnArchivo), NEW d \in DOMAIN X,
         ~X[d].colgado, NEW c, EnArchivo(X[d], c), NEW x, x = Documento(X[d]),
         Cardinality(Sitios(X, {}, x)) = Cardinality(Sitios(Y, {}, x))
  PROVE  \E k \in DOMAIN Y : EnArchivo(Y[k], c)
<1>1. d \in Sitios(X, {}, x)
  BY DEF Sitios
<1>2. Cardinality(Sitios(X, {}, x)) # 0
  BY <1>1, SitiosFinitos, FS_EmptySet
<1>3. Cardinality(Sitios(Y, {}, x)) # 0
  BY <1>2
<1>4. Sitios(Y, {}, x) # {}
  BY <1>3, FS_EmptySet
<1>5. PICK k \in DOMAIN Y : Documento(Y[k]) = x
  BY <1>4 DEF Sitios
<1>6. Y[k] \in UnArchivo /\ X[d] \in UnArchivo
  BY <1>5
<1>7. EnArchivo(Y[k], c)
  BY <1>5, <1>6, DocumentoConCopias
<1>. QED
  BY <1>7

LEMMA CopiasGuardadas ==
  ASSUME NEW M \in Seq(UnArchivo), NEW A \in Seq(UnArchivo), Completo(M, A, {}), SinBloques(A)
  PROVE  CopiasDe(M) = CopiasDe(A)
<1>2. \A d \in DOMAIN M : ~M[d].colgado
  BY DEF Completo
<1>3. \A k \in DOMAIN A : \A c : EnArchivo(A[k], c) => ~A[k].colgado
  BY DEF EnArchivo, SinBloques
<1>4. \A x : Cardinality(Sitios(M, {}, x)) = Cardinality(Sitios(A, {}, x))
  BY DEF Completo
<1>5. ASSUME NEW c \in CopiasDe(M)
      PROVE  c \in CopiasDe(A)
  BY <1>2, <1>4, TambienEnEl DEF CopiasDe
<1>6. ASSUME NEW c \in CopiasDe(A)
      PROVE  c \in CopiasDe(M)
  BY <1>3, <1>4, TambienEnEl DEF CopiasDe
<1>. QED
  BY <1>5, <1>6

-----------------------------------------------------------------------------
(* Ways a step ends.                                                       *)

LEMMA BloquesMuere ==
  ASSUME Muere, caidas' = 0 => Cuadra(mongoNodos', CopiasDe(mongoArchivos'))
  PROVE  BloquesInv'
<1>1. vivo' = FALSE
  BY DEF Muere
<1>. QED
  BY <1>1 DEF BloquesInv

LEMMA BloquesVivo ==
  ASSUME vivo', caidas' = 0 => Cuadra(nodos', EnUso') /\ SinBloques(archivos')
  PROVE  BloquesInv'
BY DEF BloquesInv

(* Nothing is on its way, before or after, and the copies are the same.    *)
LEMMA BloquesFuera ==
  ASSUME BaseBloques, vivo, vivo', en["consola"] \notin EnCamino, en'["consola"] \notin EnCamino,
         CopiasDe(archivos') = CopiasDe(archivos), SinBloques(archivos) => SinBloques(archivos'),
         UNCHANGED <<nodos, caidas>>
  PROVE  BloquesInv'
<1>1. EnUso = CopiasDe(archivos) /\ EnUso' = CopiasDe(archivos')
  BY DEF EnUso, EnMano
<1>2. caidas = 0 => Cuadra(nodos, EnUso) /\ SinBloques(archivos)
  BY DEF BaseBloques, BloquesInv
<1>. QED
  BY <1>1, <1>2, BloquesVivo

LEMMA BloquesInit == Init => BloquesInv
<1>. SUFFICES ASSUME Init
              PROVE  BloquesInv
  OBVIOUS
<1>1. nodos = <<>> /\ archivos = <<>> /\ en["consola"] = "libre" /\ vivo
  BY DEF Init, Hilo
<1>2. EnUso = {}
  BY <1>1 DEF EnUso, EnMano, EnCamino, CopiasDe
<1>. QED
  BY <1>1, <1>2 DEF BloquesInv, Cuadra, SinBloques

-----------------------------------------------------------------------------
(* The steps outside uploads.                                              *)

LEMMA BloquesQuieto ==
  ASSUME BaseBloques, vivo, en["consola"] \notin EnCamino, caidas = 0
  PROVE  /\ EnUso = CopiasDe(archivos) /\ Cuadra(nodos, CopiasDe(archivos))
         /\ SinBloques(archivos) /\ Servidores(nodos)
         /\ nodos \in Seq(UnNodo) /\ archivos \in Seq(UnArchivo)
<1>1. EnUso = CopiasDe(archivos)
  BY DEF EnUso, EnMano
<1>2. Cuadra(nodos, EnUso) /\ SinBloques(archivos)
  BY DEF BaseBloques, BloquesInv
<1>3. Servidores(nodos) /\ nodos \in Seq(UnNodo) /\ archivos \in Seq(UnArchivo)
  BY AlDiaLibre DEF BaseBloques, BaseEntera, BaseDia
<1>. QED
  BY <1>1, <1>2, <1>3

LEMMA BloquesOrdenaNodo ==
  ASSUME BaseBloques,
         (\E n \in Nodo : AgregarNodo(n)) \/ (\E i \in DOMAIN nodos : EliminarNodo(i))
  PROVE  BloquesInv'
<1>. DEFINE U == CopiasDe(archivos)
<1>1. /\ Puede("consola") /\ UNCHANGED <<archivos, vivo, caidas>>
      /\ en' = en \/ en' = [en EXCEPT !["consola"] = "creaNodo"]
  BY DEF AgregarNodo, EliminarNodo
<1>2. vivo /\ en["consola"] = "libre" /\ nodos \in Seq(UnNodo)
  BY <1>1, ConsolaLibre, TieneLaConsola DEF BaseBloques, BaseEntera, BaseDia, Base
<1>3. en["consola"] \notin EnCamino /\ en'["consola"] \notin EnCamino
  <2>1. en'["consola"] \in {"libre", "creaNodo"}
    BY <1>1, <1>2, EnConsola DEF BaseBloques, BaseEntera
  <2>. QED
    BY <1>2, <2>1 DEF EnCamino
<1>4. EnUso' = U
  BY <1>1, <1>3 DEF EnUso, EnMano
<1>5. caidas = 0 => Cuadra(nodos, U) /\ SinBloques(archivos) /\ Servidores(nodos)
  BY <1>2, <1>3, BloquesQuieto
<1>. DEFINE Sigue(i) ==
              /\ DOMAIN nodos' = DOMAIN nodos /\ \A j \in DOMAIN nodos \ {i} : nodos'[j] = nodos[j]
              /\ nodos'[i].nombre = nodos[i].nombre /\ nodos'[i].estado # 0
              /\ \/ nodos[i].estado # 0 /\ nodos'[i].libres = nodos[i].libres
                 \/ \A b \in Bloque0 : b \in ToSet(nodos'[i].libres)
<1>6. \E i \in DOMAIN nodos : Sigue(i)
  <2>1. ASSUME NEW n \in Nodo, AgregarNodo(n), NEW i, i = NodoDe(n)
        PROVE  i \in DOMAIN nodos /\ Sigue(i)
    <3>1. i # 0 /\ i \in 0..Len(nodos)
      BY <1>2, <2>1, NodoBuscado DEF AgregarNodo
    <3>2. i \in DOMAIN nodos
      BY <1>2, <3>1
    <3>3. nodos[i] \in UnNodo
      BY <1>2, <3>2
    <3>4. CASE nodos[i].estado = -1
      <4>. DEFINE x == Vuelve(nodos[i])
      <4>1. nodos' = [nodos EXCEPT ![i] = x]
        BY <2>1, <3>4 DEF AgregarNodo
      <4>2. x.nombre = nodos[i].nombre /\ x.estado = 1 /\ x.libres = nodos[i].libres
        BY <3>3 DEF Vuelve, UnNodo
      <4>. HIDE DEF x
      <4>. QED
        BY <3>2, <3>4, <4>1, <4>2
    <3>5. CASE nodos[i].estado # -1
      <4>. DEFINE x == Habilita(nodos[i])
      <4>1. nodos' = [nodos EXCEPT ![i] = x]
        BY <2>1, <3>5 DEF AgregarNodo
      <4>2. /\ x.nombre = nodos[i].nombre /\ x.estado # 0
            /\ \A b \in Bloque0 : b \in ToSet(x.libres)
        BY <3>3, HabilitaTodo
      <4>. HIDE DEF x
      <4>. QED
        BY <3>2, <4>1, <4>2
    <3>. QED
      BY <3>4, <3>5
  <2>2. ASSUME NEW i \in DOMAIN nodos, EliminarNodo(i)
        PROVE  Sigue(i)
    <3>. DEFINE x == [nodos[i] EXCEPT !.estado = -1]
    <3>1. nodos' = [nodos EXCEPT ![i] = x] /\ nodos[i].estado = 1
      BY <2>2 DEF EliminarNodo, BaseBloques
    <3>2. nodos[i] \in UnNodo
      BY <1>2
    <3>3. x.nombre = nodos[i].nombre /\ x.estado = -1 /\ x.libres = nodos[i].libres
      BY <3>2 DEF UnNodo
    <3>. HIDE DEF x
    <3>. QED
      BY <3>1, <3>3
  <2>. HIDE DEF Sigue
  <2>. QED
    BY <2>1, <2>2
<1>7. PICK i \in DOMAIN nodos : Sigue(i)
  BY <1>6
<1>. HIDE DEF U
<1>8. ASSUME caidas = 0
      PROVE  Cuadra(nodos', U)
  <2>1. Cuadra(nodos, U) /\ Servidores(nodos)
    BY <1>5, <1>8
  <2>2. Contado(nodos'[i], U)
    BY <1>7, <2>1 DEF Cuadra, Contado
  <2>. QED
    BY <1>7, <2>1, <2>2, CuadraNodo
<1>. QED
  BY <1>1, <1>2, <1>4, <1>5, <1>8, BloquesVivo

LEMMA BloquesCreaNodo ==
  ASSUME BaseBloques, CreaNodo
  PROVE  BloquesInv'
<1>. DEFINE e == mano["consola"].luego
<1>1. /\ vivo /\ vivo' /\ en["consola"] = "creaNodo" /\ en' = [en EXCEPT !["consola"] = e]
      /\ UNCHANGED <<nodos, archivos, caidas>>
  BY DEF CreaNodo, contador
<1>2. e \in {"libre", "libera", "creaArchivo"}
  BY TieneLaConsola DEF BaseBloques, BaseEntera, BaseDia, Base, Mano
<1>. HIDE DEF e
<1>3. en'["consola"] = e
  BY <1>1, EnConsola DEF BaseBloques, BaseEntera
<1>4. en["consola"] \notin EnCamino /\ en'["consola"] \notin EnCamino
  BY <1>1, <1>2, <1>3 DEF EnCamino
<1>. QED
  BY <1>1, <1>4, BloquesFuera

(* A node that arrives has no blocks to account for.                       *)
LEMMA BloquesLlegada ==
  ASSUME BaseBloques, NEW n \in Nodo, NodoSePresenta(n) \/ NodoAgregado(n)
  PROVE  BloquesInv'
<1>1. /\ vivo /\ vivo' /\ UNCHANGED <<archivos, en, mano, caidas>>
      /\ \/ nodos' = nodos
         \/ nodos' = Append(nodos, [dir |-> n, nombre |-> nombre, estado |-> 0, libres |-> <<>>])
  BY DEF NodoSePresenta, NodoAgregado, contador
<1>2. EnUso' = EnUso
  BY <1>1 DEF EnUso, EnMano
<1>3. nodos \in Seq(UnNodo)
  BY TieneLaConsola DEF BaseBloques, BaseEntera, BaseDia, Base
<1>4. /\ \A k \in DOMAIN nodos' : nodos'[k].estado # 0 => k \in DOMAIN nodos /\ nodos'[k] = nodos[k]
      /\ \A k \in DOMAIN nodos : k \in DOMAIN nodos' /\ nodos'[k] = nodos[k]
  BY <1>1, <1>3
<1>5. caidas = 0 => Cuadra(nodos, EnUso) /\ SinBloques(archivos)
  BY <1>1 DEF BaseBloques, BloquesInv
<1>6. Cuadra(nodos, EnUso) => Cuadra(nodos', EnUso)
  BY <1>4 DEF Cuadra
<1>. QED
  BY <1>1, <1>2, <1>5, <1>6, BloquesVivo

(* The commands on files.                                                  *)
LEMMA BloquesOrdena ==
  ASSUME BaseBloques,
         \/ \E r, nueva \in Ruta : Renombrar(r, nueva)
         \/ \E r \in Ruta : EliminarArchivo(r)
         \/ \E r \in Ruta, b, c \in Respuesta : BorrarBloque(r, b, c)
  PROVE  BloquesInv'
<1>1. Puede("consola") /\ UNCHANGED caidas
  BY DEF Renombrar, EliminarArchivo, BorrarBloque, Ordena
<1>2. vivo /\ en["consola"] = "libre" /\ archivos \in Seq(UnArchivo)
  BY <1>1, ConsolaLibre, TieneLaConsola DEF BaseBloques, BaseEntera, BaseDia, Base
<1>3. /\ UNCHANGED <<nodos, vivo>>
      /\ \E e \in DeArchivo : en' = [en EXCEPT !["consola"] = e]
      /\ \/ UNCHANGED archivos
         \/ \E a, r : archivos' = [archivos EXCEPT ![a].ruta = r]
  <2>1. CASE \E r, nueva \in Ruta : Renombrar(r, nueva)
    BY <2>1 DEF Renombrar, DeArchivo
  <2>2. CASE \E r \in Ruta : EliminarArchivo(r)
    BY <2>2 DEF EliminarArchivo, DeArchivo
  <2>3. ASSUME NEW r \in Ruta, NEW b \in Respuesta, NEW c \in Respuesta, BorrarBloque(r, b, c)
        PROVE  UNCHANGED <<nodos, vivo, archivos>> /\ en' = [en EXCEPT !["consola"] = "quita"]
    <3>. DEFINE copias == archivos[ArchivoEn(r)].bloques[b].copias
    <3>1. "borde" \notin Eventos
      BY DEF BaseBloques
    <3>2. ~(b > Len(archivos[ArchivoEn(r)].bloques))
      BY <2>3, <3>1 DEF BorrarBloque
    <3>3. c <= Len(copias) + 0
      BY <2>3, <3>1, <3>2 DEF BorrarBloque
    <3>4. ~(c > Len(copias))
      <4>1. ArchivoEn(r) \in DOMAIN archivos
        BY <1>2, <2>3, ArchivoVigente DEF BorrarBloque
      <4>2. archivos[ArchivoEn(r)] \in UnArchivo
        BY <1>2, <4>1
      <4>. DEFINE bl == archivos[ArchivoEn(r)].bloques
      <4>3. bl \in Seq(UnBloque)
        BY <4>2 DEF UnArchivo
      <4>4. bl[b] \in UnBloque
        <5>. HIDE DEF bl
        <5>1. ~(b > Len(bl))
          BY <3>2 DEF bl
        <5>. QED
          BY <4>3, <5>1 DEF Respuesta
      <4>6. copias \in Seq(UnaCopia)
        BY <4>4 DEF UnBloque
      <4>5. Len(copias) \in Nat /\ c \in Nat
        BY <4>6 DEF Respuesta
      <4>. HIDE DEF copias
      <4>. QED
        BY <3>3, <4>5
    <3>. QED
      BY <2>3, <3>2, <3>4 DEF BorrarBloque
  <2>. QED
    BY <2>1, <2>2, <2>3 DEF DeArchivo
<1>4. en["consola"] \notin EnCamino /\ en'["consola"] \notin EnCamino
  <2>1. en'["consola"] \in DeArchivo
    BY <1>3, EnConsola DEF BaseBloques, BaseEntera
  <2>. QED
    BY <1>2, <2>1 DEF EnCamino, DeArchivo
<1>5. /\ DOMAIN archivos' = DOMAIN archivos
      /\ \A k \in DOMAIN archivos : /\ archivos'[k].bloques = archivos[k].bloques
                                    /\ archivos'[k].colgado = archivos[k].colgado
  <2>1. ASSUME NEW a, NEW r, archivos' = [archivos EXCEPT ![a].ruta = r]
        PROVE  /\ DOMAIN archivos' = DOMAIN archivos
               /\ \A k \in DOMAIN archivos : /\ archivos'[k].bloques = archivos[k].bloques
                                             /\ archivos'[k].colgado = archivos[k].colgado
    BY <1>2, <2>1 DEF UnArchivo
  <2>. QED
    BY <1>3, <2>1
<1>6. CopiasDe(archivos') = CopiasDe(archivos)
  BY <1>5, CopiasIguales
<1>7. SinBloques(archivos) => SinBloques(archivos')
  BY <1>5 DEF SinBloques
<1>. QED
  BY <1>1, <1>2, <1>3, <1>4, <1>6, <1>7, BloquesFuera

(* With nothing in hand MongoDB accounts for the same blocks.              *)
LEMMA BloquesImagen ==
  ASSUME BaseBloques, Puede("consola"), caidas = 0
  PROVE  Cuadra(mongoNodos, CopiasDe(mongoArchivos))
<1>1. /\ vivo /\ en["consola"] = "libre"
      /\ Guardados(mongoNodos, nodos, {}) /\ Completo(mongoArchivos, archivos, {})
  BY ConsolaLibre DEF BaseBloques, BaseEntera
<1>2. en["consola"] \notin EnCamino
  BY <1>1 DEF EnCamino
<1>3. /\ Cuadra(nodos, CopiasDe(archivos)) /\ SinBloques(archivos)
      /\ archivos \in Seq(UnArchivo)
  BY <1>1, <1>2, BloquesQuieto
<1>4. NodosReflejados(mongoNodos, nodos, {}) /\ mongoArchivos \in Seq(UnArchivo)
  BY <1>1, AlDiaLibre DEF BaseBloques, BaseEntera, BaseDia
<1>5. CopiasDe(mongoArchivos) = CopiasDe(archivos)
  BY <1>1, <1>3, <1>4, CopiasGuardadas
<1>6. \A d \in DOMAIN mongoNodos : \E k \in DOMAIN nodos : mongoNodos[d] = nodos[k]
  BY <1>4 DEF NodosReflejados
<1>7. \A k \in DOMAIN nodos : nodos[k].estado # 0 =>
        \E d \in DOMAIN mongoNodos : mongoNodos[d] = nodos[k]
  BY <1>1 DEF Guardados
<1>. QED
  BY <1>3, <1>5, <1>6, <1>7 DEF Cuadra

LEMMA BloquesLeeLiberado ==
  ASSUME BaseBloques, LeeLiberado
  PROVE  BloquesInv'
<1>1. Muere /\ Puede("consola") /\ UNCHANGED <<mongoNodos, mongoArchivos, caidas>>
  BY DEF LeeLiberado, Ordena, mongo
<1>. QED
  BY <1>1, BloquesImagen, BloquesMuere

LEMMA BloquesCaida ==
  ASSUME BaseBloques, Caida \/ \E h \in Hilo : NodoNoAtiende(h)
  PROVE  BloquesInv'
<1>1. Muere /\ caidas' = caidas + 1 /\ caidas \in Nat
  BY DEF Caida, NodoNoAtiende, BaseBloques, BaseEntera, BaseDia, Base, UsosInv, Registro
<1>. QED
  BY <1>1, BloquesMuere

LEMMA BloquesArranca ==
  ASSUME BaseBloques, Arranca
  PROVE  BloquesInv'
<1>1. /\ ~vivo /\ vivo' /\ nodos' = mongoNodos /\ archivos' = mongoArchivos
      /\ UNCHANGED <<en, caidas>>
  BY DEF Arranca, contador
<1>2. en'["consola"] = "libre"
  BY <1>1 DEF BaseBloques, BaseEntera, BaseDia, Base, Muerto, Hilo
<1>3. EnUso' = CopiasDe(mongoArchivos)
  BY <1>1, <1>2 DEF EnUso, EnMano, EnCamino
<1>4. caidas = 0 => Cuadra(mongoNodos, CopiasDe(mongoArchivos))
  BY <1>1 DEF BaseBloques, BloquesInv
<1>5. SinBloques(mongoArchivos)
  BY DEF SinBloques, BaseBloques, BaseEntera, BaseDia, AlDia, SinColgados
<1>. QED
  BY <1>1, <1>3, <1>4, <1>5, BloquesVivo

LEMMA BloquesCreaArchivo ==
  ASSUME BaseBloques, CreaArchivo
  PROVE  BloquesInv'
<1>1. /\ vivo /\ vivo' /\ en["consola"] = "creaArchivo"
      /\ en' = [en EXCEPT !["consola"] = "libre"] /\ UNCHANGED <<nodos, archivos, caidas>>
  BY DEF CreaArchivo, contador
<1>2. en'["consola"] = "libre"
  BY <1>1, EnConsola DEF BaseBloques, BaseEntera
<1>3. en["consola"] \notin EnCamino /\ en'["consola"] \notin EnCamino
  BY <1>1, <1>2 DEF EnCamino
<1>. QED
  BY <1>1, <1>3, BloquesFuera

(* What is left of a list when one element goes.                           *)
LEMMA QuedanLosDemas ==
  ASSUME NEW S, NEW s \in Seq(S), NEW c \in DOMAIN s, NEW r, r = RemoveAt(s, c)
  PROVE  /\ \A k \in DOMAIN s : k = c \/ \E d \in DOMAIN r : r[d] = s[k]
         /\ \A d \in DOMAIN r : \E k \in DOMAIN s : r[d] = s[k]
<1>1. /\ r \in Seq(S) /\ Len(r) = Len(s) - 1 /\ DOMAIN s = 1..Len(s) /\ Len(s) \in Nat
      /\ \A d \in 1..(Len(s) - 1) : r[d] = s[IF d < c THEN d ELSE d + 1]
  <2>1. DOMAIN s = 1..Len(s) /\ Len(s) \in Nat /\ c \in 1..Len(s)
    OBVIOUS
  <2>. QED
    BY <2>1, RemoveAtEs
<1>2. DOMAIN r = 1..(Len(s) - 1)
  BY <1>1
<1>3. ASSUME NEW k \in DOMAIN s, k < c
      PROVE  k \in DOMAIN r /\ r[k] = s[k]
  BY <1>1, <1>2, <1>3
<1>4. ASSUME NEW k \in DOMAIN s, k > c
      PROVE  k - 1 \in DOMAIN r /\ r[k - 1] = s[k]
  BY <1>1, <1>2, <1>4
<1>5. \A k \in DOMAIN s : k < c \/ k = c \/ k > c
  BY <1>1
<1>6. \A d \in DOMAIN r : \E k \in DOMAIN s : r[d] = s[k]
  BY SinElemento
<1>. QED
  BY <1>3, <1>4, <1>5, <1>6

(* The copies of the files lose at most the one that is removed.           *)
LEMMA QuitaUna ==
  ASSUME NEW A \in Seq(UnArchivo), NEW a \in DOMAIN A, NEW b \in DOMAIN A[a].bloques,
         NEW c \in DOMAIN A[a].bloques[b].copias, NEW K, SinLaCopia(A, K, a, b, c),
         NEW x, x = A[a].bloques[b].copias[c]
  PROVE  /\ x \in CopiasDe(A) /\ x \in UnaCopia
         /\ \A y \in CopiasDe(K) : y \in CopiasDe(A)
         /\ \A y \in CopiasDe(A) : y = x \/ y \in CopiasDe(K)
         /\ SinBloques(A) => SinBloques(K)
<1>. DEFINE v == A[a]
            l == v.bloques
            s == l[b].copias
            r == RemoveAt(s, c)
            y1 == [l[b] EXCEPT !.copias = r]
            l1 == [l EXCEPT ![b] = y1]
            v1 == [v EXCEPT !.bloques = l1]
<1>1. v \in UnArchivo
  OBVIOUS
<1>2. l \in Seq(UnBloque)
  BY <1>1 DEF UnArchivo
<1>3. l[b] \in UnBloque
  <2>. HIDE DEF l
  <2>1. b \in DOMAIN l
    BY DEF l
  <2>. QED
    BY <1>2, <2>1
<1>4. s \in Seq(UnaCopia)
  BY <1>3 DEF UnBloque
<1>5. s[c] \in UnaCopia /\ x = s[c]
  <2>. HIDE DEF s
  <2>1. c \in DOMAIN s
    BY DEF s
  <2>2. s[c] \in UnaCopia
    BY <1>4, <2>1
  <2>. QED
    BY <2>2 DEF s
<1>6. K = [A EXCEPT ![a] = v1]
  BY DEF SinLaCopia
<1>. HIDE DEF r
<1>7. y1.copias = r
  BY <1>3 DEF UnBloque
<1>. HIDE DEF y1
<1>8. DOMAIN l1 = DOMAIN l /\ l1[b] = y1 /\ \A d \in DOMAIN l \ {b} : l1[d] = l[d]
  OBVIOUS
<1>. HIDE DEF l1
<1>9. v1.bloques = l1 /\ v1.colgado = v.colgado
  BY <1>1 DEF UnArchivo
<1>. HIDE DEF v1
<1>10. DOMAIN K = DOMAIN A /\ K[a] = v1 /\ \A d \in DOMAIN A \ {a} : K[d] = A[d]
  BY <1>6
<1>11. /\ \A k \in DOMAIN s : k = c \/ \E d \in DOMAIN r : r[d] = s[k]
       /\ \A d \in DOMAIN r : \E k \in DOMAIN s : r[d] = s[k]
  <2>. HIDE DEF s
  <2>1. c \in DOMAIN s
    BY DEF s
  <2>. QED
    BY <1>4, <2>1, QuedanLosDemas DEF r
<1>12. ASSUME NEW y
       PROVE  /\ EnArchivo(v1, y) => EnArchivo(v, y)
              /\ EnArchivo(v, y) => y = x \/ EnArchivo(v1, y)
  <2>1. /\ Contiene(y1, y) => Contiene(l[b], y)
        /\ Contiene(l[b], y) => y = x \/ Contiene(y1, y)
    BY <1>5, <1>7, <1>11 DEF Contiene
  <2>. QED
    BY <1>8, <1>9, <2>1 DEF EnArchivo
<1>13. EnArchivo(v, x)
  BY <1>5 DEF EnArchivo, Contiene
<1>14. x \in CopiasDe(A)
  BY <1>5, <1>13 DEF CopiasDe
<1>15. \A y \in CopiasDe(K) : y \in CopiasDe(A)
  BY <1>10, <1>12 DEF CopiasDe
<1>16. \A y \in CopiasDe(A) : y = x \/ y \in CopiasDe(K)
  BY <1>10, <1>12 DEF CopiasDe
<1>17. SinBloques(A) => SinBloques(K)
  <2>1. v.bloques # <<>>
    BY <1>2
  <2>. HIDE DEF v
  <2>. QED
    BY <1>9, <1>10, <2>1 DEF SinBloques, v
<1>. QED
  BY <1>5, <1>14, <1>15, <1>16, <1>17

(* A copy leaves its block and its number is free again at its node.       *)
LEMMA BloquesQuitaCopia ==
  ASSUME BaseBloques, vivo, en["consola"] \in DeArchivo, NEW a \in DOMAIN archivos,
         NEW b \in DOMAIN archivos[a].bloques, NEW c \in DOMAIN archivos[a].bloques[b].copias,
         NEW luego, QuitaCopia(a, b, c, luego), UNCHANGED caidas
  PROVE  BloquesInv'
<1>. DEFINE x == archivos[a].bloques[b].copias[c]
            i == PorNombre(x.nodo)
            U == CopiasDe(archivos)
            V == CopiasDe(archivos')
            n == Devuelve(nodos[i], x.bloque)
<1>1. CASE caidas # 0
  BY <1>1 DEF BloquesInv
<1>2. CASE caidas = 0
  <2>1. en["consola"] \notin EnCamino
    BY DEF DeArchivo, EnCamino
  <2>2. /\ Cuadra(nodos, U) /\ SinBloques(archivos) /\ Servidores(nodos)
        /\ nodos \in Seq(UnNodo) /\ archivos \in Seq(UnArchivo)
    BY <1>2, <2>1, BloquesQuieto
  <2>3. x \in U /\ x \in UnaCopia
    <3>. DEFINE K == [archivos EXCEPT ![a].bloques[b].copias = RemoveAt(@, c)]
    <3>1. SinLaCopia(archivos, K, a, b, c)
      BY DEF SinLaCopia
    <3>. HIDE DEF K
    <3>. QED
      BY <2>2, <3>1, QuitaUna
  <2>4. PICK j \in DOMAIN nodos : nodos[j].nombre = x.nodo /\ nodos[j].estado # 0
    BY <2>2, <2>3 DEF Cuadra
  <2>. HIDE DEF x
  <2>5. i \in DOMAIN nodos /\ nodos[i].nombre = x.nodo /\ i # 0
    BY <2>2, <2>4, NombreHallado
  <2>6. nodos[i].estado # 0
    BY <2>2, <2>4, <2>5 DEF Servidores
  <2>7. /\ archivos' = [archivos EXCEPT ![a].bloques[b].copias = RemoveAt(@, c)]
        /\ nodos' = [nodos EXCEPT ![i] = n]
        /\ en' = [en EXCEPT !["consola"] = "creaNodo"] /\ vivo' = vivo
    BY <2>5 DEF QuitaCopia, x
  <2>8. /\ \A y \in V : y \in U
        /\ \A y \in U : y = x \/ y \in V
        /\ SinBloques(archivos')
    <3>1. SinLaCopia(archivos, archivos', a, b, c)
      BY <2>7 DEF SinLaCopia
    <3>. QED
      BY <2>2, <3>1, QuitaUna DEF x
  <2>. HIDE DEF i, U, V
  <2>9. /\ n.nombre = nodos[i].nombre /\ n.estado = nodos[i].estado
        /\ \A d \in ToSet(nodos[i].libres) : d \in ToSet(n.libres)
        /\ x.bloque \in ToSet(n.libres)
    <3>1. nodos[i] \in UnNodo /\ x.bloque \in Bloque0
      BY <2>2, <2>3, <2>5 DEF UnaCopia
    <3>. QED
      BY <3>1, DevuelveUno
  <2>. HIDE DEF n
  <2>10. Contado(n, V)
    <3>1. Contado(nodos[i], U)
      BY <2>2, <2>5, <2>6 DEF Cuadra
    <3>. QED
      BY <2>8, <2>9, <3>1 DEF Contado
  <2>11. DOMAIN nodos' = DOMAIN nodos /\ nodos'[i] = n /\ \A k \in DOMAIN nodos \ {i} : nodos'[k] = nodos[k]
    BY <2>2, <2>5, <2>7
  <2>12. /\ \A y \in U : y.nodo # n.nombre => y \in V
         /\ \A y \in V : y \in U \/ y.nodo = n.nombre
    BY <2>5, <2>8, <2>9
  <2>13. Cuadra(nodos', V)
    <3>. DEFINE L == nodos'
    <3>1. DOMAIN L = DOMAIN nodos /\ L[i] = n /\ \A k \in DOMAIN nodos \ {i} : L[k] = nodos[k]
      BY <2>11
    <3>. HIDE DEF L
    <3>2. Cuadra(nodos, U) /\ Servidores(nodos) /\ i \in DOMAIN nodos
      BY <2>2, <2>5
    <3>3. n = L[i] /\ n.nombre = nodos[i].nombre /\ n.estado # 0 /\ Contado(n, V)
      BY <2>6, <2>9, <2>10, <3>1
    <3>4. /\ \A y \in U : y.nodo # n.nombre => y \in V
          /\ \A y \in V : y \in U \/ y.nodo = n.nombre
      BY <2>12
    <3>5. Cuadra(L, V)
      BY <3>1, <3>2, <3>3, <3>4, CuadraNodo
    <3>. QED
      BY <3>5 DEF L
  <2>14. en'["consola"] \notin EnCamino
    <3>1. en'["consola"] = "creaNodo"
      BY <2>7, EnConsola DEF BaseBloques, BaseEntera
    <3>. QED
      BY <3>1 DEF EnCamino
  <2>15. EnUso' = V
    BY <2>14 DEF EnUso, EnMano, V
  <2>. QED
    BY <2>7, <2>8, <2>13, <2>15, BloquesVivo
<1>. QED
  BY <1>1, <1>2

(* A block without copies to remove.                                       *)
LEMMA SinCopiasYa ==
  ASSUME archivos \in Seq(UnArchivo), NEW a \in DOMAIN archivos, ConCopias(a) = 0
  PROVE  \A y : ~EnArchivo(archivos[a], y)
<1>. DEFINE s == archivos[a].bloques
            I == {i \in 1..Len(s) : s[i].copias # <<>>}
<1>1. s \in Seq(UnBloque)
  <2>1. archivos[a] \in UnArchivo
    OBVIOUS
  <2>. QED
    BY <2>1 DEF UnArchivo
<1>2. ConCopias(a) = IF I # {} THEN Min(I) ELSE 0
  BY DEF ConCopias, SelectInSeq
<1>3. I = {}
  <2>1. I \in SUBSET Nat /\ 0 \notin I
    BY <1>1
  <2>. QED
    BY <1>2, <2>1, MinEs
<1>. HIDE DEF s
<1>4. DOMAIN s = 1..Len(s)
  BY <1>1
<1>5. \A k \in DOMAIN s : s[k].copias = <<>>
  BY <1>3, <1>4
<1>. QED
  BY <1>5 DEF EnArchivo, Contiene, s

LEMMA BloquesLibera ==
  ASSUME BaseBloques, Libera \/ Quita
  PROVE  BloquesInv'
<1>. DEFINE a == mano["consola"].arch
<1>1. vivo /\ en["consola"] \in DeArchivo /\ UNCHANGED caidas
  BY DEF Libera, Quita, DeArchivo, contador
<1>2. /\ a \in DOMAIN archivos /\ archivos \in Seq(UnArchivo) /\ archivos[a] \in UnArchivo
      /\ ConsolaOK
  BY <1>1, TieneLaConsola DEF BaseBloques, BaseEntera, BaseDia, Base, TipoInv, ConsolaOK
<1>3. CASE Quita
  <2>1. en["consola"] = "quita"
    BY <1>3 DEF Quita
  <2>. DEFINE b == mano["consola"].cual[1]
              c == mano["consola"].cual[2]
  <2>2. b \in DOMAIN archivos[a].bloques /\ c \in DOMAIN archivos[a].bloques[b].copias
    BY <1>2, <2>1 DEF ConsolaOK
  <2>3. QuitaCopia(a, b, c, "creaArchivo")
    BY <1>3 DEF Quita
  <2>. HIDE DEF a, b, c
  <2>. QED
    BY <1>1, <1>2, <2>2, <2>3, BloquesQuitaCopia
<1>4. CASE Libera /\ ConCopias(a) # 0
  <2>1. QuitaCopia(a, ConCopias(a), 1, "libera")
    BY <1>4 DEF Libera
  <2>. HIDE DEF a
  <2>2. /\ ConCopias(a) \in DOMAIN archivos[a].bloques
        /\ 1 \in DOMAIN archivos[a].bloques[ConCopias(a)].copias
    BY <1>2, <1>4, BloqueBuscado
  <2>. QED
    BY <1>1, <1>2, <2>1, <2>2, BloquesQuitaCopia
<1>5. CASE Libera /\ ConCopias(a) = 0
  <2>1. /\ archivos' = [archivos EXCEPT ![a].colgado = TRUE, ![a].bloques = <<>>]
        /\ en' = [en EXCEPT !["consola"] = "libre"] /\ vivo' = vivo /\ nodos' = nodos
    BY <1>5 DEF Libera
  <2>. HIDE DEF a
  <2>2. /\ DOMAIN archivos' = DOMAIN archivos /\ archivos'[a].bloques = <<>>
        /\ \A k \in DOMAIN archivos \ {a} : archivos'[k] = archivos[k]
    BY <1>2, <2>1 DEF UnArchivo
  <2>3. \A y : ~EnArchivo(archivos[a], y) /\ ~EnArchivo(archivos'[a], y)
    <3>1. \A y : ~EnArchivo(archivos[a], y)
      BY <1>2, <1>5, SinCopiasYa
    <3>2. \A y : ~EnArchivo(archivos'[a], y)
      BY <2>2 DEF EnArchivo
    <3>. QED
      BY <3>1, <3>2
  <2>4. CopiasDe(archivos') = CopiasDe(archivos)
    BY <2>2, <2>3 DEF CopiasDe
  <2>5. SinBloques(archivos) => SinBloques(archivos')
    BY <2>2 DEF SinBloques
  <2>6. en'["consola"] = "libre"
    BY <2>1, EnConsola DEF BaseBloques, BaseEntera
  <2>7. en["consola"] \notin EnCamino /\ en'["consola"] \notin EnCamino
    BY <1>1, <2>6 DEF DeArchivo, EnCamino
  <2>. QED
    BY <1>1, <2>1, <2>4, <2>5, <2>7, BloquesFuera
<1>. QED
  BY <1>3, <1>4, <1>5

-----------------------------------------------------------------------------
(* The steps of an upload.                                                 *)

LEMMA BloquesSubir ==
  ASSUME BaseBloques, NEW r \in Ruta, NEW e \in Envio, SubirArchivo(r, e)
  PROVE  BloquesInv'
<1>. DEFINE x == ArchivoNuevo(r, e)
<1>1. /\ Puede("consola") /\ archivos' = Append(archivos, x)
      /\ en' = [en EXCEPT !["consola"] = "bloque"] /\ UNCHANGED <<nodos, vivo, caidas>>
  BY DEF SubirArchivo
<1>2. vivo /\ en["consola"] = "libre" /\ archivos \in Seq(UnArchivo)
  BY <1>1, ConsolaLibre, TieneLaConsola DEF BaseBloques, BaseEntera, BaseDia, Base
<1>3. en'["consola"] = "bloque"
  BY <1>1, EnConsola DEF BaseBloques, BaseEntera
<1>4. en["consola"] \notin EnCamino /\ en'["consola"] \notin EnCamino
  BY <1>2, <1>3 DEF EnCamino
<1>5. x.bloques = <<>>
  BY DEF ArchivoNuevo
<1>. HIDE DEF x
<1>6. CopiasDe(archivos') = CopiasDe(archivos)
  <2>. DEFINE B == archivos'
  <2>1. B = Append(archivos, x)
    BY <1>1
  <2>. HIDE DEF B
  <2>2. CopiasDe(B) = CopiasDe(archivos)
    BY <1>2, <1>5, <2>1, CopiasMasUno
  <2>. QED
    BY <2>2 DEF B
<1>7. SinBloques(archivos) => SinBloques(archivos')
  <2>1. \A k \in DOMAIN archivos' : (k \in DOMAIN archivos /\ archivos'[k] = archivos[k]) \/ archivos'[k] = x
    BY <1>1, <1>2
  <2>. QED
    BY <1>5, <2>1 DEF SinBloques
<1>. QED
  BY <1>1, <1>2, <1>4, <1>6, <1>7, BloquesFuera

(* The same copies are in use before and after.                            *)
LEMMA BloquesIguales ==
  ASSUME BaseBloques, vivo, vivo', EnUso' = EnUso, SinBloques(archivos) => SinBloques(archivos'),
         UNCHANGED <<nodos, caidas>>
  PROVE  BloquesInv'
<1>1. caidas = 0 => Cuadra(nodos, EnUso) /\ SinBloques(archivos)
  BY DEF BaseBloques, BloquesInv
<1>. QED
  BY <1>1, BloquesVivo

LEMMA BloquesBloque ==
  ASSUME BaseBloques, EmpiezaBloque("consola") \/ TerminaSubida("consola")
  PROVE  BloquesInv'
<1>1. vivo /\ en["consola"] = "bloque" /\ UNCHANGED caidas
  BY DEF EmpiezaBloque, TerminaSubida, contador
<1>2. en["consola"] \in Subiendo /\ en["consola"] \notin EnCamino
  BY <1>1 DEF Subiendo, EnCamino
<1>3. /\ archivo \in DOMAIN archivos /\ archivos \in Seq(UnArchivo)
      /\ mano \in [Hilo -> Mano] /\ "consola" \in Hilo
      /\ mano["consola"] \in Mano /\ caidas = 0 => Subida
  BY <1>1, <1>2, EnSubidaEntera DEF BaseBloques
<1>4. CASE EmpiezaBloque("consola")
  <2>. DEFINE b == [nro |-> nroBloque, dato |-> Head(mano["consola"].datos), copias |-> <<>>]
              m == [mano["consola"] EXCEPT !.bloque = b, !.datos = Tail(@)]
  <2>1. /\ mano' = [mano EXCEPT !["consola"].bloque = b, !["consola"].datos = Tail(@)]
        /\ en' = [en EXCEPT !["consola"] = "busca"] /\ UNCHANGED <<nodos, archivos, vivo>>
    BY <1>4 DEF EmpiezaBloque
  <2>2. mano' = [mano EXCEPT !["consola"] = m]
    BY <1>3, <2>1
  <2>3. m.bloque = b /\ b.copias = <<>>
    BY <1>3 DEF Mano
  <2>. HIDE DEF m, b
  <2>4. mano'["consola"] = m /\ en'["consola"] = "busca"
    BY <1>3, <2>1, <2>2, EnConsola DEF BaseBloques, BaseEntera
  <2>5. EnUso = CopiasDe(archivos)
    BY <1>2 DEF EnUso, EnMano
  <2>6. EnUso' = CopiasDe(archivos)
    <3>1. \A y : ~Contiene(mano'["consola"].bloque, y)
      BY <2>3, <2>4 DEF Contiene
    <3>2. EnMano' = {}
      BY <2>4, <3>1 DEF EnMano
    <3>. QED
      BY <2>1, <3>2 DEF EnUso
  <2>. QED
    BY <1>1, <2>1, <2>5, <2>6, BloquesIguales
<1>5. CASE TerminaSubida("consola") /\ caidas = 0
  <2>1. ~ArchivoPerdido
    BY <1>3, <1>5 DEF Subida, ArchivoPerdido
  <2>2. en' = [en EXCEPT !["consola"] = "libre"] /\ UNCHANGED <<nodos, archivos, vivo>>
    BY <1>5, <2>1 DEF TerminaSubida
  <2>3. en'["consola"] = "libre"
    BY <2>2, EnConsola DEF BaseBloques, BaseEntera
  <2>4. en'["consola"] \notin EnCamino
    BY <2>3 DEF EnCamino
  <2>. QED
    BY <1>1, <1>2, <2>2, <2>4, BloquesFuera
<1>6. CASE caidas # 0
  BY <1>1, <1>6 DEF BloquesInv
<1>. QED
  BY <1>4, <1>5, <1>6

LEMMA BloquesBusca ==
  ASSUME BaseBloques, BuscaNodo("consola")
  PROVE  BloquesInv'
<1>1. vivo /\ en["consola"] = "busca" /\ UNCHANGED caidas
  BY DEF BuscaNodo, contador
<1>2. CASE caidas # 0
  BY <1>1, <1>2 DEF BloquesInv
<1>3. CASE caidas = 0
  <2>1. /\ UNCHANGED <<nodos, archivos, vivo>>
        /\ en' = [en EXCEPT !["consola"] = "toma"]
        /\ mano'["consola"].bloque = mano["consola"].bloque
    BY <1>3, BuscaHalla DEF BaseBloques
  <2>2. en'["consola"] = "toma"
    BY <2>1, EnConsola DEF BaseBloques, BaseEntera
  <2>3. EnMano' = EnMano
    BY <1>1, <2>1, <2>2 DEF EnMano, EnCamino
  <2>4. EnUso' = EnUso
    BY <2>1, <2>3 DEF EnUso
  <2>. QED
    BY <1>1, <2>1, <2>4, BloquesIguales
<1>. QED
  BY <1>2, <1>3

LEMMA BloquesToma ==
  ASSUME BaseBloques, TomaBloque("consola")
  PROVE  BloquesInv'
<1>. DEFINE i == mano["consola"].nodo
            x == nodos[i]
            n == Toma(x)
            c == [nodo |-> x.nombre, bloque |-> BloqueLibre(x)]
            V == EnUso'
<1>1. /\ vivo /\ en["consola"] = "toma" /\ i \in DOMAIN nodos
      /\ nodos' = [nodos EXCEPT ![i] = n]
      /\ mano'["consola"].copia = c
      /\ mano'["consola"].bloque = mano["consola"].bloque
      /\ en'["consola"] = "manda" /\ UNCHANGED <<archivos, vivo, caidas>>
  BY TomaSigue DEF BaseBloques
<1>2. en["consola"] \in Subiendo /\ "consola" \in Hilo
  BY <1>1 DEF Subiendo, Hilo
<1>3. /\ nodos \in Seq(UnNodo) /\ Servidores(nodos) /\ \A j \in DOMAIN nodos : nodos[j].estado # 0
  BY <1>1, <1>2, EnSubida, AlDiaLibre DEF BaseBloques, BaseEntera, BaseDia
<1>4. CASE caidas # 0
  BY <1>1, <1>4 DEF BloquesInv
<1>5. CASE caidas = 0
  <2>1. Cuadra(nodos, EnUso) /\ SinBloques(archivos)
    BY <1>1, <1>5 DEF BaseBloques, BloquesInv
  <2>. HIDE DEF i
  <2>2. x \in UnNodo
    BY <1>1, <1>3
  <2>. HIDE DEF x
  <2>3. /\ n.nombre = x.nombre /\ n.estado = x.estado
        /\ \A b \in ToSet(x.libres) : b \in ToSet(n.libres) \/ b = BloqueLibre(x)
    BY <2>2, TomaUno
  <2>4. c \in UnaCopia /\ c.nodo = x.nombre /\ c.bloque = BloqueLibre(x)
    <3>1. BloqueLibre(x) \in Bloque0
      <4>. DEFINE s == x.libres
      <4>1. s \in Seq(Bloque0)
        BY <2>2 DEF UnNodo
      <4>2. s # <<>> => Head(s) \in Bloque0
        <5>. HIDE DEF s
        <5>. QED
          BY <4>1
      <4>. QED
        BY <4>2, MDFSAssumption DEF BloqueLibre, Bloque0
    <3>. QED
      BY <2>2, <3>1 DEF UnaCopia, UnNodo
  <2>. HIDE DEF c, n
  <2>5. /\ \A y \in EnUso : y \in V
        /\ \A y \in V : y \in EnUso \/ y = c
        /\ c \in V
    <3>1. /\ EnMano = {y \in UnaCopia : Contiene(mano["consola"].bloque, y)}
          /\ EnMano' = {y \in UnaCopia : Contiene(mano["consola"].bloque, y) \/ c = y}
      BY <1>1 DEF EnMano, EnCamino
    <3>2. CopiasDe(archivos') = CopiasDe(archivos)
      BY <1>1
    <3>. QED
      BY <2>4, <3>1, <3>2 DEF EnUso
  <2>. HIDE DEF V
  <2>6. Contado(n, V)
    <3>1. Contado(x, EnUso)
      BY <1>1, <1>3, <2>1 DEF Cuadra, x
    <3>. QED
      BY <2>3, <2>4, <2>5, <3>1 DEF Contado
  <2>7. Cuadra(nodos', V)
    <3>. DEFINE L == nodos'
    <3>1. DOMAIN L = DOMAIN nodos /\ L[i] = n /\ \A k \in DOMAIN nodos \ {i} : L[k] = nodos[k]
      BY <1>1, <1>3
    <3>. HIDE DEF L
    <3>2. n = L[i] /\ n.nombre = nodos[i].nombre /\ n.estado # 0
      BY <1>1, <1>3, <2>3, <3>1 DEF x
    <3>3. /\ \A y \in EnUso : y.nodo # n.nombre => y \in V
          /\ \A y \in V : y \in EnUso \/ y.nodo = n.nombre
      BY <2>3, <2>4, <2>5
    <3>4. i \in DOMAIN nodos /\ Cuadra(nodos, EnUso) /\ Servidores(nodos)
      BY <1>1, <1>3, <2>1
    <3>5. Cuadra(L, V)
      BY <2>6, <3>1, <3>2, <3>3, <3>4, CuadraNodo
    <3>. QED
      BY <3>5 DEF L
  <2>. QED
    BY <1>1, <2>1, <2>7, BloquesVivo DEF V
<1>. QED
  BY <1>4, <1>5

(* The copies of a block with one more.                                    *)
LEMMA ContieneMas ==
  ASSUME NEW x \in UnBloque, NEW c, c \in UnaCopia, NEW b, b.copias = Append(x.copias, c), NEW y
  PROVE  Contiene(b, y) <=> Contiene(x, y) \/ c = y
<1>. DEFINE s == x.copias
            t == Append(s, c)
<1>1. s \in Seq(UnaCopia)
  BY DEF UnBloque
<1>. HIDE DEF s
<1>2. /\ DOMAIN t = DOMAIN s \cup {Len(s) + 1} /\ t[Len(s) + 1] = c
      /\ \A k \in DOMAIN s : t[k] = s[k]
  BY <1>1
<1>. HIDE DEF t
<1>3. b.copias = t
  BY DEF s, t
<1>4. (\E k \in DOMAIN t : t[k] = y) <=> (\E k \in DOMAIN s : s[k] = y) \/ c = y
  BY <1>2
<1>. QED
  BY <1>3, <1>4 DEF Contiene, s

LEMMA BloquesManda ==
  ASSUME BaseBloques, MandaCopia("consola")
  PROVE  BloquesInv'
<1>1. vivo /\ en["consola"] = "manda" /\ UNCHANGED caidas
  BY DEF MandaCopia, contador
<1>2. en["consola"] \in Subiendo
  BY <1>1 DEF Subiendo
<1>3. CASE caidas # 0
  BY <1>1, <1>3 DEF BloquesInv
<1>4. CASE caidas = 0
  <2>. DEFINE c == mano["consola"].copia
              x == mano["consola"].bloque
              b == [x EXCEPT !.copias = Append(@, c)]
  <2>1. /\ b \in UnBloque /\ b.copias = Append(x.copias, c) /\ c \in UnaCopia
        /\ UNCHANGED <<nodos, archivo, vivo>>
        /\ \/ /\ mano'["consola"].bloque = b
              /\ en'["consola"] = "busca" /\ UNCHANGED archivos
           \/ /\ archivos' = [archivos EXCEPT ![archivo].bloques = Append(@, b)]
              /\ en'["consola"] = "bloque"
    BY <1>4, MandaSigue DEF BaseBloques
  <2>. HIDE DEF b
  <2>2. /\ archivo \in DOMAIN archivos /\ archivos[archivo] \in UnArchivo
        /\ archivos \in Seq(UnArchivo) /\ mano["consola"] \in Mano /\ Subida
    BY <1>1, <1>2, <1>4, EnSubidaEntera DEF BaseBloques
  <2>3. x \in UnBloque
    BY <2>2 DEF Mano
  <2>. HIDE DEF c, x
  <2>4. \A y : Contiene(b, y) <=> Contiene(x, y) \/ c = y
    BY <2>1, <2>3, ContieneMas
  <2>5. EnMano = {y \in UnaCopia : Contiene(b, y)}
    <3>1. EnMano = {y \in UnaCopia : Contiene(x, y) \/ c = y}
      BY <1>1 DEF EnMano, EnCamino, x, c
    <3>. QED
      BY <2>4, <3>1
  <2>6. CASE /\ mano'["consola"].bloque = b
             /\ en'["consola"] = "busca" /\ UNCHANGED archivos
    <3>1. EnMano' = {y \in UnaCopia : Contiene(b, y)}
      BY <2>6 DEF EnMano, EnCamino
    <3>2. EnUso' = EnUso
      BY <2>5, <2>6, <3>1 DEF EnUso
    <3>. QED
      BY <1>1, <2>1, <2>6, <3>2, BloquesIguales
  <2>7. CASE /\ archivos' = [archivos EXCEPT ![archivo].bloques = Append(@, b)]
             /\ en'["consola"] = "bloque"
    <3>. DEFINE a == archivos[archivo]
                s == a.bloques
                bl == Append(s, b)
                y == [a EXCEPT !.bloques = bl]
    <3>1. archivos' = [archivos EXCEPT ![archivo] = y]
      BY <2>7
    <3>2. s \in Seq(UnBloque)
      BY <2>2 DEF UnArchivo
    <3>3. /\ DOMAIN bl = DOMAIN s \cup {Len(s) + 1} /\ bl[Len(s) + 1] = b
          /\ \A k \in DOMAIN s : bl[k] = s[k]
      <4>. HIDE DEF s
      <4>. QED
        BY <2>1, <3>2
    <3>. HIDE DEF bl
    <3>4. y.bloques = bl /\ y.colgado = a.colgado
      BY <2>2 DEF UnArchivo
    <3>. HIDE DEF y
    <3>5. /\ DOMAIN archivos' = DOMAIN archivos /\ archivos'[archivo] = y
          /\ \A k \in DOMAIN archivos \ {archivo} : archivos'[k] = archivos[k]
      BY <2>2, <3>1
    <3>6. \A z : EnArchivo(y, z) <=> EnArchivo(a, z) \/ Contiene(b, z)
      BY <3>3, <3>4 DEF EnArchivo
    <3>7. CopiasDe(archivos') = CopiasDe(archivos) \cup {z \in UnaCopia : Contiene(b, z)}
      BY <2>2, <3>5, <3>6 DEF CopiasDe
    <3>8. EnMano' = {}
      BY <2>7 DEF EnMano, EnCamino
    <3>9. EnUso' = EnUso
      BY <2>5, <3>7, <3>8 DEF EnUso
    <3>10. SinBloques(archivos) => SinBloques(archivos')
      <4>1. ~a.colgado
        BY <2>2 DEF Subida
      <4>. QED
        BY <3>4, <3>5, <4>1 DEF SinBloques
    <3>. QED
      BY <1>1, <2>1, <3>9, <3>10, BloquesIguales
  <2>. QED
    BY <2>1, <2>6, <2>7
<1>. QED
  BY <1>3, <1>4

-----------------------------------------------------------------------------

LEMMA BloquesPaso ==
  ASSUME BaseBloques, [Next]_vars
  PROVE  BloquesInv'
<1>1. CASE ConsolaPaso
  <2>1. ~Formatear /\ ~FormateaNodos
    BY DEF Formatear, FormateaNodos, BaseBloques, BaseEntera, BaseDia, SoloConsola, Base,
           UsosInv, Registro
  <2>. QED
    BY <1>1, <2>1, BloquesOrdenaNodo, BloquesCreaNodo, BloquesSubir, BloquesOrdena,
       BloquesCreaArchivo, BloquesLibera, BloquesLeeLiberado DEF ConsolaPaso
<1>2. CASE ServidorPaso
  <2>1. ~\E r \in Ruta : SubirResultado(r)
    BY DEF SubirResultado, BaseBloques
  <2>. QED
    BY <1>2, <2>1, BloquesLlegada DEF ServidorPaso
<1>3. ASSUME NEW h \in Hilo, SubidaPaso(h)
      PROVE  BloquesInv'
  <2>1. en[h] # "libre"
    BY <1>3 DEF SubidaPaso, EmpiezaBloque, TerminaSubida, BuscaNodo, TomaBloque, MandaCopia
  <2>2. h = "consola"
    BY <2>1 DEF BaseBloques, BaseEntera, BaseDia, AlDia, Hilo
  <2>. QED
    BY <1>3, <2>2, BloquesBloque, BloquesBusca, BloquesToma, BloquesManda DEF SubidaPaso
<1>4. CASE Caida \/ \E h \in Hilo : NodoNoAtiende(h)
  BY <1>4, BloquesCaida
<1>5. CASE Arranca
  BY <1>5, BloquesArranca
<1>6. CASE UNCHANGED vars
  <2>1. UNCHANGED <<nodos, archivos, en, mano, mongoNodos, mongoArchivos, vivo, caidas>>
    BY <1>6 DEF vars, memoria, mongo, contador
  <2>2. EnMano' = EnMano
    BY <2>1 DEF EnMano
  <2>3. EnUso' = EnUso
    BY <2>1, <2>2 DEF EnUso
  <2>4. BloquesInv' <=> BloquesInv
    BY <2>1, <2>3 DEF BloquesInv
  <2>. QED
    BY <2>4 DEF BaseBloques
<1>. QED
  BY <1>1, <1>2, <1>3, <1>4, <1>5, <1>6 DEF Next

LEMMA BloquesSiempre ==
  ASSUME SoloConsola, Eventos = {}, Cardinality(Nodo) >= 3
  PROVE  Spec => [](Base /\ AlDia /\ EnterosInv /\ BloquesInv)
<1>1. Spec => [](Base /\ AlDia /\ EnterosInv)
  BY EnterosSiempre
<1>2. Base /\ AlDia /\ EnterosInv /\ BloquesInv /\ [Next]_vars => BloquesInv'
  BY BloquesPaso DEF BaseBloques, BaseEntera, BaseDia
<1>. QED
  BY <1>1, <1>2, BloquesInit, PTL DEF Spec

(* A copy of a file is at some place of the list.                          *)
LEMMA CopiaEnSuSitio ==
  ASSUME NEW c \in CopiasDe(archivos)
  PROVE  \E y \in Copias(archivos, DOMAIN archivos) : CopiaEn(archivos, y) = c
<1>1. PICK a \in DOMAIN archivos : EnArchivo(archivos[a], c)
  BY DEF CopiasDe
<1>2. PICK b \in DOMAIN archivos[a].bloques : Contiene(archivos[a].bloques[b], c)
  BY <1>1 DEF EnArchivo
<1>3. PICK k \in DOMAIN archivos[a].bloques[b].copias : archivos[a].bloques[b].copias[k] = c
  BY <1>2 DEF Contiene
<1>4. <<a, b, k>> \in Copias(archivos, DOMAIN archivos)
  BY DEF Copias
<1>5. CopiaEn(archivos, <<a, b, k>>) = c
  BY <1>3 DEF CopiaEn
<1>. QED
  BY <1>4, <1>5

(* Without a crash no block of an enabled or removed node is ever lost: it *)
(* is among the free ones, in a copy that is being sent, or in a copy of a *)
(* file of the list, whatever the operator removes, enables again, uploads,*)
(* renames or deletes, block by block or whole.                            *)
THEOREM NuncaSePierdeUnBloque ==
  ASSUME Eventos = {}, Cardinality(Nodo) <= Letras, Cardinality(Nodo) >= 3
  PROVE  Spec => []NingunBloqueSePierde
<1>1. ASSUME Base, BloquesInv
      PROVE  NingunBloqueSePierde
  <2>1. ASSUME vivo, caidas = 0, NEW i \in DOMAIN nodos, NEW x, x = nodos[i], x.estado # 0
        PROVE  Bloque0 \subseteq ToSet(x.libres) \cup EnViaje(x.nombre)
                 \cup {CopiaEn(archivos, y).bloque :
                         y \in {z \in Copias(archivos, DOMAIN archivos) :
                                  CopiaEn(archivos, z).nodo = x.nombre}}
    <3>. DEFINE W == {CopiaEn(archivos, y).bloque :
                        y \in {z \in Copias(archivos, DOMAIN archivos) :
                                 CopiaEn(archivos, z).nodo = x.nombre}}
    <3>1. ASSUME NEW b \in Bloque0
          PROVE  b \in ToSet(x.libres) \/ b \in EnViaje(x.nombre) \/ b \in W
      <4>1. Contado(x, EnUso)
        BY <1>1, <2>1 DEF BloquesInv, Cuadra
      <4>2. CASE b \in ToSet(x.libres)
        BY <4>2
      <4>3. CASE \E c \in EnUso : c.nodo = x.nombre /\ c.bloque = b
        <5>1. PICK c \in EnUso : c.nodo = x.nombre /\ c.bloque = b
          BY <4>3
        <5>2. CASE c \in CopiasDe(archivos)
          <6>1. PICK y \in Copias(archivos, DOMAIN archivos) : CopiaEn(archivos, y) = c
            BY <5>2, CopiaEnSuSitio
          <6>2. y \in {z \in Copias(archivos, DOMAIN archivos) : CopiaEn(archivos, z).nodo = x.nombre}
            BY <5>1, <6>1
          <6>. QED
            BY <5>1, <6>1, <6>2
        <5>3. CASE c \in EnMano
          <6>1. c \in ToSet(mano["consola"].bloque.copias) \cup {mano["consola"].copia}
            BY <5>3 DEF EnMano, Contiene, ToSet
          <6>2. "consola" \in Hilo
            BY DEF Hilo
          <6>3. b \in {e.bloque : e \in {d \in ToSet(mano["consola"].bloque.copias)
                                           \cup {mano["consola"].copia} : d.nodo = x.nombre}}
            BY <5>1, <6>1
          <6>4. b \in EnViaje(x.nombre)
            BY <6>2, <6>3 DEF EnViaje
          <6>. QED
            BY <6>4
        <5>. QED
          BY <5>1, <5>2, <5>3 DEF EnUso
      <4>. QED
        BY <4>1, <4>2, <4>3 DEF Contado
    <3>. QED
      BY <3>1
  <2>. QED
    BY <2>1 DEF NingunBloqueSePierde
<1>2. SoloConsola
  BY DEF SoloConsola
<1>. QED
  BY <1>1, <1>2, BloquesSiempre, PTL
=============================================================================
