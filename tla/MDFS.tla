-------------------------------- MODULE MDFS --------------------------------
(***************************************************************************)
(* The Filesystem process of the MDFS (filesystemdev.c): registration,     *)
(* enabling and removal of nodes, uploads with three copies of each block, *)
(* deletion, renaming and formatting from the console, uploads of a result *)
(* by a node's connection thread, the documents kept in MongoDB, and what  *)
(* a crash and a restart make of them.                                     *)
(*                                                                         *)
(* The console and the connection thread share archivo, nroBloque and      *)
(* arrayNodos without a lock.  Their actions are the segments of code      *)
(* between two writes to MongoDB or to a node, so a crash or the other     *)
(* thread may come in between.  The content of a block is a pair           *)
(* <<upload, position>>, which the program does not see.                   *)
(***************************************************************************)
EXTENDS Integers, Sequences, FiniteSets, SequencesExt

CONSTANTS
  Nodo,        \* the nodes, each with its ip and port
  Cap,         \* blocks of TAMANIO_BLOQUE in the data space of a node
  Ruta,        \* what identifies a file: its name and its directory
  Letras,      \* the letters of node names, 26 in the code
  Envio,       \* the uploads: [mb, bloques], the size in MB and in blocks
  Eventos,     \* what the environment of this instance does
  MaxSubidas,  \* bound on uploads
  MaxOrdenes,  \* bound on the other console commands
  MaxCaidas,   \* bound on crashes
  Nadie        \* no node

(* "altaTardia": nodes are enabled after the first upload or the first     *)
(* restart.  "distraido": the operator enables a node twice and removes    *)
(* one that is not enabled.  "borde": the operator gives a block number    *)
(* one past the end, which the code lets through.  "formatea": the operator *)
(* formats the MDFS.  "resultados": nodes upload results of Jobs.          *)
(* "juntos": the console and the connection thread work at the same time.  *)
(* "altasJuntas": two nodes connect at the same time, or while one works.  *)
Ambiente == {"altaTardia", "distraido", "borde", "formatea", "resultados", "juntos",
             "altasJuntas"}

ASSUME MDFSAssumption ==
  /\ IsFiniteSet(Nodo)
  /\ Cap \in Nat \ {0}
  /\ Letras \in Nat \ {0}
  /\ Envio \subseteq [mb : Nat, bloques : Nat]
  /\ Eventos \subseteq Ambiente
  /\ MaxSubidas \in Nat
  /\ MaxOrdenes \in Nat
  /\ MaxCaidas \in Nat
  /\ Nadie \notin Nat

VARIABLES
  nodos,        \* lista_nodos
  letra,        \* letra, as the number of letters used
  nombre,       \* nombre: the name being built for a new node
  llega,        \* nodes whose connection thread is about to add them
  archivos,     \* lista_archivos
  archivo,      \* archivo, as an index of archivos; 0: points nowhere
  nroBloque,    \* nroBloque
  arrayNodos,   \* arrayNodos
  en,           \* where each of the two threads is
  mano,         \* the local variables of each thread
  discos,       \* the data space of each node
  mongoNodos,   \* the documents of MDFS_NODOS, oldest first
  mongoArchivos,\* the documents of MDFS_ARCHIVOSMONGO, oldest first
  vivo,         \* the process runs
  subidas,      \* uploads so far
  ordenes,      \* other console commands so far
  caidas        \* crashes so far

Hilo == {"consola", "servidor"}

memoria  == <<nodos, letra, nombre, llega, archivos, archivo, nroBloque, arrayNodos,
              en, mano>>
mongo    == <<mongoNodos, mongoArchivos>>
contador == <<subidas, ordenes, caidas>>
vars     == <<memoria, discos, mongo, vivo, contador>>

Bloque0 == 0..(Cap - 1)
Nombre  == 0..Letras   \* 0 is the "NodoAA" that follows the last letter

(* A slot of arrayNodos: the entry with the node's name and what was sent  *)
(* to it; list_size counts both.                                           *)
Hueco == [nombre |-> Nadie, tiene |-> <<>>]
Peso(lugar) == IF lugar.nombre = Nadie THEN 0 ELSE 1 + Len(lugar.tiene)

SinBloque == [nro |-> 0, dato |-> <<>>, copias |-> <<>>]
SinCopia  == [nodo |-> Nadie, bloque |-> 0]
ManoVacia == [arch |-> 0, cual |-> <<0, 0>>, datos |-> <<>>, bloque |-> SinBloque,
              lugar |-> 0, nodo |-> 0, dir |-> Nadie, copia |-> SinCopia, luego |-> "libre"]

(* The process as main() starts it, before cargar_listas_mongo.            *)
Init ==
  /\ nodos = <<>>
  /\ letra = 1
  /\ nombre = Nadie
  /\ llega = {}
  /\ archivos = <<>>
  /\ archivo = 0
  /\ nroBloque = 0
  /\ arrayNodos = <<>>
  /\ en = [h \in Hilo |-> "libre"]
  /\ mano = [h \in Hilo |-> ManoVacia]
  /\ discos = [n \in Nodo |-> [b \in Bloque0 |-> <<>>]]
  /\ mongoNodos = <<>>
  /\ mongoArchivos = <<>>
  /\ vivo = TRUE
  /\ subidas = 0
  /\ ordenes = 0
  /\ caidas = 0

-----------------------------------------------------------------------------
(* Looking things up *)

(* buscarNodo and buscarNodoPorNombre return the first that matches; 0 is  *)
(* the NULL of the code.                                                   *)
NodoDe(n) == SelectInSeq(nodos, LAMBDA x : x.dir = n)
PorNombre(x) == SelectInSeq(nodos, LAMBDA y : y.nombre = x)
ArchivoEn(r) == SelectInSeq(archivos, LAMBDA a : ~a.colgado /\ a.ruta = r)

(* Mistakes: the old document of a node, or of a file, stays.              *)
NodoQueda(x) == mongoNodos
ArchivoQueda(a) == mongoArchivos

(* borrar_nodo_mongo matches everything but the free blocks.               *)
SinNodo(x) ==
  RemoveFirstMatch(mongoNodos, LAMBDA d : [d EXCEPT !.libres = x.libres] = x)

(* What armar_archivo_mongo puts in a document, and borrar_archivo_mongo   *)
(* matches.                                                                *)
Documento(a) == [ruta |-> a.ruta, tam |-> a.tam,
                 bloques |-> [i \in DOMAIN a.bloques |->
                                [nro |-> a.bloques[i].nro, copias |-> a.bloques[i].copias]]]
SinArchivo(a) ==
  RemoveFirstMatch(mongoArchivos, LAMBDA d : Documento(d) = Documento(a))

(* The process dies: its memory is gone, MongoDB and the nodes keep theirs. *)
Muere ==
  /\ vivo' = FALSE
  /\ nodos' = <<>>
  /\ letra' = 1
  /\ nombre' = Nadie
  /\ llega' = {}
  /\ archivos' = <<>>
  /\ archivo' = 0
  /\ nroBloque' = 0
  /\ arrayNodos' = <<>>
  /\ en' = [h \in Hilo |-> "libre"]
  /\ mano' = [h \in Hilo |-> ManoVacia]

(* A thread starts something, alone unless both may be at work.            *)
Puede(h) ==
  /\ vivo
  /\ en[h] = "libre"
  /\ "juntos" \in Eventos \/ \A g \in Hilo : en[g] = "libre"
  /\ "altasJuntas" \in Eventos \/ llega = {}

(* Without "altaTardia" the operator starts uploading when every node of   *)
(* the instance is registered and was enabled.                             *)
Formado ==
  \/ "altaTardia" \in Eventos
  \/ /\ \A i \in DOMAIN nodos : nodos[i].estado # 0
     /\ caidas = 0 => Len(nodos) = Cardinality(Nodo)

-----------------------------------------------------------------------------
(* Nodes *)

(* AtiendeNodo: a node that is not in lista_nodos gets the next name; the  *)
(* name is built in a global variable.                                     *)
NodoSePresenta(n) ==
  /\ vivo
  /\ n \notin llega
  /\ NodoDe(n) = 0
  /\ "altaTardia" \in Eventos \/ (subidas = 0 /\ caidas = 0)
  /\ "altasJuntas" \in Eventos \/ (llega = {} /\ \A h \in Hilo : en[h] = "libre")
  /\ llega' = llega \cup {n}
  /\ nombre' = IF letra > Letras THEN 0 ELSE letra
  /\ letra' = IF letra > Letras THEN 1 ELSE letra
  /\ UNCHANGED <<nodos, archivos, archivo, nroBloque, arrayNodos, en, mano, discos,
                 mongo, vivo, contador>>

(* letra advances and the node is added, not enabled and with no blocks.   *)
NodoAgregado(n) ==
  /\ vivo
  /\ n \in llega
  /\ llega' = llega \ {n}
  /\ letra' = letra + 1
  /\ nodos' = Append(nodos, [dir |-> n, nombre |-> nombre, estado |-> 0, libres |-> <<>>])
  /\ UNCHANGED <<nombre, archivos, archivo, nroBloque, arrayNodos, en, mano, discos,
                 mongo, vivo, contador>>

(* Mistake: blocks are numbered from one.                                  *)
DesdeUno == [b \in 1..Cap |-> b]

(* cargarListaBloquesDisponibles *)
TodosLosBloques == [b \in 1..Cap |-> b - 1]

Vuelve(x) == [x EXCEPT !.estado = 1]
Habilita(x) == [Vuelve(x) EXCEPT !.libres = @ \o TodosLosBloques]

(* agregarNodo: a removed node comes back with its free blocks, any other  *)
(* one gets every block, whatever it was.                                  *)
AgregarNodo(n) ==
  /\ Puede("consola")
  /\ ordenes < MaxOrdenes
  /\ ordenes' = ordenes + 1
  /\ LET i == NodoDe(n) IN
       /\ i # 0
       /\ nodos[i].estado = 1 => "distraido" \in Eventos
       /\ IF nodos[i].estado = -1
          THEN /\ mongoNodos' = SinNodo(nodos[i])
               /\ nodos' = [nodos EXCEPT ![i] = Vuelve(@)]
               /\ en' = [en EXCEPT !["consola"] = "creaNodo"]
               /\ mano' = [mano EXCEPT !["consola"].nodo = i,
                                       !["consola"].luego = "libre"]
          ELSE /\ nodos' = [nodos EXCEPT ![i] = Habilita(@)]
               /\ mongoNodos' = Append(mongoNodos, Habilita(nodos[i]))
               /\ UNCHANGED <<en, mano>>
  /\ UNCHANGED <<letra, nombre, llega, archivos, archivo, nroBloque, arrayNodos, discos,
                 mongoArchivos, vivo, subidas, caidas>>

(* eliminarNodo: any node of the list may be chosen once one is enabled.   *)
EliminarNodo(i) ==
  /\ Puede("consola")
  /\ ordenes < MaxOrdenes
  /\ ordenes' = ordenes + 1
  /\ \E j \in DOMAIN nodos : nodos[j].estado = 1
  /\ nodos[i].estado # 1 => "distraido" \in Eventos
  /\ mongoNodos' = SinNodo(nodos[i])
  /\ nodos' = [nodos EXCEPT ![i].estado = -1]
  /\ en' = [en EXCEPT !["consola"] = "creaNodo"]
  /\ mano' = [mano EXCEPT !["consola"].nodo = i, !["consola"].luego = "libre"]
  /\ UNCHANGED <<letra, nombre, llega, archivos, archivo, nroBloque, arrayNodos, discos,
                 mongoArchivos, vivo, subidas, caidas>>

(* The crear_nodo_mongo that ends every change of a node.                  *)
CreaNodo ==
  /\ vivo
  /\ en["consola"] = "creaNodo"
  /\ mongoNodos' = Append(mongoNodos, nodos[mano["consola"].nodo])
  /\ en' = [en EXCEPT !["consola"] = mano["consola"].luego]
  /\ UNCHANGED <<nodos, letra, nombre, llega, archivos, archivo, nroBloque, arrayNodos,
                 mano, discos, mongoArchivos, vivo, contador>>

-----------------------------------------------------------------------------
(* Uploads *)

(* tamanioDisponible: the free blocks of the enabled nodes, 20 MB each.    *)
TamanioDisponible ==
  20 * SumFunctionOnSet([i \in DOMAIN nodos |-> Len(nodos[i].libres)],
                        {i \in DOMAIN nodos : nodos[i].estado = 1})

(* llenarArrayDeNodos: one slot per node, filled with the distinct names   *)
(* in the order of the list.                                               *)
ArrayLleno ==
  LET primeros == {i \in DOMAIN nodos : PorNombre(nodos[i].nombre) = i}
      cabe(i, p) == Cardinality({j \in primeros : j <= i}) = p
  IN  [p \in DOMAIN nodos |->
         IF \E i \in primeros : cabe(i, p)
         THEN [Hueco EXCEPT !.nombre = nodos[CHOOSE i \in primeros : cabe(i, p)].nombre]
         ELSE Hueco]

(* ordenarArrayNodos: a bubble sort by list_size of the first m slots.     *)
Ordenado(s, m) ==
  LET antes(i, j) == Peso(s[i]) < Peso(s[j]) \/ (Peso(s[i]) = Peso(s[j]) /\ i < j)
      puesto(i)   == 1 + Cardinality({j \in 1..m : antes(j, i)})
  IN  [p \in DOMAIN s |-> IF p <= m THEN s[CHOOSE i \in 1..m : puesto(i) = p] ELSE s[p]]

(* Mistake: the search starts at the second slot.                          *)
DesdeSegundo(s, m, a, nro) ==
  SelectInSubSeq(s, 2, m,
    LAMBDA x : x.nombre # Nadie /\ <<a.ruta, nro>> \notin ToSet(x.tiene))

(* buscarNodoEnArray: the first slot that was not sent this block of the   *)
(* file; 0 stands for -1.                                                  *)
NodoEnArray(s, m, a, nro) ==
  SelectInSubSeq(s, 1, m,
    LAMBDA x : x.nombre # Nadie /\ <<a.ruta, nro>> \notin ToSet(x.tiene))

(* Mistake: the head leaves the list, but the block answered is the last.  *)
UltimoLibre(x) == IF x.libres = <<>> THEN 0 ELSE Last(x.libres)

(* buscarBloqueDisponible takes the head of the list, and 0 if it is empty. *)
Toma(x) == [x EXCEPT !.libres = IF @ = <<>> THEN @ ELSE Tail(@)]
BloqueLibre(x) == IF x.libres = <<>> THEN 0 ELSE Head(x.libres)

Datos(nb) == [i \in 1..nb |-> <<subidas + 1, i>>]

(* archivo points nowhere, or to a file that was freed.                    *)
ArchivoPerdido == archivo # 0 => archivos[archivo].colgado

ArchivoNuevo(r, e) ==
  [ruta |-> r, tam |-> e.mb, bloques |-> <<>>, subida |-> subidas + 1,
   pedidos |-> e.bloques, colgado |-> FALSE]

(* Mistake: archivo stays on the file listed before the new one.           *)
ElDeAntes == IF archivos = <<>> THEN 1 ELSE Len(archivos)

(* archivo points to the file just created.                                *)
ElNuevo == Len(archivos) + 1

(* procesarArchivo: subirArchivo checks the space and lists the file, and  *)
(* recorrerArchivo starts.                                                 *)
SubirArchivo(r, e) ==
  /\ Puede("consola")
  /\ subidas < MaxSubidas
  /\ Formado
  /\ e.mb * 3 < TamanioDisponible
  /\ subidas' = subidas + 1
  /\ archivos' = Append(archivos, ArchivoNuevo(r, e))
  /\ archivo' = ElNuevo
  /\ arrayNodos' = ArrayLleno
  /\ nroBloque' = 0
  /\ en' = [en EXCEPT !["consola"] = "bloque"]
  /\ mano' = [mano EXCEPT !["consola"].datos = Datos(e.bloques)]
  /\ UNCHANGED <<nodos, letra, nombre, llega, discos, mongo, vivo, ordenes, caidas>>

(* subirArchivoDelNodo: the file is listed and saved before its only       *)
(* block is sent; nothing is checked and arrayNodos stays as it was.       *)
SubirResultado(r) ==
  /\ "resultados" \in Eventos
  /\ Puede("servidor")
  /\ subidas < MaxSubidas
  /\ Formado
  /\ subidas' = subidas + 1
  /\ LET a == ArchivoNuevo(r, [mb |-> 0, bloques |-> 1]) IN
       /\ archivos' = Append(archivos, a)
       /\ mongoArchivos' = Append(mongoArchivos, a)
  /\ archivo' = ElNuevo
  /\ en' = [en EXCEPT !["servidor"] = "bloque"]
  /\ mano' = [mano EXCEPT !["servidor"].datos = Datos(1)]
  /\ UNCHANGED <<nodos, letra, nombre, llega, nroBloque, arrayNodos, discos, mongoNodos,
                 vivo, ordenes, caidas>>

(* enviarBloque gives the block its number.                                *)
EmpiezaBloque(h) ==
  /\ vivo
  /\ en[h] = "bloque"
  /\ mano[h].datos # <<>>
  /\ mano' = [mano EXCEPT ![h].bloque = [nro |-> nroBloque, dato |-> Head(mano[h].datos),
                                        copias |-> <<>>],
                          ![h].datos = Tail(@)]
  /\ nroBloque' = nroBloque + 1
  /\ en' = [en EXCEPT ![h] = "busca"]
  /\ UNCHANGED <<nodos, letra, nombre, llega, archivos, archivo, arrayNodos, discos,
                 mongo, vivo, contador>>

(* No block is left: procesarArchivo saves the document of archivo, the    *)
(* connection thread has nothing to save.                                  *)
TerminaSubida(h) ==
  /\ vivo
  /\ en[h] = "bloque"
  /\ mano[h].datos = <<>>
  /\ IF h = "consola" /\ ArchivoPerdido
     THEN Muere /\ UNCHANGED mongoArchivos
     ELSE /\ mongoArchivos' = IF h = "consola"
                              THEN Append(mongoArchivos, archivos[archivo])
                              ELSE mongoArchivos
          /\ en' = [en EXCEPT ![h] = "libre"]
          /\ mano' = [mano EXCEPT ![h] = ManoVacia]
          /\ UNCHANGED <<nodos, letra, nombre, llega, archivos, archivo, nroBloque,
                         arrayNodos, vivo>>
  /\ UNCHANGED <<discos, mongoNodos, contador>>

(* funcionLoca up to borrar_nodo_mongo.  archivo may have been freed, a    *)
(* slot that llenarArrayDeNodos did not make may be read, and the name may *)
(* be that of a node no longer listed: each of them can kill the process.  *)
(* With no node left the copy is given up, the block with it.              *)
BuscaNodo(h) ==
  LET m == IF Len(nodos) < Len(arrayNodos) THEN Len(nodos) ELSE Len(arrayNodos)
      s == Ordenado(arrayNodos, m)
      a == archivos[archivo]
      k == NodoEnArray(s, m, a, mano[h].bloque.nro)
      i == PorNombre(s[k].nombre)
  IN
  /\ vivo
  /\ en[h] = "busca"
  /\ \/ /\ \/ ArchivoPerdido
           \/ Len(nodos) > Len(arrayNodos)
           \/ archivo # 0 /\ k # 0 /\ i = 0
        /\ Muere
        /\ UNCHANGED mongoNodos
     \/ /\ archivo # 0
        /\ nodos # <<>> => arrayNodos # <<>>
        /\ arrayNodos' = s
        /\ \/ /\ k = 0
              /\ en' = [en EXCEPT ![h] = "bloque"]
              /\ UNCHANGED <<mano, mongoNodos>>
           \/ /\ k # 0 /\ i # 0
              /\ en' = [en EXCEPT ![h] = "toma"]
              /\ mano' = [mano EXCEPT ![h].lugar = k, ![h].nodo = i]
              /\ mongoNodos' = SinNodo(nodos[i])
        /\ UNCHANGED <<nodos, letra, nombre, llega, archivos, archivo, nroBloque, vivo>>
  /\ UNCHANGED <<discos, mongoArchivos, contador>>

(* Mistake: what was sent is not noted.                                    *)
SinAnotar(s, k, a, nro) == s

(* agregarBloqueEnArrayNodos: what the slot was sent, under the name that  *)
(* archivo has by now.                                                     *)
Anota(s, k, a, nro) == [s EXCEPT ![k].tiene = Append(@, <<a.ruta, nro>>)]

(* funcionLoca from buscarBloqueDisponible to agregarBloqueEnArrayNodos.   *)
TomaBloque(h) ==
  LET i == mano[h].nodo
      k == mano[h].lugar
      x == nodos[i]
  IN
  /\ vivo
  /\ en[h] = "toma"
  /\ IF i = 0 \/ archivo = 0 \/ k > Len(arrayNodos)
     THEN Muere /\ UNCHANGED mongoNodos
     ELSE /\ nodos' = [nodos EXCEPT ![i] = Toma(@)]
          /\ mongoNodos' = Append(mongoNodos, Toma(x))
          /\ arrayNodos' = Anota(arrayNodos, k, archivos[archivo], mano[h].bloque.nro)
          /\ mano' = [mano EXCEPT ![h].dir = x.dir,
                                  ![h].copia = [nodo |-> x.nombre, bloque |-> BloqueLibre(x)]]
          /\ en' = [en EXCEPT ![h] = "manda"]
          /\ UNCHANGED <<letra, nombre, llega, archivos, archivo, nroBloque, vivo>>
  /\ UNCHANGED <<discos, mongoArchivos, contador>>

(* enviarBufferANodo, the node's setBloque, and the copy in listaCopias;   *)
(* the third copy puts the block in the file archivo points to.            *)
MandaCopia(h) ==
  LET c == mano[h].copia
      b == [mano[h].bloque EXCEPT !.copias = Append(@, c)]
  IN
  /\ vivo
  /\ en[h] = "manda"
  /\ discos' = [discos EXCEPT ![mano[h].dir][c.bloque] = b.dato]
  /\ IF Len(b.copias) < 3
     THEN /\ mano' = [mano EXCEPT ![h].bloque = b, ![h].copia = SinCopia]
          /\ en' = [en EXCEPT ![h] = "busca"]
          /\ UNCHANGED <<nodos, letra, nombre, llega, archivos, archivo, nroBloque,
                         arrayNodos, vivo>>
     ELSE IF ArchivoPerdido
     THEN Muere
     ELSE /\ archivos' = [archivos EXCEPT ![archivo].bloques = Append(@, b)]
          /\ mano' = [mano EXCEPT ![h].bloque = SinBloque, ![h].copia = SinCopia]
          /\ en' = [en EXCEPT ![h] = "bloque"]
          /\ UNCHANGED <<nodos, letra, nombre, llega, archivo, nroBloque, arrayNodos, vivo>>
  /\ UNCHANGED <<mongo, contador>>

(* The node is down: connect fails, enviarBufferANodo goes on to send and  *)
(* SIGPIPE ends the process.                                               *)
NodoNoAtiende(h) ==
  /\ vivo
  /\ en[h] = "manda"
  /\ caidas < MaxCaidas
  /\ caidas' = caidas + 1
  /\ Muere
  /\ UNCHANGED <<discos, mongo, subidas, ordenes>>

-----------------------------------------------------------------------------
(* Files: the other commands of the console *)

Ordena ==
  /\ Puede("consola")
  /\ ordenes < MaxOrdenes
  /\ ordenes' = ordenes + 1

(* renombrarArchivo and moverArchivo: the first file of that path loses    *)
(* its document, gets the new name or directory, and is saved again.       *)
Renombrar(r, nueva) ==
  LET a == ArchivoEn(r) IN
  /\ Ordena
  /\ a # 0
  /\ mongoArchivos' = SinArchivo(archivos[a])
  /\ archivos' = [archivos EXCEPT ![a].ruta = nueva]
  /\ en' = [en EXCEPT !["consola"] = "creaArchivo"]
  /\ mano' = [mano EXCEPT !["consola"].arch = a]
  /\ UNCHANGED <<nodos, letra, nombre, llega, archivo, nroBloque, arrayNodos, discos,
                 mongoNodos, vivo, subidas, caidas>>

CreaArchivo ==
  /\ vivo
  /\ en["consola"] = "creaArchivo"
  /\ mongoArchivos' = Append(mongoArchivos, archivos[mano["consola"].arch])
  /\ en' = [en EXCEPT !["consola"] = "libre"]
  /\ mano' = [mano EXCEPT !["consola"] = ManoVacia]
  /\ UNCHANGED <<nodos, letra, nombre, llega, archivos, archivo, nroBloque, arrayNodos,
                 discos, mongoNodos, vivo, contador>>

(* eliminarArchivo: the document goes first, then the blocks.              *)
EliminarArchivo(r) ==
  LET a == ArchivoEn(r) IN
  /\ Ordena
  /\ a # 0
  /\ mongoArchivos' = SinArchivo(archivos[a])
  /\ en' = [en EXCEPT !["consola"] = "libera"]
  /\ mano' = [mano EXCEPT !["consola"].arch = a]
  /\ UNCHANGED <<nodos, letra, nombre, llega, archivos, archivo, nroBloque, arrayNodos,
                 discos, mongoNodos, vivo, subidas, caidas>>

(* Mistake: the block of a removed copy is not given back.                 *)
NoDevuelve(x, b) == x
Devuelve(x, b) == [x EXCEPT !.libres = Append(@, b)]

(* A copy leaves its block and its block number goes back to the free      *)
(* blocks of its node: borrar_nodo_mongo, list_add; crear_nodo_mongo is    *)
(* next.  The node may no longer be listed: a NULL is dereferenced.        *)
QuitaCopia(a, b, c, luego) ==
  LET copia == archivos[a].bloques[b].copias[c]
      i     == PorNombre(copia.nodo)
  IN
  IF i = 0
  THEN Muere /\ UNCHANGED mongoNodos
  ELSE /\ archivos' = [archivos EXCEPT ![a].bloques[b].copias = RemoveAt(@, c)]
       /\ mongoNodos' = SinNodo(nodos[i])
       /\ nodos' = [nodos EXCEPT ![i] = Devuelve(@, copia.bloque)]
       /\ en' = [en EXCEPT !["consola"] = "creaNodo"]
       /\ mano' = [mano EXCEPT !["consola"].nodo = i, !["consola"].luego = luego]
       /\ UNCHANGED <<letra, nombre, llega, archivo, nroBloque, arrayNodos, vivo>>

ConCopias(a) == SelectInSeq(archivos[a].bloques, LAMBDA b : b.copias # <<>>)

(* liberarBloquesArchivo, copy by copy; at the end archivo_destroy frees   *)
(* the file, which stays in lista_archivos.                                *)
Libera ==
  LET a == mano["consola"].arch IN
  /\ vivo
  /\ en["consola"] = "libera"
  /\ IF ConCopias(a) # 0
     THEN QuitaCopia(a, ConCopias(a), 1, "libera")
     ELSE /\ archivos' = [archivos EXCEPT ![a].colgado = TRUE, ![a].bloques = <<>>]
          /\ en' = [en EXCEPT !["consola"] = "libre"]
          /\ mano' = [mano EXCEPT !["consola"] = ManoVacia]
          /\ UNCHANGED <<nodos, letra, nombre, llega, archivo, nroBloque, arrayNodos,
                         mongoNodos, vivo>>
  /\ UNCHANGED <<discos, mongoArchivos, contador>>

(* What the operator may answer: one more than the copies of a block, and  *)
(* at least one more than the blocks of any file of an instance.           *)
Respuesta == 1..4

(* borrarBloquesArchivo: the numbers the operator gives may be one past    *)
(* the end, where list_get or list_remove returns NULL; by the second      *)
(* question the document of the file is already gone.                      *)
BorrarBloque(r, b, c) ==
  LET a      == ArchivoEn(r)
      copias == archivos[a].bloques[b].copias
  IN
  /\ Ordena
  /\ a # 0
  /\ IF b > Len(archivos[a].bloques)
     THEN /\ "borde" \in Eventos
          /\ b = Len(archivos[a].bloques) + 1
          /\ Muere
          /\ UNCHANGED mongoArchivos
     ELSE /\ c <= Len(copias) + (IF "borde" \in Eventos THEN 1 ELSE 0)
          /\ mongoArchivos' = SinArchivo(archivos[a])
          /\ IF c > Len(copias)
             THEN Muere
             ELSE /\ en' = [en EXCEPT !["consola"] = "quita"]
                  /\ mano' = [mano EXCEPT !["consola"].arch = a,
                                          !["consola"].cual = <<b, c>>]
                  /\ UNCHANGED <<nodos, letra, nombre, llega, archivos, archivo,
                                 nroBloque, arrayNodos, vivo>>
  /\ UNCHANGED <<discos, mongoNodos, subidas, caidas>>

Quita ==
  /\ vivo
  /\ en["consola"] = "quita"
  /\ QuitaCopia(mano["consola"].arch, mano["consola"].cual[1], mano["consola"].cual[2],
                "creaArchivo")
  /\ UNCHANGED <<discos, mongoArchivos, contador>>

(* The entry of a deleted file is still in lista_archivos: the next command *)
(* that walks the list reads freed memory.                                 *)
LeeLiberado ==
  /\ Ordena
  /\ \E a \in DOMAIN archivos : archivos[a].colgado
  /\ Muere
  /\ UNCHANGED <<discos, mongo, subidas, caidas>>

(* formatearFs: every file goes, in memory and in MongoDB.                 *)
Formatear ==
  /\ "formatea" \in Eventos
  /\ Ordena
  /\ archivos' = <<>>
  /\ archivo' = 0
  /\ mongoArchivos' = <<>>
  /\ en' = [en EXCEPT !["consola"] = "formatea"]
  /\ UNCHANGED <<nodos, letra, nombre, llega, nroBloque, arrayNodos, mano, discos,
                 mongoNodos, vivo, subidas, caidas>>

(* Every other node, from the second one.                                  *)
Alternos(s) == [i \in 1..(Len(s) \div 2) |-> s[2 * i]]

(* eliminarListaNodos removes position i and then looks at i + 1 of the    *)
(* shorter list: the nodes at even places stay.  A thread that holds a     *)
(* node keeps it only if it stayed.                                        *)
FormateaNodos ==
  /\ vivo
  /\ en["consola"] = "formatea"
  /\ nodos' = Alternos(nodos)
  /\ mongoNodos' = <<>>
  /\ en' = [en EXCEPT !["consola"] = "libre"]
  /\ mano' = [mano EXCEPT !["servidor"].nodo = IF @ % 2 = 0 THEN @ \div 2 ELSE 0]
  /\ UNCHANGED <<letra, nombre, llega, archivos, archivo, nroBloque, arrayNodos, discos,
                 mongoArchivos, vivo, contador>>

-----------------------------------------------------------------------------
(* Crashes *)

Caida ==
  /\ vivo
  /\ caidas < MaxCaidas
  /\ caidas' = caidas + 1
  /\ Muere
  /\ UNCHANGED <<discos, mongo, subidas, ordenes>>

(* main() and cargar_listas_mongo: the lists are those of MongoDB and the  *)
(* next name follows the number of nodes.                                  *)
Arranca ==
  /\ ~vivo
  /\ vivo' = TRUE
  /\ nodos' = mongoNodos
  /\ archivos' = mongoArchivos
  /\ letra' = 1 + Len(mongoNodos)
  /\ UNCHANGED <<nombre, llega, archivo, nroBloque, arrayNodos, en, mano, discos, mongo,
                 contador>>

-----------------------------------------------------------------------------

SubidaPaso(h) ==
  EmpiezaBloque(h) \/ TerminaSubida(h) \/ BuscaNodo(h) \/ TomaBloque(h) \/ MandaCopia(h)

ConsolaPaso ==
  \/ \E n \in Nodo : AgregarNodo(n)
  \/ \E i \in DOMAIN nodos : EliminarNodo(i)
  \/ CreaNodo
  \/ \E r \in Ruta, e \in Envio : SubirArchivo(r, e)
  \/ \E r, nueva \in Ruta : r # nueva /\ Renombrar(r, nueva)
  \/ CreaArchivo
  \/ \E r \in Ruta : EliminarArchivo(r)
  \/ Libera
  \/ \E r \in Ruta, b, c \in Respuesta : BorrarBloque(r, b, c)
  \/ Quita
  \/ LeeLiberado
  \/ Formatear
  \/ FormateaNodos

ServidorPaso ==
  \/ \E n \in Nodo : NodoSePresenta(n) \/ NodoAgregado(n)
  \/ \E r \in Ruta : SubirResultado(r)

Next ==
  \/ ConsolaPaso
  \/ ServidorPaso
  \/ \E h \in Hilo : SubidaPaso(h) \/ NodoNoAtiende(h)
  \/ Caida
  \/ Arranca

Spec == Init /\ [][Next]_vars

-----------------------------------------------------------------------------

Listados == {i \in DOMAIN archivos : ~archivos[i].colgado}

(* Where the copies of a list of files are: file, block and copy.          *)
Copias(lista, S) ==
  UNION {UNION {{<<a, b, c>> : c \in DOMAIN lista[a].bloques[b].copias} :
                  b \in DOMAIN lista[a].bloques} : a \in S}

CopiaEn(lista, x) == lista[x[1]].bloques[x[2]].copias[x[3]]
DatoEn(lista, x) == lista[x[1]].bloques[x[2]].dato

(* The types of the state. *)
UnaCopia == [nodo : Nombre, bloque : Bloque0]
UnBloque == [nro : Nat, dato : Seq(Nat), copias : Seq(UnaCopia)]
UnNodo == [dir : Nodo, nombre : Nombre, estado : -1..1, libres : Seq(Bloque0)]
UnArchivo == [ruta : Ruta, tam : Nat, bloques : Seq(UnBloque), subida : Nat,
              pedidos : Nat, colgado : BOOLEAN]

TypeOK ==
  /\ nodos \in Seq(UnNodo)
  /\ letra \in Nat
  /\ nombre \in Nombre \cup {Nadie}
  /\ llega \subseteq Nodo
  /\ archivos \in Seq(UnArchivo)
  /\ archivo \in 0..Len(archivos)
  /\ nroBloque \in Nat
  /\ \A i \in DOMAIN arrayNodos : arrayNodos[i].nombre \in Nombre \cup {Nadie}
  /\ en \in [Hilo -> {"libre", "bloque", "busca", "toma", "manda", "creaNodo",
                     "creaArchivo", "libera", "quita", "formatea"}]
  /\ discos \in [Nodo -> [Bloque0 -> Seq(Nat)]]
  /\ mongoNodos \in Seq(UnNodo)
  /\ mongoArchivos \in Seq(UnArchivo)
  /\ vivo \in BOOLEAN

(* The copies of a block are on different nodes.                           *)
ReplicasDistintas ==
  \A x, y \in Copias(archivos, Listados) :
    x[1] = y[1] /\ x[2] = y[2] /\ CopiaEn(archivos, x).nodo = CopiaEn(archivos, y).nodo
      => x = y

(* Two copies share a block of a node, or a copy lies in a free block,     *)
(* only if it is block 0, the one a node without free blocks answers.      *)
SoloElCero(lista, S, servidores) ==
  /\ \A x, y \in Copias(lista, S) :
       x # y /\ CopiaEn(lista, x) = CopiaEn(lista, y) => CopiaEn(lista, x).bloque = 0
  /\ \A x \in Copias(lista, S), i \in DOMAIN servidores :
       LET c == CopiaEn(lista, x) IN
       servidores[i].nombre = c.nodo /\ c.bloque \in ToSet(servidores[i].libres)
         => c.bloque = 0

DobleUsoSoloDelCero == SoloElCero(archivos, Listados, nodos)

(* The same of what MongoDB holds at any moment: the image that a crash    *)
(* would leave never has a used block among the free ones.                 *)
ImagenSinDobleUso == SoloElCero(mongoArchivos, DOMAIN mongoArchivos, mongoNodos)

(* The node named by a copy holds the content the copy was made of.        *)
Intacta(x) ==
  LET i == PorNombre(CopiaEn(archivos, x).nodo) IN
  i # 0 => discos[nodos[i].dir][CopiaEn(archivos, x).bloque] = DatoEn(archivos, x)

CopiaIntacta ==
  \A x \in Copias(archivos, Listados) : CopiaEn(archivos, x).bloque # 0 => Intacta(x)

Quieto == vivo /\ llega = {} /\ \A h \in Hilo : en[h] = "libre"

Documentos(lista) == [i \in DOMAIN lista |-> Documento(lista[i])]

(* How many of the places I of a list have x, and two lists that have the  *)
(* same at their places, in any order.                                     *)
Veces(s, I, x) == Cardinality({i \in I : s[i] = x})
MismosElementos(s, I, t, J) ==
  \A x \in {s[i] : i \in I} \cup {t[j] : j \in J} : Veces(s, I, x) = Veces(t, J, x)

(* Between two operations MongoDB holds what memory holds.                 *)
MongoAlDia ==
  Quieto =>
    /\ MismosElementos(mongoNodos, DOMAIN mongoNodos,
                       nodos, {i \in DOMAIN nodos : nodos[i].estado # 0})
    /\ MismosElementos(Documentos(mongoArchivos), DOMAIN mongoArchivos,
                       Documentos(archivos), Listados)

(* Without a crash a file that was uploaded lists every block of it.       *)
SubidaCompleta ==
  Quieto /\ caidas = 0 => \A a \in Listados : Len(archivos[a].bloques) = archivos[a].pedidos

(* The blocks that are being sent to a node.                               *)
EnViaje(x) == UNION {{c.bloque : c \in {d \in ToSet(mano[h].bloque.copias)
                                             \cup {mano[h].copia} : d.nodo = x}} : h \in Hilo}

(* Without a crash no block of an enabled node is lost: it is free, being  *)
(* sent, or used by a file.                                                *)
NingunBloqueSePierde ==
  vivo /\ caidas = 0 =>
    \A i \in DOMAIN nodos :
      LET x == nodos[i] IN
      x.estado # 0 =>
        Bloque0 \subseteq ToSet(x.libres) \cup EnViaje(x.nombre)
          \cup {CopiaEn(archivos, y).bloque :
                  y \in {z \in Copias(archivos, DOMAIN archivos) : CopiaEn(archivos, z).nodo = x.nombre}}

(* A block is listed by the file it was cut from.                          *)
BloquesEnSuArchivo ==
  \A a \in Listados : \A b \in DOMAIN archivos[a].bloques :
    archivos[a].bloques[b].dato[1] = archivos[a].subida
=============================================================================
