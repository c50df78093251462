---------------------------- MODULE Directorios ----------------------------
(***************************************************************************)
(* The directory tree of the MDFS, filesystem/src/filesystemdev.c.         *)
(*                                                                         *)
(* The tree is lista_filesystem, a list of entries that name their parent  *)
(* by its number (the root is 0 and has no entry); a file of               *)
(* lista_archivos names its directory the same way.  Both lists have a     *)
(* copy in MongoDB, kept up by deleting a document and inserting another.  *)
(* Two threads work on them: the console, one order at a time, and the     *)
(* thread that stores the result a node sends.  The process may stop at    *)
(* any point: it starts again from MongoDB, and with indexGlobal at 1.     *)
(*                                                                         *)
(* Left to module MDFS: the blocks of the files, their deletion and        *)
(* renaming, and the time between a file's entry in the list and its       *)
(* document (here one step).                                               *)
(***************************************************************************)
EXTENDS Integers, SequencesExt, FiniteSets

CONSTANTS
    Nombres,        \* the names given to directories
    Archivo,        \* the name of the file the console uploads
    Resultado,      \* the name of the file a node uploads
    Caminos,        \* what is typed to walk the tree: sequences of names
    MaxIndice,      \* bound: highest number given to a directory
    MaxDirs,        \* bound: directories at one time
    MaxArchivos,    \* bound: files at one time
    MaxReinicios,   \* bound: restarts
    Nada

ASSUME DirectoriosAssumption ==
    /\ Archivo \notin Nombres /\ Resultado \notin Nombres /\ Archivo # Resultado
    /\ Caminos \subseteq Seq(Nombres) /\ <<>> \in Caminos
    /\ {MaxIndice, MaxDirs, MaxArchivos, MaxReinicios} \subseteq Nat

VARIABLES
    fs,             \* lista_filesystem
    archivos,       \* lista_archivos: name and directory of each file
    mongoFs,        \* the collection filesystem of MongoDB
    mongoArch,      \* the collection archivos
    indexGlobal,    \* the next number of a directory
    consola,        \* the entry whose document the console has just deleted
    hilo,           \* the directory found for the result a node sends
    caido,          \* mostrarFilesystem ran out of stack
    reinicios

listas == <<fs, archivos>>
mongo == <<mongoFs, mongoArch>>
vars == <<fs, archivos, mongoFs, mongoArch, indexGlobal, consola, hilo, caido,
          reinicios>>

\* No order of the console is between its two halves.
SinOrden == [lista |-> "ninguna", donde |-> 0, nuevo |-> Nada]

Entrada == [index: Int, directorio: Nombres, padre: Int]
Ficha == [nombre: {Archivo, Resultado}, padre: Int]

TypeOK ==
    /\ fs \in Seq(Entrada) /\ mongoFs \in Seq(Entrada)
    /\ archivos \in Seq(Ficha) /\ mongoArch \in Seq(Ficha)
    /\ \A d \in Range(fs) : d.index \in 1 .. MaxIndice /\ d.padre \in 0 .. MaxIndice
    /\ \A a \in Range(archivos) : a.padre \in 0 .. MaxIndice + 1
    /\ indexGlobal \in 1 .. MaxIndice + 1
    /\ consola.lista \in {"ninguna", "fs", "archivos"}
    /\ hilo = Nada \/ hilo \in 0 .. MaxIndice + 1
    /\ caido \in BOOLEAN /\ reinicios \in 0 .. MaxReinicios

Init ==
    /\ fs = <<>> /\ archivos = <<>> /\ mongoFs = <<>> /\ mongoArch = <<>>
    /\ indexGlobal = 1
    /\ consola = SinOrden /\ hilo = Nada
    /\ caido = FALSE /\ reinicios = 0

-----------------------------------------------------------------------------
(* Walking the tree *)

\* The first entry of l that satisfies P, as list_find; 0 when there is none.
Primera(l, P(_)) == SelectInSeq(l, P)

\* The number of the directory of that name inside directory i, or 0.
validarDirectorio(directorio, i) ==
    LET p == Primera(fs, LAMBDA d : d.padre = i /\ d.directorio = directorio)
    IN  IF p = 0 THEN 0 ELSE fs[p].index

\* The prompts: a name that is not there leaves the walk where it was.  (A 0
\* starts again, in subirArchivo and moverArchivo without forgetting where it
\* was: it leads to no directory that a walk without it does not reach.)
Camina(camino) ==
    FoldLeft(LAMBDA p, n : LET k == validarDirectorio(n, p)
                           IN  IF k # 0 THEN k ELSE p, 0, camino)

\* The prompts for where to move directory x: naming x itself ends the order.
Error == -1
CaminaSin(x, camino) ==
    FoldLeft(LAMBDA p, n :
                 LET k == validarDirectorio(n, p)
                 IN  IF p = Error \/ k = x THEN Error
                     ELSE IF k # 0 THEN k ELSE p, 0, camino)

\* A path that is written whole must exist, or the answer is -1.
validarDirectorios(camino) ==
    FoldLeft(LAMBDA p, n :
                 LET k == IF p = Error THEN 0 ELSE validarDirectorio(n, p)
                 IN  IF k = 0 THEN Error ELSE k, 0, camino)

Alcanzables == {Camina(c) : c \in Caminos}

\* The directories n levels below the root, and whether recursiva ends: going
\* deeper than there are directories is going round for ever.
Listable(l) ==
    LET nivel[n \in 0 .. Len(l) + 1] ==
            IF n = 0 THEN {0}
            ELSE {d.index : d \in {e \in Range(l) : e.padre \in nivel[n - 1]}}
    IN  nivel[Len(l) + 1] = {}

-----------------------------------------------------------------------------
(* MongoDB *)

\* Mistake: nothing matches the selector.
NoBorra(coleccion, x) == coleccion
\* A document is deleted by all its fields, and only one of the equal ones.
Borra(coleccion, x) == RemoveFirst(coleccion, x)

-----------------------------------------------------------------------------
(* The console *)

\* Every order is chosen from a menu that shows the tree first.
Libre == ~caido /\ consola = SinOrden
Ordena == Libre /\ Listable(fs)

\* The menu shows a tree that has no end.
MuestraSinFin ==
    /\ Libre /\ ~Listable(fs)
    /\ caido' = TRUE
    /\ UNCHANGED <<listas, mongo, indexGlobal, consola, hilo, reinicios>>

Repetido(padre, nombre) ==
    \E d \in Range(fs) : d.padre = padre /\ d.directorio = nombre

\* The number is taken before the name is looked up, and the tree is shown.
crearDirectorio(padre, nombre) ==
    /\ indexGlobal <= MaxIndice /\ Len(fs) < MaxDirs
    /\ LET nuevo == [index |-> indexGlobal, directorio |-> nombre, padre |-> padre]
       IN  IF Repetido(padre, nombre)
           THEN UNCHANGED <<fs, mongoFs, caido>>
           ELSE /\ mongoFs' = Append(mongoFs, nuevo)
                /\ fs' = Append(fs, nuevo)
                /\ caido' = ~Listable(fs')
    /\ indexGlobal' = indexGlobal + 1
    /\ UNCHANGED <<archivos, mongoArch, consola, hilo, reinicios>>

\* Mistake: the files are not counted.
SinDirectorios(i) == \A d \in Range(fs) : d.padre # i
\* The directory that holds neither directories nor files.
Vacio(i) ==
    /\ \A d \in Range(fs) : d.padre # i
    /\ \A a \in Range(archivos) : a.padre # i

\* The entry an order works on: found by number and name once its path is
\* known, so with repeated numbers it may be one of another parent.
Elegida(padre, nombre) ==
    LET x == validarDirectorio(nombre, padre)
    IN  Primera(fs, LAMBDA d : d.index = x /\ d.directorio = nombre)

\* Eliminating, moving and renaming first delete the document.
BorraDocumento(p, nuevo) ==
    /\ mongoFs' = Borra(mongoFs, fs[p])
    /\ consola' = [lista |-> "fs", donde |-> p, nuevo |-> nuevo]
    /\ UNCHANGED <<listas, mongoArch, indexGlobal, hilo, caido, reinicios>>

eliminarDirectorio(padre, nombre) ==
    /\ validarDirectorio(nombre, padre) # 0
    /\ Vacio(validarDirectorio(nombre, padre))
    /\ BorraDocumento(Elegida(padre, nombre), Nada)

\* The last name of the destination is not compared with the directory itself.
moverDirectorio(padre, nombre) ==
    LET x == validarDirectorio(nombre, padre)
        p == Elegida(padre, nombre)
        bases == {CaminaSin(x, c) : c \in Caminos} \ {Error}
        llegadas == {validarDirectorio(n, base) : n \in Nombres, base \in bases}
    IN  /\ x # 0
        /\ \E llegada \in {0} \cup llegadas :     \* "/", or a name that exists
              BorraDocumento(p, [fs[p] EXCEPT !.padre = llegada])

renombrarDirectorio(padre, nombre, otro) ==
    /\ validarDirectorio(nombre, padre) # 0
    /\ ~Repetido(padre, otro)
    /\ LET p == Elegida(padre, nombre)
       IN  BorraDocumento(p, [fs[p] EXCEPT !.directorio = otro])

\* The rest of the three orders: the list, and the new document.
TerminaOrden ==
    /\ ~caido /\ consola.lista = "fs"
    /\ IF consola.nuevo = Nada
       THEN /\ fs' = RemoveAt(fs, consola.donde)
            /\ UNCHANGED mongoFs
       ELSE /\ fs' = [fs EXCEPT ![consola.donde] = consola.nuevo]
            /\ mongoFs' = Append(mongoFs, consola.nuevo)
    /\ consola' = SinOrden
    /\ UNCHANGED <<archivos, mongoArch, indexGlobal, hilo, caido, reinicios>>

\* A file is uploaded to a directory the prompts reach.
SubirArchivo(padre) ==
    LET nuevo == [nombre |-> Archivo, padre |-> padre]
    IN  /\ Len(archivos) < MaxArchivos
        /\ archivos' = Append(archivos, nuevo)
        /\ mongoArch' = Append(mongoArch, nuevo)
        /\ UNCHANGED <<fs, mongoFs, indexGlobal, consola, hilo, caido, reinicios>>

\* moverArchivo finds the file by its whole path.  No name is compared with
\* those of the destination.
moverArchivo(nombre, camino, padre) ==
    LET p == Primera(archivos, LAMBDA a : /\ a.nombre = nombre
                                          /\ a.padre = validarDirectorios(camino))
    IN  /\ validarDirectorios(camino) # Error
        /\ p # 0
        /\ mongoArch' = Borra(mongoArch, archivos[p])
        /\ consola' = [lista |-> "archivos", donde |-> p,
                       nuevo |-> [archivos[p] EXCEPT !.padre = padre]]
        /\ UNCHANGED <<listas, mongoFs, indexGlobal, hilo, caido, reinicios>>

TerminaMoverArchivo ==
    /\ ~caido /\ consola.lista = "archivos"
    /\ archivos' = [archivos EXCEPT ![consola.donde] = consola.nuevo]
    /\ mongoArch' = Append(mongoArch, consola.nuevo)
    /\ consola' = SinOrden
    /\ UNCHANGED <<fs, mongoFs, indexGlobal, hilo, caido, reinicios>>

formatearFs ==
    /\ Libre
    /\ fs # <<>> \/ archivos # <<>>
    /\ indexGlobal' = 1
    /\ fs' = <<>> /\ mongoFs' = <<>>
    /\ archivos' = <<>> /\ mongoArch' = <<>>
    /\ UNCHANGED <<consola, hilo, caido, reinicios>>

-----------------------------------------------------------------------------
(* The thread of a node that sends its result: subirArchivoDelNodo *)

\* The directories of the path.  With none of them padre is never assigned: it
\* is any number.
Padre(camino) ==
    IF camino = <<>> THEN 0 .. MaxIndice + 1 ELSE {validarDirectorios(camino)}

HiloValida(camino) ==
    /\ ~caido /\ hilo = Nada
    /\ Len(archivos) < MaxArchivos
    /\ \E padre \in Padre(camino) : padre # Error /\ hilo' = padre
    /\ UNCHANGED <<listas, mongo, indexGlobal, consola, caido, reinicios>>

HiloAgrega ==
    LET nuevo == [nombre |-> Resultado, padre |-> hilo]
    IN  /\ ~caido /\ hilo # Nada
        /\ archivos' = Append(archivos, nuevo)
        /\ mongoArch' = Append(mongoArch, nuevo)
        /\ hilo' = Nada
        /\ UNCHANGED <<fs, mongoFs, indexGlobal, consola, caido, reinicios>>

-----------------------------------------------------------------------------
(* The process stops, by itself or not, and starts again: the lists come from *)
(* MongoDB and the count of directories from main.                             *)
Reinicio ==
    /\ reinicios < MaxReinicios
    /\ reinicios' = reinicios + 1
    /\ fs' = mongoFs /\ archivos' = mongoArch
    /\ indexGlobal' = 1
    /\ consola' = SinOrden /\ hilo' = Nada /\ caido' = FALSE
    /\ UNCHANGED mongo

Orden ==
    \/ \E padre \in Alcanzables, n \in Nombres :
          \/ crearDirectorio(padre, n)
          \/ eliminarDirectorio(padre, n)
          \/ \E otro \in Nombres : renombrarDirectorio(padre, n, otro)
          \/ moverDirectorio(padre, n)
    \/ \E padre \in Alcanzables :
          \/ SubirArchivo(padre)
          \/ \E n \in {Archivo, Resultado}, c \in Caminos : moverArchivo(n, c, padre)

Next ==
    \/ Ordena /\ Orden
    \/ MuestraSinFin
    \/ TerminaOrden
    \/ TerminaMoverArchivo
    \/ formatearFs
    \/ \E c \in Caminos : HiloValida(c)
    \/ HiloAgrega
    \/ Reinicio

Spec == Init /\ [][Next]_vars

-----------------------------------------------------------------------------
(* Properties *)

Veces(s, x) == Cardinality({i \in DOMAIN s : s[i] = x})
MismosElementos(s, t) ==
    \A x \in Range(s) \cup Range(t) : Veces(s, x) = Veces(t, x)

\* MongoDB holds exactly what the lists hold, but for the one entry whose
\* document an order of the console has deleted and not yet written again: a
\* restart loses that entry and no other.  The documents are deleted by the
\* value of the entry before it changes (borrar_filesystem_mongo), so a list
\* changed first would leave the old document behind for ever.
MongoAlDia ==
    LET sin(l, nombre) == IF consola.lista = nombre
                          THEN RemoveAt(l, consola.donde) ELSE l
    IN  /\ MismosElementos(mongoFs, sin(fs, "fs"))
        /\ MismosElementos(mongoArch, sin(archivos, "archivos"))

\* Climbing from directory i ends at the root, or at a directory that was moved
\* into itself.
Sube(i) ==
    LET padreDe(x) == LET p == Primera(fs, LAMBDA d : d.index = x)
                      IN  IF p = 0 THEN Error ELSE fs[p].padre
        altura[n \in 0 .. Len(fs)] ==
            IF n = 0 THEN i
            ELSE IF altura[n - 1] \in {0, Error} THEN altura[n - 1]
                 ELSE padreDe(altura[n - 1])
        fin == altura[Len(fs)]
    IN  fin = 0 \/ (fin # Error /\ padreDe(fin) = fin)

\* Until the process starts again the directories are a tree, whatever is
\* created, eliminated, moved, renamed and formatted: no number is given twice,
\* showing the tree ends, and no directory and no file of the console is left
\* without the directories above it.  The exceptions the code allows: a
\* directory moved into itself hangs from no root, and the file a node sends may
\* arrive after its directory was eliminated.  After a restart nothing of this
\* holds: indexGlobal is 1 again and the directories read from MongoDB keep their
\* numbers (filesystem.c:21), so a directory created inside number 1 is number 1
\* too, its own parent, and the tree that crearDirectorio shows has no end.
ArbolSinReinicio ==
    reinicios = 0 =>
        /\ ~caido
        /\ \A i, j \in DOMAIN fs : fs[i].index = fs[j].index => i = j
        /\ \A d \in Range(fs) : Sube(d.padre)
        /\ \A a \in Range(archivos) : a.nombre = Archivo => Sube(a.padre)
=============================================================================
