-------------------------------- MODULE Nodo --------------------------------
(***************************************************************************)
(* One node (nodo.c): a thread per connection, each serving one request.   *)
(* The requests are those of Jobs (a map of a block, the reduce of one     *)
(* partial result, the total reduce of several) and of the Filesystem (set *)
(* a block, get a block).  How the total reduce merges its parts, local or *)
(* remote, is module Apareo; here it takes them at once.                   *)
(*                                                                         *)
(* What the threads share: the files of the working directory, the scripts *)
(* among them; the data file and its one position; four semaphores; the    *)
(* one connection to the Filesystem; and, being threads of one process,    *)
(* its children and its open descriptors.  wait() takes any child, that of *)
(* another thread or of a system() included, and a child keeps every       *)
(* descriptor that was open when it was forked: the write end of another   *)
(* thread's pipe, whose reader then sees no end, or a script that another  *)
(* thread is writing, which then cannot be executed.                       *)
(*                                                                         *)
(* The content of a file is what data went into it, whose script wrote it, *)
(* and whether that script ran to its end over whole data.                 *)
(***************************************************************************)
EXTENDS Integers, Sequences, FiniteSets, SequencesExt, FiniteSetsExt

CONSTANTS
  Hilo,     \* the requests, a thread each
  Job,      \* the Jobs
  Nombre,   \* the names of the files of results
  Guion,    \* the names of the scripts
  Bloque,   \* the blocks the data file has room for
  Dato,     \* what a block can hold
  Inicial,  \* what each holds at the start
  Casos,    \* the requests an instance may start with: functions of Hilo
  Nada      \* no value

(* pedido[h] = [rutina, job, guion, entradas, salida, bloque, dato, antes]: *)
(* antes are the requests whose answer the Job has before it sends this    *)
(* one.  A reduce has one entry.  Fields a routine has no use for are Nada.*)
Pedido ==
  [rutina : {"map", "reduce", "total", "set", "get"}, job : Job \cup {Nada},
   guion : Guion \cup {Nada}, entradas : SUBSET Nombre, salida : Nombre \cup {Nada},
   bloque : Nat \cup {Nada}, dato : Dato \cup {Nada}, antes : SUBSET Hilo]

(* The data in a result, whose script wrote it, the thread it ran for, and *)
(* whether it ran to its end over whole data.                              *)
Contenido ==
  [de : SUBSET Dato, por : Job \cup {Nada}, entero : BOOLEAN, hilo : Hilo \cup {Nada}]

(* Finitely many requests, each with what its routine has a use for; the   *)
(* Filesystem has a block read or mapped only where it stored one.         *)
ASSUME NodoAssumption ==
  /\ IsFiniteSet(Hilo) /\ Nada \notin Hilo \cup Job \cup Contenido
  /\ Guion \cap Nombre = {} /\ "tubo" \notin Guion \cup Nombre
  /\ Inicial \in [Bloque -> Dato] /\ Bloque \subseteq Nat
  /\ Casos \subseteq [Hilo -> Pedido]
  /\ \A c \in Casos, h \in Hilo :
       /\ c[h].rutina = "reduce" => \E n \in Nombre : c[h].entradas = {n}
       /\ c[h].rutina \in {"map", "reduce", "total"} =>
            c[h].job \in Job /\ c[h].salida \in Nombre
       /\ c[h].rutina \in {"map", "total"} => c[h].guion \in Guion
       /\ c[h].rutina \in {"map", "get"} => c[h].bloque \in Bloque

VARIABLES
  pedido,    \* what each thread was asked
  pc,        \* its next step
  lanzado,   \* its next step is to wait for the command it started
  semaforo,  \* semaforoMapper, semaforoScript, semaforoSetBloque: who has it, or Nada
  arch,      \* the files of results
  tmp,       \* "tmp" before the name of a result: what a map writes before the sort
  guion,     \* the scripts: whose text each holds; Nada: absent, or still empty
  abiertos,  \* descriptors open for writing: <<thread, "tubo" or a script>>
  hijos,     \* the children, those that ended and nobody waited for included
  leido,     \* what the thread read to give to its script
  datos,     \* the blocks of the data file; Nada: only zeros
  posicion,  \* the position of archivoEspacioDatos
  alFs,      \* socket_Fs, towards the Filesystem, and
  delFs,     \* how many of its answers "Ok" nobody has read
  fs,        \* the Filesystem's thread for this node
  guardado,  \* what it took for the result of each total reduce
  salio,     \* what each request gave: the file behind a 31, what was uploaded
  caido      \* the process died

vars == <<pedido, pc, lanzado, semaforo, arch, tmp, guion, abiertos, hijos, leido, datos, posicion,
          alFs, delFs, fs, guardado, salio, caido>>

archivos == <<arch, tmp, guion>>
proceso == <<abiertos, hijos>>
bloques == <<datos, posicion>>
conexion == <<alFs, delFs, fs, guardado>>

Rutina(h) == pedido[h].rutina
Hacen(r) == {h \in Hilo : Rutina(h) \in r}

(* procesarRutinaReduce adds ".sh" to the name of its entry.               *)
LaEntrada(h) == CHOOSE n \in pedido[h].entradas : TRUE
GuionDe(h) == IF Rutina(h) = "reduce" THEN LaEntrada(h) ELSE pedido[h].guion

(* A file that a script of thread h is still writing.                      *)
AMedias(h) == [de |-> {}, por |-> Nada, entero |-> FALSE, hilo |-> h]

Init ==
  /\ pedido \in Casos
  /\ pc = [h \in Hilo |-> "pide"]
  /\ lanzado = [h \in Hilo |-> FALSE]
  /\ semaforo = [s \in {"mapper", "script", "setBloque"} |-> Nada]
  /\ arch = [n \in Nombre |-> Nada]
  /\ tmp = [n \in Nombre |-> Nada]
  /\ guion = [n \in Guion \cup Nombre |-> Nada]
  /\ abiertos = {} /\ hijos = {}
  /\ leido = [h \in Hilo |-> AMedias(h)]
  /\ datos = Inicial
  /\ posicion = 0
  /\ alFs = <<>> /\ delFs = 0
  /\ fs = [estado |-> "libre", de |-> Nada]
  /\ guardado = [h \in Hilo |-> Nada]
  /\ salio = [h \in Hilo |-> Nada]
  /\ caido = FALSE

(* The steps of each routine.                                              *)
Camino(r) ==
  CASE r = "map" -> <<"pide", "mapper", "abre", "graba", "chmod", "script", "tubo", "fork",
                      "escribe", "espera", "suelta", "sort", "rmTmp", "rmGuion",
                      "responde", "fin">>
    [] r = "reduce" -> <<"pide", "mapper", "abre", "graba", "chmod", "lee", "tubo", "fork",
                         "escribe", "espera", "rmGuion", "rmEntrada", "responde", "fin">>
    [] r = "total" -> <<"pide", "abre", "graba", "chmod", "junta", "script", "tubo", "fork",
                        "escribe", "espera", "suelta", "sube", "cuerpo", "ok", "fin">>
    [] r = "set" -> <<"pide", "setBloque", "seek0", "ceros", "seek", "datos", "fin">>
    [] r = "get" -> <<"pide", "anuncia", "manda", "fin">>
Sigue(h) == LET c == Camino(Rutina(h)) IN c[SelectInSeq(c, LAMBDA p : p = pc[h]) + 1]
Listo(h, paso) == ~caido /\ pc[h] = paso
Paso(h, paso) == Listo(h, paso) /\ pc' = [pc EXCEPT ![h] = Sigue(h)]

-----------------------------------------------------------------------------
(* AtiendeCliente: a connection; and the semaphores.                       *)

Pide(h) ==
  /\ \A g \in pedido[h].antes : pc[g] = "fin"
  /\ Paso(h, "pide")
  /\ UNCHANGED <<pedido, lanzado, semaforo, archivos, proceso, leido, bloques, conexion,
                 salio, caido>>

(* Mistakes: the map does not take semaforoMapper, or semaforoScript;      *)
(* setBloque takes no semaphore.                                           *)
MapSinMapper(h, s) == s = "mapper" /\ Rutina(h) = "map"
MapSinScript(h, s) == s = "script" /\ Rutina(h) = "map"
SinSetBloque(h, s) == s = "setBloque"

(* No step goes past its semaphore.                                        *)
SinEsperar(h, s) == FALSE
Toma(h, s) ==
  /\ semaforo[s] = Nada \/ SinEsperar(h, s)
  /\ semaforo' = [semaforo EXCEPT ![s] = IF SinEsperar(h, s) THEN @ ELSE h]
(* Mistake: the early return of a routine leaves semaforoMapper taken.     *)
SueltaMenosMapper(h, s) ==
  semaforo' = [semaforo EXCEPT ![s] = IF @ = h /\ s # "mapper" THEN Nada ELSE @]
Suelta(h, s) == semaforo' = [semaforo EXCEPT ![s] = IF @ = h THEN Nada ELSE @]

(* procesarRutinaMap and procesarRutinaReduce hold semaforoMapper to their *)
(* end; semaforoScript is held around runScriptFile, but not by the reduce.*)
TomaMapper(h) ==
  /\ Paso(h, "mapper") /\ Toma(h, "mapper")
  /\ UNCHANGED <<pedido, lanzado, archivos, proceso, leido, bloques, conexion, salio, caido>>
TomaScript(h) ==
  /\ Paso(h, "script") /\ Toma(h, "script")
  /\ UNCHANGED <<pedido, lanzado, archivos, proceso, leido, bloques, conexion, salio, caido>>
SueltaScript(h) ==
  /\ Paso(h, "suelta") /\ Suelta(h, "script")
  /\ UNCHANGED <<pedido, lanzado, archivos, proceso, leido, bloques, conexion, salio, caido>>

-----------------------------------------------------------------------------
(* grabarScript, with the script empty and open in between, and system().  *)

AbreGuion(h) ==
  /\ Paso(h, "abre")
  /\ guion' = [guion EXCEPT ![GuionDe(h)] = Nada]
  /\ abiertos' = abiertos \cup {<<h, GuionDe(h)>>}
  /\ UNCHANGED <<pedido, lanzado, semaforo, arch, tmp, hijos, leido, bloques, conexion,
                 salio, caido>>
GrabaGuion(h) ==
  /\ Paso(h, "graba")
  /\ guion' = [guion EXCEPT ![GuionDe(h)] = pedido[h].job]
  /\ abiertos' = abiertos \ {<<h, GuionDe(h)>>}
  /\ UNCHANGED <<pedido, lanzado, semaforo, arch, tmp, hijos, leido, bloques, conexion,
                 salio, caido>>

(* A child of thread h with what is open now, its own pipe aside.  por is  *)
(* whose script it runs, Nada for a command and when exec fails.           *)
Hijo(h, que, por) ==
  [padre |-> h, que |-> que, por |-> por, vivo |-> TRUE,
   abiertos |-> abiertos \ {<<h, "tubo">>}]

Comandos == {"chmod", "sort", "rmTmp", "rmGuion", "rmEntrada"}
LanzaComando(h) ==
  /\ ~caido /\ pc[h] \in Comandos /\ ~lanzado[h]
  /\ lanzado' = [lanzado EXCEPT ![h] = TRUE]
  /\ hijos' = hijos \cup {Hijo(h, pc[h], Nada)}
  /\ UNCHANGED <<pedido, pc, semaforo, archivos, abiertos, leido, bloques, conexion,
                 salio, caido>>

(* What each command does to the files of the request it is run for.       *)
Ejecuta(que, h) ==
  LET n == pedido[h].salida
  IN /\ arch' = CASE que = "sort" /\ tmp[n] # Nada -> [arch EXCEPT ![n] = tmp[n]]
                  [] que = "rmEntrada" -> [arch EXCEPT ![LaEntrada(h)] = Nada]
                  [] OTHER -> arch
     /\ tmp' = IF que = "rmTmp" THEN [tmp EXCEPT ![n] = Nada] ELSE tmp
     /\ guion' = IF que = "rmGuion" THEN [guion EXCEPT ![GuionDe(h)] = Nada] ELSE guion
Termina(c) == hijos' = (hijos \ {c}) \cup {[c EXCEPT !.vivo = FALSE, !.abiertos = {}]}
TerminaComando(c) ==
  /\ c \in hijos /\ c.vivo /\ c.que \in Comandos
  /\ Ejecuta(c.que, c.padre)
  /\ Termina(c)
  /\ UNCHANGED <<pedido, pc, lanzado, semaforo, abiertos, leido, bloques, conexion,
                 salio, caido>>

(* system() waits for its own child, and goes on too when another thread   *)
(* took it.                                                                *)
EsperaComando(h) ==
  LET suyo == {c \in hijos : c.padre = h /\ c.que = pc[h]}
  IN /\ ~caido /\ lanzado[h] /\ \A c \in suyo : ~c.vivo
     /\ hijos' = hijos \ suyo
     /\ lanzado' = [lanzado EXCEPT ![h] = FALSE]
     /\ pc' = [pc EXCEPT ![h] = Sigue(h)]
     /\ UNCHANGED <<pedido, semaforo, archivos, abiertos, leido, bloques, conexion,
                    salio, caido>>

-----------------------------------------------------------------------------
(* What goes into the script.                                              *)

EnBloque(b) ==
  [de |-> {datos[b]} \ {Nada}, por |-> Nada, entero |-> TRUE, hilo |-> Nada]

(* The reduce does not look at what fopen gives it.                        *)
LeeEntrada(h) ==
  LET e == arch[LaEntrada(h)]
  IN /\ \/ /\ Paso(h, "lee") /\ e # Nada
           /\ leido' = [leido EXCEPT ![h] = e]
           /\ UNCHANGED caido
        \/ /\ Listo(h, "lee") /\ e = Nada
           /\ caido' = TRUE
           /\ UNCHANGED <<pc, leido>>
     /\ UNCHANGED <<pedido, lanzado, semaforo, archivos, proceso, bloques, conexion, salio>>

(* Mistake: the merge takes whatever results are in the directory.         *)
TodasLasPartes(h) == {arch[n] : n \in Nombre} \ {Nada}
Partes(h) == {arch[n] : n \in pedido[h].entradas}

(* The merge of local parts (module Apareo): with no part left it is empty,*)
(* one that is missing beside others ends the node, and an empty one, which*)
(* one that is not whole may be, is counted for ever.                      *)
Junta(h) ==
  LET partes == Partes(h)
      hay == partes \ {Nada}
  IN /\ \/ /\ Paso(h, "junta")
           /\ Nada \notin partes \/ hay = {}
           /\ leido' = [leido EXCEPT ![h] =
                          [de |-> UNION {p.de : p \in hay}, por |-> Nada, hilo |-> Nada,
                           entero |-> Nada \notin partes /\ \A p \in hay : p.entero]]
           /\ UNCHANGED caido
        \/ /\ Listo(h, "junta")
           /\ Nada \in partes /\ hay # {}
           /\ caido' = TRUE
           /\ UNCHANGED <<pc, leido>>
        \/ /\ Listo(h, "junta")
           /\ \E p \in hay : ~p.entero
           /\ pc' = [pc EXCEPT ![h] = "cuelga"]
           /\ UNCHANGED <<caido, leido>>
     /\ UNCHANGED <<pedido, lanzado, semaforo, archivos, proceso, bloques, conexion, salio>>

-----------------------------------------------------------------------------
(* runScriptFile: pipe, fork, write and close, wait.                       *)

Entuba(h) ==
  /\ Paso(h, "tubo")
  /\ abiertos' = abiertos \cup {<<h, "tubo">>}
  /\ UNCHANGED <<pedido, lanzado, semaforo, archivos, hijos, leido, bloques, conexion,
                 salio, caido>>

(* The script is executed if it is there and nobody has it open to write.  *)
AbiertoPara(g) ==
  \E d \in abiertos \cup UNION {c.abiertos : c \in hijos} : d[2] = g
Ejecutable(h) == IF AbiertoPara(GuionDe(h)) THEN Nada ELSE guion[GuionDe(h)]
Bifurca(h) ==
  LET n == pedido[h].salida
  IN /\ Paso(h, "fork")
     /\ hijos' = hijos \cup {Hijo(h, "guion", Ejecutable(h))}
     /\ IF Rutina(h) = "map"
        THEN tmp' = [tmp EXCEPT ![n] = AMedias(h)] /\ UNCHANGED arch
        ELSE arch' = [arch EXCEPT ![n] = AMedias(h)] /\ UNCHANGED tmp
     /\ UNCHANGED <<pedido, lanzado, semaforo, guion, abiertos, leido, bloques, conexion,
                    salio, caido>>

(* Writing to a child that could not execute its script may end the node   *)
(* (SIGPIPE).  A map reads its block here, through mmap.                   *)
Escribe(h) ==
  /\ \/ /\ Paso(h, "escribe")
        /\ leido' = [leido EXCEPT ![h] =
                       IF Rutina(h) = "map" THEN EnBloque(pedido[h].bloque) ELSE @]
        /\ abiertos' = abiertos \ {<<h, "tubo">>}
        /\ UNCHANGED caido
     \/ /\ Listo(h, "escribe")
        /\ \A c \in hijos : c.padre = h /\ c.que = "guion" => ~c.vivo
        /\ caido' = TRUE
        /\ UNCHANGED <<pc, leido, abiertos>>
  /\ UNCHANGED <<pedido, lanzado, semaforo, archivos, hijos, bloques, conexion, salio>>

(* The script reads to the end of the pipe, which comes when nobody has    *)
(* its other side; one that could not be executed ends at once.            *)
EsperaA(c, d) == <<c.padre, "tubo">> \in d.abiertos
Puede(c) ==
  \/ c.por = Nada
  \/ /\ <<c.padre, "tubo">> \notin abiertos
     /\ \A d \in hijos : ~EsperaA(c, d)
Escrito(c) ==
  [de |-> leido[c.padre].de, por |-> c.por, entero |-> leido[c.padre].entero,
   hilo |-> c.padre]
(* Its output, unless the file was erased or opened again.                 *)
Deja(f, c) ==
  LET n == pedido[c.padre].salida
  IN IF c.por # Nada /\ f[n] = AMedias(c.padre) THEN [f EXCEPT ![n] = Escrito(c)] ELSE f
TerminaGuion(c) ==
  /\ c \in hijos /\ c.vivo /\ c.que = "guion"
  /\ Puede(c)
  /\ IF Rutina(c.padre) = "map" THEN tmp' = Deja(tmp, c) /\ UNCHANGED arch
                                ELSE arch' = Deja(arch, c) /\ UNCHANGED tmp
  /\ Termina(c)
  /\ UNCHANGED <<pedido, pc, lanzado, semaforo, guion, abiertos, leido, bloques, conexion,
                 salio, caido>>

(* wait(&status): any child that ended.  There is always one to come: each *)
(* wait takes one, and each thread that waits forked one.                  *)
Espera(h) ==
  /\ Paso(h, "espera")
  /\ \E c \in {d \in hijos : ~d.vivo} : hijos' = hijos \ {c}
  /\ UNCHANGED <<pedido, lanzado, semaforo, archivos, abiertos, leido, bloques, conexion,
                 salio, caido>>

(* The answer 31, whatever happened: runScriptFile returns 1.              *)
Responde(h) ==
  /\ Paso(h, "responde")
  /\ Suelta(h, "mapper")
  /\ salio' = [salio EXCEPT ![h] = arch[pedido[h].salida]]
  /\ UNCHANGED <<pedido, lanzado, archivos, proceso, leido, bloques, conexion, caido>>

-----------------------------------------------------------------------------
(* subirArchivoAFilesystem.  What goes over socket_Fs: a first burst with  *)
(* the size and the name, and the content.                                 *)

Cabecera(h) == [que |-> "cabecera", de |-> h, dato |-> Nada]
Cuerpo(h) == [que |-> "cuerpo", de |-> h, dato |-> salio[h]]
Sube(h) ==
  LET a == arch[pedido[h].salida]
  IN /\ Paso(h, "sube") /\ a # Nada
     /\ salio' = [salio EXCEPT ![h] = a]
     /\ alFs' = Append(alFs, Cabecera(h))
     /\ UNCHANGED <<pedido, lanzado, semaforo, archivos, proceso, leido, bloques, delFs, fs,
                    guardado, caido>>

(* Mistakes: the content goes without an answer; one answer too many is    *)
(* taken from the socket.                                                  *)
TodasONinguna == 0..delFs
LeeDeMas(k) == delFs' = delFs - (k + 1)

(* It reads an answer and takes it for its own; every "Ok" that arrived    *)
(* fits in one recv.                                                       *)
Respuestas == 1..delFs
Lee(k) == delFs' = delFs - k
MandaCuerpo(h) ==
  /\ Paso(h, "cuerpo")
  /\ \E k \in Respuestas : Lee(k)
  /\ alFs' = Append(alFs, Cuerpo(h))
  /\ UNCHANGED <<pedido, lanzado, semaforo, archivos, proceso, leido, bloques, fs, guardado,
                 salio, caido>>
(* This recv has room for three bytes.                                     *)
LeeOk(h) ==
  /\ Paso(h, "ok") /\ delFs > 0
  /\ Lee(1)
  /\ UNCHANGED <<pedido, lanzado, semaforo, archivos, proceso, leido, bloques, alFs, fs,
                 guardado, salio, caido>>

(* The Filesystem's thread (AtiendeCliente, subirArchivoDelNodo).  Its     *)
(* first recv has a fixed size: the start of what is already behind the    *)
(* first burst comes with it and is lost.                                  *)
FsCabecera ==
  /\ fs.estado = "libre" /\ alFs # <<>>
  /\ LET x == Head(alFs)
         resto == Tail(alFs)
     IN \/ /\ x.que = "cabecera"
           /\ fs' = [estado |-> "cuerpo", de |-> x.de]
           /\ delFs' = delFs + 1
           /\ \/ alFs' = resto
              \/ /\ resto # <<>>
                 /\ alFs' = <<[resto[1] EXCEPT !.que = "cortado"]>> \o Tail(resto)
        \/ /\ x.que # "cabecera"
           /\ fs' = [fs EXCEPT !.estado = "perdido"]
           /\ UNCHANGED <<alFs, delFs>>
  /\ UNCHANGED <<pedido, pc, lanzado, semaforo, archivos, proceso, leido, bloques, guardado,
                 salio, caido>>

(* It counts bytes: with fewer than announced it waits for more, and takes *)
(* whatever comes.  It answers here and once more when it has stored it.   *)
FsCuerpo ==
  /\ fs.estado \in {"cuerpo", "falta"} /\ alFs # <<>>
  /\ alFs' = Tail(alFs)
  /\ IF fs.estado = "cuerpo" /\ Head(alFs).que # "cuerpo"
     THEN fs' = [fs EXCEPT !.estado = "falta"] /\ UNCHANGED <<delFs, guardado>>
     ELSE /\ fs' = [fs EXCEPT !.estado = "guarda"]
          /\ delFs' = delFs + 1
          /\ guardado' = [guardado EXCEPT ![fs.de] =
               IF fs.estado = "cuerpo" THEN Head(alFs).dato ELSE AMedias(fs.de)]
  /\ UNCHANGED <<pedido, pc, lanzado, semaforo, archivos, proceso, leido, bloques, salio,
                 caido>>
FsGuarda ==
  /\ fs.estado = "guarda"
  /\ fs' = [estado |-> "libre", de |-> Nada]
  /\ delFs' = delFs + 1
  /\ UNCHANGED <<pedido, pc, lanzado, semaforo, archivos, proceso, leido, bloques, alFs,
                 guardado, salio, caido>>

-----------------------------------------------------------------------------
(* The blocks: setBloque, and procesarGetBloqueDeFs.                       *)

(* A block past the end ends the node.                                     *)
TomaSetBloque(h) ==
  /\ \/ /\ pedido[h].bloque \in Bloque
        /\ Paso(h, "setBloque") /\ Toma(h, "setBloque")
        /\ UNCHANGED caido
     \/ /\ pedido[h].bloque \notin Bloque
        /\ Listo(h, "setBloque") /\ caido' = TRUE
        /\ UNCHANGED <<pc, semaforo>>
  /\ UNCHANGED <<pedido, lanzado, archivos, proceso, leido, bloques, conexion, salio>>

(* fseek, twice, and the fwrite of the zeros and of the data.              *)
Posiciona(h) ==
  /\ Paso(h, "seek0") \/ Paso(h, "seek")
  /\ posicion' = pedido[h].bloque
  /\ UNCHANGED <<pedido, lanzado, semaforo, archivos, proceso, leido, datos, conexion, salio,
                 caido>>
EscribeEn(b, x) == datos' = [c \in Bloque |-> IF c = b THEN x ELSE datos[c]]
EscribeCeros(h) ==
  /\ Paso(h, "ceros")
  /\ EscribeEn(posicion, Nada)
  /\ posicion' = posicion + 1
  /\ UNCHANGED <<pedido, lanzado, semaforo, archivos, proceso, leido, conexion, salio, caido>>
EscribeDatos(h) ==
  /\ Paso(h, "datos")
  /\ EscribeEn(posicion, pedido[h].dato)
  /\ posicion' = posicion + 1
  /\ Suelta(h, "setBloque")
  /\ UNCHANGED <<pedido, lanzado, archivos, proceso, leido, conexion, salio, caido>>

(* The length that is announced and the content are read apart.            *)
AnunciaBloque(h) ==
  /\ Paso(h, "anuncia")
  /\ leido' = [leido EXCEPT ![h] = EnBloque(pedido[h].bloque)]
  /\ UNCHANGED <<pedido, lanzado, semaforo, archivos, proceso, bloques, conexion, salio,
                 caido>>
MandaBloque(h) ==
  /\ Paso(h, "manda")
  /\ salio' = [salio EXCEPT ![h] = EnBloque(pedido[h].bloque)]
  /\ UNCHANGED <<pedido, lanzado, semaforo, archivos, proceso, leido, bloques, conexion,
                 caido>>

-----------------------------------------------------------------------------
Atiende(h) ==
  \/ TomaMapper(h) \/ TomaScript(h) \/ SueltaScript(h)
  \/ AbreGuion(h) \/ GrabaGuion(h) \/ LanzaComando(h) \/ EsperaComando(h)
  \/ LeeEntrada(h) \/ Junta(h) \/ Entuba(h) \/ Bifurca(h) \/ Escribe(h) \/ Espera(h)
  \/ Responde(h) \/ Sube(h) \/ MandaCuerpo(h) \/ LeeOk(h)
  \/ TomaSetBloque(h) \/ Posiciona(h) \/ EscribeCeros(h) \/ EscribeDatos(h)
  \/ AnunciaBloque(h) \/ MandaBloque(h)
Avanza ==
  \/ \E h \in Hilo : Atiende(h)
  \/ \E c \in hijos : TerminaComando(c) \/ TerminaGuion(c)
  \/ FsCabecera \/ FsCuerpo \/ FsGuarda

Next == Avanza \/ \E h \in Hilo : Pide(h)

(* A thread that can go on does, once it was asked; so do the children and *)
(* the Filesystem.  Each has finitely many steps to do, so one condition   *)
(* on all of them is fair to each.  Nobody has to ask.                     *)
Spec == Init /\ [][Next]_vars /\ WF_vars(Avanza)

-----------------------------------------------------------------------------
(* Properties.                                                             *)

Mensaje ==
  [que : {"cabecera", "cuerpo", "cortado"}, de : Hilo, dato : Contenido \cup {Nada}]

(* Types.  No more answers are unread than three for each upload.          *)
TypeOK ==
  /\ pedido \in [Hilo -> Pedido]
  /\ \A h \in Hilo : pc[h] \in ToSet(Camino(Rutina(h))) \cup {"cuelga"}
  /\ lanzado \in [Hilo -> BOOLEAN]
  /\ semaforo \in [{"mapper", "script", "setBloque"} -> Hilo \cup {Nada}]
  /\ arch \in [Nombre -> Contenido \cup {Nada}] /\ tmp \in [Nombre -> Contenido \cup {Nada}]
  /\ guion \in [Guion \cup Nombre -> Job \cup {Nada}]
  /\ abiertos \subseteq Hilo \X (Guion \cup Nombre \cup {"tubo"})
  /\ hijos \subseteq [padre : Hilo, que : Comandos \cup {"guion"}, por : Job \cup {Nada},
                      vivo : BOOLEAN, abiertos : SUBSET (Hilo \X (Guion \cup Nombre \cup {"tubo"}))]
  /\ leido \in [Hilo -> Contenido] /\ salio \in [Hilo -> Contenido \cup {Nada}]
  /\ datos \in [Bloque -> Dato \cup {Nada}] /\ posicion \in Nat
  /\ alFs \in Seq(Mensaje) /\ delFs \in 0..(3 * Cardinality(Hacen({"total"})))
  /\ fs \in [estado : {"libre", "cuerpo", "falta", "guarda", "perdido"}, de : Hilo \cup {Nada}]
  /\ guardado \in [Hilo -> Contenido \cup {Nada}]
  /\ caido \in BOOLEAN

Pedidos(r) == {h \in Hacen(r) : pc[h] # "pide"}
Respondio(h) == pc[h] = "fin" /\ salio[h] # Nada

(* As long as a node was not asked for a total reduce, a map or a local    *)
(* reduce that was answered with 31 left the whole result of its own       *)
(* Job's script, even when another Job gives its scripts and results the   *)
(* same names: semaforoMapper keeps them apart, and nobody else has        *)
(* children for their wait to take.                                        *)
EnteroSinTotales ==
  Pedidos({"total"}) = {} =>
    \A h \in Hacen({"map", "reduce"}) :
      Respondio(h) => salio[h].entero /\ salio[h].por = pedido[h].job

(* No two requests give a result, and no two Jobs a total reduce and       *)
(* anything else, the same name; a reduce is sent when what it reads was   *)
(* answered.                                                               *)
DeResultado == Hacen({"map", "reduce", "total"})
SinTocayos ==
  \A h, g \in DeResultado :
    /\ h # g => pedido[h].salida # pedido[g].salida
    /\ Rutina(h) = "total" /\ pedido[h].job # pedido[g].job => GuionDe(h) # GuionDe(g)
TrasSusPartes ==
  \A h, g \in DeResultado : pedido[g].salida \in pedido[h].entradas => g \in pedido[h].antes
Productores(h) == {g \in DeResultado : pedido[g].salida \in pedido[h].entradas}

(* Then a result that is whole was written by a script of its own Job over *)
(* what its request read; and a reduce read, all of it, what the requests  *)
(* whose results it was given had read: the node's working directory keeps *)
(* the Jobs apart, whatever the order of the threads and of the children,  *)
(* although a script may still be writing when its request is answered.    *)
CadenaPropia ==
  SinTocayos /\ TrasSusPartes =>
    \A h \in DeResultado :
      Respondio(h) /\ salio[h].entero =>
        /\ salio[h].por = pedido[h].job
        /\ salio[h].de = leido[h].de
        /\ Rutina(h) # "map" => leido[h].de = UNION {leido[g].de : g \in Productores(h)}

(* Blocks are written where they belong: when nobody is writing a block it *)
(* holds what one of the finished setBloque of that block wrote, or what   *)
(* it held at the start; never the zeros, never the data of another.       *)
BloqueEnSuLugar ==
  \A b \in Bloque :
    LET suyos == {h \in Hacen({"set"}) : pedido[h].bloque = b}
        hechos == {h \in suyos : pc[h] = "fin"}
    IN (\A h \in suyos : pc[h] \in {"pide", "setBloque", "fin"}) =>
         datos[b] \in IF hechos = {} THEN {Inicial[b]} ELSE {pedido[h].dato : h \in hechos}

(* Scripts that wait for each other to close what they inherited.          *)
Trabados ==
  LET vivos == {c \in hijos : c.vivo /\ c.que = "guion" /\ c.por # Nada}
  IN UNION {S \in SUBSET vivos : \A c \in S : \E d \in S : EsperaA(c, d)}

(* That needs the script of a local reduce, which runs without             *)
(* semaforoScript, and that of a total reduce, which runs without          *)
(* semaforoMapper: no map is ever part of it.                              *)
SeTrabanReduceYTotal ==
  LET r == {Rutina(c.padre) : c \in Trabados} IN r = {} \/ r = {"reduce", "total"}

(* The first total reduce of a node that is answered was stored by the     *)
(* Filesystem, and as it was sent, while no second one was asked for.      *)
PrimeraSubida ==
  \A h \in Pedidos({"total"}) :
    pc[h] = "fin" /\ Pedidos({"total"}) = {h} => guardado[h] = salio[h]

(* In the end every request that came was answered, unless the node dies, two scripts *)
(* hold each other, the merge counts an empty part or two total reduces    *)
(* share socket_Fs.                                                        *)
Impedido ==
  \/ caido \/ Trabados # {} \/ Cardinality(Pedidos({"total"})) > 1
  \/ \E h \in Hilo : pc[h] = "cuelga"
RespuestaLlega == <>[](Impedido \/ \A h \in Hilo : pc[h] \in {"pide", "fin"})

(* nodo.c:1321 says "Archivo de Resultado Subido al Filesystem" once the   *)
(* upload returned: what a finished total reduce sent is stored.           *)
ResultadoSubido ==
  \A h \in Hilo : Rutina(h) = "total" /\ pc[h] = "fin" ~> guardado[h] = salio[h]
=============================================================================
