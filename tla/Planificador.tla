---------------------------- MODULE Planificador ----------------------------
(***************************************************************************)
(* MaRTA's planner (marta.c) with the answer of the Filesystem it works    *)
(* from (AtiendeMarta, filesystemdev.c).  One thread of MaRTA per Job asks *)
(* where the copies of its files are, adds the nodes to lista_nodos, which *)
(* all threads share, chooses one copy per block by weight, hands the      *)
(* tasks out and, when all of them were done, groups the partial results   *)
(* by node for the total reduce.                                           *)
(*                                                                         *)
(* What the threads share is lista_nodos, with a load that is incremented  *)
(* without a lock, and socket_fs.  Each action is the code between two     *)
(* points where another thread can be noticed.  The text of a message is   *)
(* the sequence of the names in it: a reading that gets out of step with   *)
(* numbers is not followed ("perdido", or MaRTA dies).  Failures of tasks  *)
(* and what MaRTA answers to a Job are in JobMarta.                        *)
(***************************************************************************)
EXTENDS Integers, Sequences, FiniteSets, Bags, SequencesExt, FiniteSetsExt

CONSTANTS
  Job,      \* the Jobs, one thread of MaRTA each
  Nodo,     \* the nodes of the MDFS
  Ip,       \* their addresses, and
  Puerto,   \* their ports, as the MDFS tells them
  Lugar,    \* the place of each name in the order of strcmp
  Archivo,  \* the paths of files a Job may name
  Hoja,     \* the last name in each path
  Prof,     \* and the number of names in it
  NoEsta,   \* instead of its blocks: the directory has no such file
  SinRuta,  \* instead of its blocks: a directory of the path is missing
  Casos,    \* where an instance starts: [disco, pedido, nodos]
  Nadie     \* no Job

ASSUME PlanificadorAssumption ==
  /\ IsFiniteSet(Job) /\ Nadie \notin Job
  /\ Ip \in [Nodo -> STRING] /\ Puerto \in [Nodo -> STRING]
  /\ Lugar \in [Nodo -> Nat] /\ IsInjective(Lugar)
  /\ Hoja \in [Archivo -> STRING]
  /\ Prof \in [Archivo -> Nat \ {0}]
  /\ \A n \in Nodo : Ip[n] \notin Nodo /\ Puerto[n] \notin Nodo
  /\ \A c \in Casos :
       /\ c.disco \in [Archivo -> {NoEsta, SinRuta} \cup Seq(Seq([nodo : Nodo, bloque : Nat]))]
       /\ c.pedido \in [Job -> [archivos : Seq(Archivo), combiner : BOOLEAN]]
       /\ c.nodos \in Seq(Nodo)

VARIABLES
  disco,        \* the MDFS: for each path the copies of each block, or why not
  pedido,       \* what each Job asks for: [archivos, combiner]
  lista_nodos,  \* [nombre, ip, puerto, pendientes, bloques]
  socket_fs,    \* whose connection to the Filesystem socket_fs is
  hilo,         \* where the thread of each Job is
  resto,        \* what it has not read yet of the nodes in the answer
  faltan,       \* cantNodo - c: the nodes it still expects there
  bloques,      \* listaBloques of each file: [bloque, copias]
  listas,       \* array_de_listas of each file: [nodo, peso, bloques]
  cursor,       \* [archivo, lista]: i and c of enviarPlanificacionAJob
  leida,        \* the load it read, and at which index of lista_nodos
  enviados,     \* lista_job_enviado
  total,        \* the groups of the message that asks for the total reduce
  solapo,       \* history: two threads were changing one load together
  caida         \* why MaRTA died: "no", "prof", "nodo", "entrada" or "lectura"

vars == <<disco, pedido, lista_nodos, socket_fs, hilo, resto, faltan, bloques, listas,
          cursor, leida, enviados, total, solapo, caida>>

mdfs == <<disco, pedido>>
lectura == <<resto, faltan>>
reparto == <<bloques, listas, cursor>>
tareas == <<leida, enviados, total, solapo>>

NodoNuevo(n, ip, puerto) ==
  [nombre |-> n, ip |-> ip, puerto |-> puerto, pendientes |-> 0, bloques |-> <<>>]

Init ==
  /\ \E c \in Casos :
       /\ disco = c.disco
       /\ pedido = c.pedido
       /\ lista_nodos = [i \in DOMAIN c.nodos |->
                           NodoNuevo(c.nodos[i], Ip[c.nodos[i]], Puerto[c.nodos[i]])]
  /\ socket_fs = Nadie
  /\ hilo = [j \in Job |-> "inicio"]
  /\ resto = [j \in Job |-> <<>>]
  /\ faltan = [j \in Job |-> 0]
  /\ bloques = [j \in Job |-> <<>>]
  /\ listas = [j \in Job |-> <<>>]
  /\ cursor = [j \in Job |-> [archivo |-> 1, lista |-> 1]]
  /\ leida = [j \in Job |-> [nodo |-> 0, carga |-> 0]]
  /\ enviados = [j \in Job |-> <<>>]
  /\ total = [j \in Job |-> <<>>]
  /\ solapo = FALSE
  /\ caida = "no"

Pasa(j, de, a) ==
  caida = "no" /\ hilo[j] = de /\ hilo' = [hilo EXCEPT ![j] = a] /\ UNCHANGED caida
Muere(porque) == caida' = porque /\ UNCHANGED hilo

(* Some elements of a sequence, told by their index, and each of them once,*)
(* and in a stable order.                                                  *)
Algunos(s, Test(_)) ==
  FlattenSeq([i \in DOMAIN s |-> IF Test(i) THEN <<s[i]>> ELSE <<>>])
Distintos(s) == Algunos(s, LAMBDA i : \A k \in 1..(i - 1) : s[k] # s[i])
PorOrden(s, Antes(_, _)) ==
  LET antes(a) == {b \in DOMAIN s : Antes(s[b], s[a]) \/ (~Antes(s[a], s[b]) /\ b < a)}
  IN [i \in DOMAIN s |-> s[CHOOSE a \in DOMAIN s : Cardinality(antes(a)) = i - 1]]

(* Mistake: the semaphore is still held when the node is to be added.      *)
SinSoltar == \A j \in Job : hilo[j] \notin {"resta", "agrega"}
(* semaforoListaNodos: held across two steps only around the decrement.    *)
Cerrojo == \A j \in Job : hilo[j] # "resta"

-----------------------------------------------------------------------------
(* The Filesystem's side.                                                  *)

Pedidos(j) == [x \in DOMAIN pedido[j].archivos |-> disco[pedido[j].archivos[x]]]

(* AtiendeMarta names each node of the answer once, in order of appearance.*)
NodosDe(pedidos) ==
  LET copias == FlattenSeq(FlattenSeq(pedidos))
  IN Distintos([i \in DOMAIN copias |-> copias[i].nodo])

(* One file that is not there turns the whole answer into "No", which      *)
(* MaRTA reads as an answer without files and without nodes.               *)
DiceNo(pedidos) == NoEsta \in ToSet(pedidos)

(* A file whose directory is missing is left out, but was counted; and     *)
(* MaRTA reads three copies of each block, however many there are.         *)
SeLee(pedidos) ==
  \A b \in ToSet(pedidos) :
    b \notin {SinRuta, NoEsta} /\ \A k \in DOMAIN b : Len(b[k]) = 3

(* Each node of the answer is its name, its ip and its port.               *)
Dicho(n) == <<n, Ip[n], Puerto[n]>>
(* Mistake: the port is left out.                                          *)
TextoSinPuerto(nodos) ==
  LET dicho[n \in Nodo] == Dicho(n) IN
  [i \in 1..(2 * Len(nodos)) |-> dicho[nodos[(i + 1) \div 2]][((i + 1) % 2) + 1]]
Texto(nodos) ==
  LET dicho[n \in Nodo] == Dicho(n) IN
  [i \in 1..(3 * Len(nodos)) |-> dicho[nodos[(i + 2) \div 3]][((i + 2) % 3) + 1]]

-----------------------------------------------------------------------------
(* ObtenerInfoDeNodos.                                                     *)

(* MaRTA finds the file of an answer by its last name, so the blocks of    *)
(* two files of equal last name all go to the first; they are numbered     *)
(* from 0 in each answer.                                                  *)
DeLaHoja(as, x) == SelectInSeq(as, LAMBDA a : Hoja[a] = Hoja[as[x]])
Leidos(as, pedidos) ==
  [f \in DOMAIN as |->
     FlattenSeq([x \in DOMAIN as |->
       IF DeLaHoja(as, x) = f
       THEN [k \in DOMAIN pedidos[x] |-> [bloque |-> k, copias |-> pedidos[x][k]]]
       ELSE <<>>])]

(* con, which counts the names of a path, is never set back to 0: once it  *)
(* is past the end of a shorter path the code reads what lies after it.    *)
CompararCon(as, con, x) ==
  FoldLeft(LAMBDA c, a : IF c = -1 \/ Prof[a] < c THEN -1 ELSE Prof[a],
           con, SubSeq(as, 1, DeLaHoja(as, x)))
LeePasado(as) ==
  FoldLeft(LAMBDA c, x : IF c = -1 THEN -1 ELSE CompararCon(as, c, x),
           0, [x \in DOMAIN as |-> x]) = -1

(* array[j] of a block.                                                    *)
Copia(b, k) == b.copias[k]

(* FuncionMagica: a list for each node that holds a copy, in order of      *)
(* appearance.                                                             *)
FuncionMagica(bs) ==
  LET tres(b) == [k \in 1..3 |-> [bloque |-> b.bloque, nodo |-> Copia(b, k).nodo,
                                  enNodo |-> Copia(b, k).bloque]]
      copias == FlattenSeq([i \in DOMAIN bs |-> tres(bs[i])])
      nodos == Distintos([i \in DOMAIN copias |-> copias[i].nodo])
      lista[n \in Nodo] == [nodo |-> n, peso |-> 0,
                            bloques |-> Algunos(copias, LAMBDA i : copias[i].nodo = n)]
  IN [i \in DOMAIN nodos |-> lista[nodos[i]]]

ConectaFs(j) ==
  /\ Pasa(j, "inicio", "pregunta")
  /\ socket_fs' = j
  /\ UNCHANGED <<mdfs, lectura, reparto, tareas, lista_nodos>>

(* The question and its answer go over socket_fs, whoever opened it.       *)
Responde(j) ==
  LET as == pedido[j].archivos
      no == DiceNo(Pedidos(j))
  IN
  /\ Pasa(j, "pregunta", "busca")
  /\ socket_fs # Nadie
  /\ no \/ (SeLee(Pedidos(j)) /\ ~LeePasado(as))
  /\ bloques' = [bloques EXCEPT ![j] = IF no THEN [f \in DOMAIN as |-> <<>>]
                                      ELSE Leidos(as, Pedidos(j))]
  /\ listas' = [listas EXCEPT ![j] = [f \in DOMAIN as |-> FuncionMagica(bloques'[j][f])]]
  /\ \E dichos \in {IF no THEN <<>> ELSE NodosDe(Pedidos(j))} :
       /\ resto' = [resto EXCEPT ![j] = Texto(dichos)]
       /\ faltan' = [faltan EXCEPT ![j] = Len(dichos)]
  /\ UNCHANGED <<mdfs, tareas, lista_nodos, socket_fs, cursor>>

(* The connection was closed by another thread, or another thread reads    *)
(* and writes it at the same time, or the answer is not what the code      *)
(* expects: from here on the thread takes text for numbers.                *)
SePierde(j) ==
  /\ hilo[j] = "pregunta" /\ caida = "no"
  /\ \/ socket_fs = Nadie
     \/ \E k \in Job \ {j} : hilo[k] = "pregunta"
     \/ ~DiceNo(Pedidos(j)) /\ (~SeLee(Pedidos(j)) \/ LeePasado(pedido[j].archivos))
  /\ \/ Muere(IF SeLee(Pedidos(j)) /\ LeePasado(pedido[j].archivos) THEN "prof" ELSE "lectura")
     \/ hilo' = [hilo EXCEPT ![j] = "perdido"] /\ UNCHANGED caida
  /\ UNCHANGED <<mdfs, lectura, reparto, tareas, lista_nodos, socket_fs>>

(* buscarNodo, and the search of ObtenerInfoDeNodos: 0 is NULL.            *)
BuscarNodo(n) == SelectInSeq(lista_nodos, LAMBDA e : e.nombre = n)

Avanza(j, cuantos) ==
  /\ resto' = [resto EXCEPT ![j] = SubSeq(@, cuantos + 1, Len(@))]
  /\ faltan' = [faltan EXCEPT ![j] = @ - 1]

(* A node that is known: its name is read, its ip and its port are not, so *)
(* the next name read is an ip.                                            *)
NodoConocido(j) ==
  /\ faltan[j] > 0 /\ Cerrojo
  /\ BuscarNodo(Head(resto[j])) # 0
  /\ Pasa(j, "busca", "busca")
  /\ Avanza(j, 1)
  /\ UNCHANGED <<mdfs, reparto, tareas, lista_nodos, socket_fs>>

(* A node that is not known is added in another section of the semaphore.  *)
NodoDesconocido(j) ==
  /\ faltan[j] > 0 /\ Cerrojo
  /\ BuscarNodo(Head(resto[j])) = 0
  /\ Pasa(j, "busca", "agrega")
  /\ UNCHANGED <<mdfs, lectura, reparto, tareas, lista_nodos, socket_fs>>

(* Mistake: ip and port in the wrong order.                                *)
NodoAlReves(t) == NodoNuevo(t[1], t[3], t[2])
(* Mistake: the node is entered by its ip.                                 *)
NodoPorIp(t) == NodoNuevo(t[2], t[2], t[3])
(* The next three names of the answer, taken for a node.                   *)
NodoLeido(t) == NodoNuevo(t[1], t[2], t[3])

AgregaNodo(j) ==
  /\ Cerrojo
  /\ Pasa(j, "agrega", "busca")
  /\ lista_nodos' = Append(lista_nodos, NodoLeido(resto[j]))
  /\ Avanza(j, 3)
  /\ UNCHANGED <<mdfs, reparto, tareas, socket_fs>>

(* CerrarSocket closes whatever connection socket_fs is by now.            *)
CierraFs(j) ==
  /\ faltan[j] = 0
  /\ Pasa(j, "busca", "ordena")
  /\ socket_fs' = Nadie
  /\ UNCHANGED <<mdfs, lectura, reparto, tareas, lista_nodos>>

-----------------------------------------------------------------------------
(* Planificar.  The loads are read one by one; what another thread changes *)
(* in between only moves weights, so this is one step.                     *)

PesoMax(j) == Len(lista_nodos) * 3 * Len(FlattenSeq(bloques[j]))

(* A node that is not in lista_nodos keeps the weight 0.                   *)
Peso(j, l) ==
  LET i == BuscarNodo(l.nodo)
      cuantos == IF pedido[j].combiner THEN 1 ELSE Len(l.bloques)
  IN IF i = 0 THEN 0 ELSE cuantos * PesoMax(j) - lista_nodos[i].pendientes

(* The exchanges of neighbours keep the order of equal weights.            *)
Ordena(ls) == PorOrden(ls, LAMBDA a, b : a.peso > b.peso)

Planificar(j) ==
  LET pesadas(ls) == [i \in DOMAIN ls |-> [ls[i] EXCEPT !.peso = Peso(j, ls[i])]] IN
  /\ Cerrojo
  /\ Pasa(j, "ordena", "reparte")
  /\ listas' = [listas EXCEPT ![j] = [f \in DOMAIN @ |-> Ordena(pesadas(@[f]))]]
  /\ UNCHANGED <<mdfs, lectura, tareas, lista_nodos, socket_fs, bloques, cursor>>

-----------------------------------------------------------------------------
(* enviarPlanificacionAJob, first half: choose a copy of each block.       *)

(* Mistake: only the list at hand is marked, not every copy of the block.  *)
MarcadoAqui(j, f, n, k) ==
  \E e \in ToSet(enviados[j]) : e.archivo = f /\ e.bloque = k /\ e.nodo = n
(* marcarBloquesEnArray: a block that was taken is taken in every list.    *)
Marcado(j, f, n, k) == \E e \in ToSet(enviados[j]) : e.archivo = f /\ e.bloque = k

ListaEn(j) ==
  LET c == cursor[j] IN
  IF c.archivo <= Len(bloques[j]) /\ c.lista <= Len(listas[j][c.archivo])
  THEN listas[j][c.archivo][c.lista] ELSE [nodo |-> Nadie, peso |-> 0, bloques |-> <<>>]

(* The first block of the list at hand that is not marked; 0 if there is   *)
(* none.                                                                   *)
Tomable(j) ==
  SelectInSeq(ListaEn(j).bloques,
              LAMBDA d : ~Marcado(j, cursor[j].archivo, ListaEn(j).nodo, d.bloque))

Cambian(i) == {j \in Job : hilo[j] \in {"suma", "resta"} /\ leida[j].nodo = i}

(* The task goes to the node's list and to lista_job_enviado; its load is  *)
(* read without the semaphore.  No node in lista_nodos is a NULL pointer.  *)
TomaBloque(j) ==
  LET l == ListaEn(j)
      t == Tomable(j)
      i == BuscarNodo(l.nodo)
  IN
  /\ hilo[j] = "reparte" /\ t # 0 /\ caida = "no"
  /\ IF i = 0 THEN Muere("nodo") /\ UNCHANGED <<lista_nodos, enviados, leida, solapo>>
     ELSE /\ Pasa(j, "reparte", "suma")
          /\ lista_nodos' = [lista_nodos EXCEPT ![i].bloques = Append(@, l.bloques[t].enNodo)]
          /\ enviados' = [enviados EXCEPT ![j] = Append(@,
               [nodo |-> l.nodo, enNodo |-> l.bloques[t].enNodo,
                archivo |-> cursor[j].archivo, bloque |-> l.bloques[t].bloque, estado |-> 0])]
          /\ leida' = [leida EXCEPT ![j] = [nodo |-> i, carga |-> lista_nodos[i].pendientes]]
          /\ solapo' = (solapo \/ Cambian(i) # {})
  /\ UNCHANGED <<mdfs, lectura, reparto, socket_fs, total>>

(* Without combiner a list gives all its blocks, with combiner one.        *)
SumaCarga(j) ==
  /\ Pasa(j, "suma", IF pedido[j].combiner THEN "sigue" ELSE "reparte")
  /\ lista_nodos' = [lista_nodos EXCEPT ![leida[j].nodo].pendientes = leida[j].carga + 1]
  /\ UNCHANGED <<mdfs, lectura, reparto, tareas, socket_fs>>

(* With combiner the rounds go on while blocks are left; they end at as    *)
(* many lists as nodes are known.                                          *)
DaLaVuelta(j, n) ==
  LET c == cursor[j] IN
  /\ pedido[j].combiner
  /\ Cardinality({e.bloque : e \in {x \in ToSet(enviados[j]) : x.archivo = c.archivo}})
       < Len(bloques[j][c.archivo])
  /\ c.lista >= n

Siguiente(j) ==
  LET c == cursor[j] IN
  IF DaLaVuelta(j, Len(lista_nodos)) THEN [c EXCEPT !.lista = 1]
  ELSE IF c.lista < 3 * Len(bloques[j][c.archivo]) THEN [c EXCEPT !.lista = @ + 1]
  ELSE [archivo |-> c.archivo + 1, lista |-> 1]

SiguienteLista(j) ==
  /\ Cerrojo
  /\ cursor[j].archivo <= Len(bloques[j])
  /\ \/ Pasa(j, "sigue", "reparte")
     \/ Pasa(j, "reparte", "reparte") /\ Tomable(j) = 0
  /\ cursor' = [cursor EXCEPT ![j] = Siguiente(j)]
  /\ UNCHANGED <<mdfs, lectura, tareas, lista_nodos, socket_fs, bloques, listas>>

TerminaReparto(j) ==
  /\ cursor[j].archivo > Len(bloques[j])
  /\ Pasa(j, "reparte", "envia")
  /\ UNCHANGED <<mdfs, lectura, reparto, tareas, lista_nodos, socket_fs>>

-----------------------------------------------------------------------------
(* enviarPlanificacionAJob, second half: send the tasks, then the first +. *)

PorEnviar(j) == SelectInSeq(enviados[j], LAMBDA e : e.estado = 0)

(* The task's entry at its node is looked up by its block alone and used   *)
(* without a check.                                                        *)
EnviaTarea(j) ==
  LET p == PorEnviar(j)
      e == enviados[j][p]
      i == BuscarNodo(e.nodo)
  IN
  /\ hilo[j] = "envia" /\ p # 0 /\ caida = "no" /\ Cerrojo
  /\ IF ~Contains(lista_nodos[i].bloques, e.enNodo)
     THEN Muere("entrada") /\ UNCHANGED <<enviados, leida, solapo>>
     ELSE /\ Pasa(j, "envia", "resta")
          /\ enviados' = [enviados EXCEPT ![j][p].estado = 1]
          /\ leida' = [leida EXCEPT ![j] = [nodo |-> i, carga |-> lista_nodos[i].pendientes]]
          /\ solapo' = (solapo \/ Cambian(i) # {})
  /\ UNCHANGED <<mdfs, lectura, reparto, lista_nodos, socket_fs, total>>

(* Mistake: the load stays.                                                *)
NoResta(j) == leida[j].carga
Restada(j) == leida[j].carga - 1

RestaCarga(j) ==
  /\ Pasa(j, "resta", "envia")
  /\ lista_nodos' = [lista_nodos EXCEPT ![leida[j].nodo].pendientes = Restada(j)]
  /\ UNCHANGED <<mdfs, lectura, reparto, tareas, socket_fs>>

PrimerMas(j) ==
  /\ PorEnviar(j) = 0
  /\ Pasa(j, "envia", "trabaja")
  /\ UNCHANGED <<mdfs, lectura, reparto, tareas, lista_nodos, socket_fs>>

-----------------------------------------------------------------------------
(* reciboOk and the message of the total reduce.                           *)

(* eliminarBloqueDeListaDeNodos.                                           *)
SinBloque(s, b) == RemoveFirstMatch(s, LAMBDA x : x = b)

ReciboOkMap(j) ==
  \E p \in DOMAIN enviados[j] :
    LET e == enviados[j][p]
        i == BuscarNodo(e.nodo)
        quedan == SinBloque(lista_nodos[i].bloques, e.enNodo)
    IN
    /\ e.estado = 1 /\ Cerrojo
    /\ Pasa(j, "trabaja", "trabaja")
    /\ enviados' = [enviados EXCEPT ![j][p].estado = IF pedido[j].combiner THEN 2 ELSE 3]
    /\ lista_nodos' = [lista_nodos EXCEPT ![i].bloques =
         IF pedido[j].combiner THEN Append(quedan, e.enNodo) ELSE quedan]
    /\ UNCHANGED <<mdfs, lectura, reparto, socket_fs, leida, total, solapo>>

ReciboOkReduce(j) ==
  \E p \in DOMAIN enviados[j] :
    LET e == enviados[j][p]
        i == BuscarNodo(e.nodo)
    IN
    /\ e.estado = 2 /\ Cerrojo
    /\ Pasa(j, "trabaja", "trabaja")
    /\ enviados' = [enviados EXCEPT ![j][p].estado = 3]
    /\ lista_nodos' = [lista_nodos EXCEPT ![i].bloques = SinBloque(@, e.enNodo)]
    /\ UNCHANGED <<mdfs, lectura, reparto, socket_fs, leida, total, solapo>>

(* Mistake: without the result that opens the group.                       *)
SinLaPrimera(s) == Tail(s)
(* listaBloques of a node in the message.                                  *)
Partes(s) == s

(* A partial result is named after its place in lista_job_enviado.  The    *)
(* entries are taken file by file, sorted by node, grouped, and the groups *)
(* sorted by size.                                                         *)
Grupos(j) ==
  LET as == pedido[j].archivos
      nodo(p) == enviados[j][p].nodo
      deArchivo(f) == Algunos([p \in DOMAIN enviados[j] |-> p],
                              LAMBDA p : as[enviados[j][p].archivo] = as[f])
      porNodo == PorOrden(FlattenSeq([f \in DOMAIN as |-> deArchivo(f)]),
                          LAMBDA p, q : Lugar[nodo(p)] < Lugar[nodo(q)])
      nodos == Distintos([i \in DOMAIN porNodo |-> nodo(porNodo[i])])
      grupo[n \in Nodo] ==
        [nodo |-> n, partes |-> Partes(Algunos(porNodo, LAMBDA i : nodo(porNodo[i]) = n))]
  IN PorOrden([i \in DOMAIN nodos |-> grupo[nodos[i]]],
              LAMBDA a, b : Len(a.partes) > Len(b.partes))

(* The last OK: every block of the Job was done.                           *)
PideTotal(j) ==
  /\ enviados[j] # <<>>
  /\ \A p \in DOMAIN enviados[j] : enviados[j][p].estado = 3
  /\ Len(enviados[j]) = Len(FlattenSeq(bloques[j]))
  /\ Pasa(j, "trabaja", "fin")
  /\ total' = [total EXCEPT ![j] = Grupos(j)]
  /\ UNCHANGED <<mdfs, lectura, reparto, lista_nodos, socket_fs, leida, enviados, solapo>>

Pregunta(j) == ConectaFs(j) \/ Responde(j) \/ SePierde(j)
LeeNodos(j) == NodoConocido(j) \/ NodoDesconocido(j) \/ AgregaNodo(j) \/ CierraFs(j)
Reparte(j) == Planificar(j) \/ TomaBloque(j) \/ SumaCarga(j) \/ SiguienteLista(j)
                \/ TerminaReparto(j)
Envia(j) == EnviaTarea(j) \/ RestaCarga(j) \/ PrimerMas(j)
Hilo(j) == Pregunta(j) \/ LeeNodos(j) \/ Reparte(j) \/ Envia(j)

Next == \E j \in Job : Hilo(j) \/ ReciboOkMap(j) \/ ReciboOkReduce(j) \/ PideTotal(j)

(* Each thread is scheduled; that the OKs of the tasks arrive is not       *)
(* assumed.                                                                *)
Spec == Init /\ [][Next]_vars /\ \A j \in Job : WF_vars(Hilo(j))

-----------------------------------------------------------------------------
(* Properties                                                              *)

Nombres == Nodo \cup {Ip[n] : n \in Nodo} \cup {Puerto[n] : n \in Nodo}
Tarea == [nodo : Nodo, enNodo : Nat, archivo : Nat, bloque : Nat, estado : 0..3]

(* Each variable holds what the C variable can hold; a load may be         *)
(* negative, the length of what is left to read is what is expected.       *)
TypeOK ==
  /\ \A i \in DOMAIN lista_nodos :
       /\ {lista_nodos[i].nombre, lista_nodos[i].ip, lista_nodos[i].puerto} \subseteq Nombres
       /\ lista_nodos[i].pendientes \in Int
       /\ ToSet(lista_nodos[i].bloques) \subseteq Nat
  /\ socket_fs \in Job \cup {Nadie}
  /\ hilo \in [Job -> {"inicio", "pregunta", "busca", "agrega", "ordena", "reparte", "suma",
                       "sigue", "envia", "resta", "trabaja", "fin", "perdido"}]
  /\ \A j \in Job : faltan[j] \in Nat /\ Len(resto[j]) >= 3 * faltan[j]
  /\ \A j \in Job : ToSet(enviados[j]) \subseteq Tarea
  /\ solapo \in BOOLEAN
  /\ caida \in {"no", "prof", "nodo", "entrada", "lectura"}

HojasDistintas(j) ==
  \A x, y \in DOMAIN pedido[j].archivos :
    Hoja[pedido[j].archivos[x]] = Hoja[pedido[j].archivos[y]] => x = y

(* When the tasks go out every block of every file has exactly one,        *)
(* whatever the loads, the nodes known and the interleavings; with         *)
(* combiner only while no more nodes are known than the file has copies.   *)
(* And unless two files of the Job share their last name, a task is on a   *)
(* node that holds that very block.                                        *)
PlanCompleto ==
  \A j \in Job :
    hilo[j] \in {"envia", "resta", "trabaja", "fin"} =>
      \A f \in DOMAIN bloques[j] : \A b \in ToSet(bloques[j][f]) :
        LET suyas == {e \in ToSet(enviados[j]) : e.archivo = f /\ e.bloque = b.bloque}
            buena(e) == [nodo |-> e.nodo, bloque |-> e.enNodo]
                          \in ToSet(disco[pedido[j].archivos[f]][b.bloque])
        IN \/ /\ Quantify(DOMAIN enviados[j], LAMBDA p : enviados[j][p] \in suyas) = 1
              /\ HojasDistintas(j) => \A e \in suyas : buena(e)
           \/ /\ pedido[j].combiner
              /\ Len(lista_nodos) > 3 * Len(bloques[j][f])
              /\ suyas = {}

(* Whatever the reading of the answers took for nodes, an entry that bears *)
(* the name of a node has its address and port.                            *)
DireccionReal ==
  \A i \in DOMAIN lista_nodos : LET e == lista_nodos[i] IN
    e.nombre \in Nodo => e.ip = Ip[e.nombre] /\ e.puerto = Puerto[e.nombre]

(* Unless two threads changed one load together, the load of a node is the *)
(* number of tasks chosen for it and not sent, of all Jobs.                *)
CargaExacta ==
  ~solapo => \A i \in DOMAIN lista_nodos :
    LET n == lista_nodos[i].nombre
        porEnviar(j) == Cardinality({p \in DOMAIN enviados[j] :
                          enviados[j][p].nodo = n /\ enviados[j][p].estado = 0})
        sumando == Cardinality({j \in Job : hilo[j] = "suma" /\ leida[j].nodo = i})
        restando == Cardinality({j \in Job : hilo[j] = "resta" /\ leida[j].nodo = i})
    IN BuscarNodo(n) = i =>
         lista_nodos[i].pendientes
           = SumFunction([j \in Job |-> porEnviar(j)]) - sumando + restando

NombresDe(j) == ToSet(NodosDe(Pedidos(j)))

(* MaRTA dies of a node without an entry only when the answer of a Job     *)
(* names a node that was known before it was read, and it never misses an  *)
(* entry of a block.                                                       *)
CaeSoloPorConocido ==
  /\ caida # "entrada"
  /\ caida = "nodo" =>
       \E c \in Casos : c.disco = disco /\ c.pedido = pedido /\
         \E j \in Job : ~DiceNo(Pedidos(j)) /\ SeLee(Pedidos(j)) /\
           NombresDe(j) \cap (ToSet(c.nodos) \cup
             UNION {NombresDe(k) : k \in {k \in Job \ {j} : SeLee(Pedidos(k))}}) # {}

(* The message of the total reduce names every partial result of the Job   *)
(* once, under the node where it was made, and no node twice.              *)
TotalCompleto ==
  \A j \in Job : hilo[j] = "fin" =>
    LET gs == total[j] IN
    /\ \A a, b \in DOMAIN gs : gs[a].nodo = gs[b].nodo => a = b
    /\ \A a \in DOMAIN gs : \A p \in ToSet(gs[a].partes) : enviados[j][p].nodo = gs[a].nodo
    /\ HojasDistintas(j) =>
         ToBag(FlattenSeq([a \in DOMAIN gs |-> gs[a].partes]))
           = SetToBag(DOMAIN enviados[j])

(* Unless MaRTA dies or a Job is lost, every Job gets the tasks and the    *)
(* first + after them: the rounds over the lists end.                      *)
PlanLlega ==
  \A j \in Job : HojasDistintas(j) =>
    <>(hilo[j] \in {"trabaja", "fin", "perdido"} \/ caida # "no")
=============================================================================
