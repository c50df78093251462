------------------------------ MODULE JobMarta ------------------------------
(***************************************************************************)
(* One Job connected to MaRTA: the planning handler and the result         *)
(* handlers of MaRTA's thread for that Job (marta.c, AtiendeCliente), the  *)
(* Job's main loop, its envioAMarta thread and one AtiendeCliente thread   *)
(* per task (job.c), and the nodes as the places where the tasks run.      *)
(*                                                                         *)
(* A task is the copy of a block that the planner chose for that block, so *)
(* one element of Tarea stands for a (block, node) pair.  The two sockets  *)
(* between Job and MaRTA are FIFO sequences of messages; a recv takes any  *)
(* non-empty prefix of what has arrived, as the fixed-size recv of both    *)
(* programs does, and the code then looks at the first message only.       *)
(***************************************************************************)
EXTENDS Integers, Sequences, FiniteSets, Functions

CONSTANTS
  Tarea,      \* the tasks of the plan: one (block, node) pair per block
  Archivo,    \* the files the Job asked for
  ArchivoDe,  \* the file each task's block belongs to
  Combiner,   \* tieneCombiner of the files of this Job
  Pausa,      \* the sleeps of both programs outlast what the other end does
  MaxFallas,  \* bound on node errors, disconnections, refused connections
              \* and the end of MaRTA
  MaxHilos,   \* bound on the AtiendeCliente threads the Job creates
  Nada        \* no task

ASSUME TareaAssumption ==
  /\ IsFiniteSet(Tarea)
  /\ Nada \notin Tarea
  /\ ArchivoDe \in [Tarea -> Archivo]
  /\ Combiner \in BOOLEAN
  /\ Pausa \in BOOLEAN
  /\ MaxFallas \in Nat
  /\ MaxHilos \in Nat
  /\ IsFiniteSet(Archivo) /\ Archivo # {}

VARIABLES
  marta,         \* what MaRTA's thread for this Job is doing
  jobEnviado,    \* estado of the task in lista_job_enviado, -1: removed
  estadoCopia,   \* estado of the task's copy in t_bloque.array
  contTareas,    \* contTareas of each file
  parcialReduce, \* resultadoParcialReduce of the task is not NULL
  archivos,      \* the files in lista_archivos
  vivo,          \* the Job process has not aborted
  pendiente,     \* the task message main() holds before sem_wait(&semaforoNodo)
  buffer,        \* el_job->buffer, shared by main() and the threads it creates
  semaforoMarta, \* the Job may write to MaRTA
  semCantLista,  \* results queued in lista_RMarta
  semaforoNodo,  \* guards el_job->buffer, and the handshake with a node
  listaRMarta,   \* lista_RMarta: the tasks whose result waits to be sent
  envio,         \* where envioAMarta is
  hilos,         \* threads created so far
  hilo,          \* where each AtiendeCliente thread is
  leido,         \* the message each thread copied from el_job->buffer
  aMarta,        \* the socket from the Job to MaRTA
  aJob,          \* the socket from MaRTA to the Job
  mapHecho,      \* tasks whose map ran on their node
  reduceHecho,   \* tasks whose local reduce ran on their node
  totalHecho,    \* the total reduce ran
  totales,       \* history: total reduces MaRTA asked for
  fallas         \* failures so far

martaVars == <<marta, jobEnviado, estadoCopia, contTareas, parcialReduce,
               archivos, totales>>
colaVars  == <<semCantLista, listaRMarta, envio>>
hiloVars  == <<hilos, hilo, leido>>
nodoVars  == <<mapHecho, reduceHecho, totalHecho>>
vars == <<martaVars, colaVars, hiloVars, nodoVars, vivo, pendiente, buffer,
          semaforoMarta, semaforoNodo, aMarta, aJob, fallas>>

Hilo == 1..MaxHilos

Mensaje(tipo, t) == [tipo |-> tipo, tarea |-> t]
Vacio   == Mensaje("vacio", Nada)    \* no message, an uninitialised buffer
Credito == Mensaje("credito", Nada)  \* the "+" and the "*"
Total   == Mensaje("total", Nada)    \* "43": the total reduce

DeTarea(m) == m.tipo \in {"map", "reduce", "total"}

MensajesAJob == [tipo : {"map", "reduce"}, tarea : Tarea] \cup {Credito, Total}
MensajesAMarta == [tipo : {"ok", "error"}, tarea : Tarea]
                    \cup {Mensaje("error", Nada), Mensaje("uno", Nada), Mensaje("fin", Nada)}

-----------------------------------------------------------------------------

(* What a recv leaves in the channel after taking its first k messages. *)
Resto(canal, k) == SubSeq(canal, k + 1, Len(canal))

(* The bloques of the files still listed: contador_tareas of reciboOk. *)
Bloques(S) == {t \in Tarea : ArchivoDe[t] \in S}

(* The Job has read what MaRTA wrote and every thread it created has       *)
(* copied its message.                                                     *)
JobTranquilo ==
  /\ aJob = <<>>
  /\ pendiente = Vacio
  /\ \A h \in Hilo : hilo[h] # "nace"

(* Mistake: no sleep. *)
NoDuerme == TRUE

(* sleep(1) between two writes of MaRTA, sleep(3) or sleep(1) of a thread  *)
(* of the Job that sent an error: the other end took what was written.     *)
MartaDuerme == Pausa => JobTranquilo
HiloDuerme == Pausa => aMarta = <<>>

(* Mistakes: a wait or a post that is missing. *)
NoTomaMarta == UNCHANGED semaforoMarta
NoTomaLista == UNCHANGED semCantLista
NoTomaNodo == UNCHANGED semaforoNodo
NoSueltaNodo == UNCHANGED semaforoNodo

(* The waits and posts that leave a semaphore changed between two steps.   *)
TomaMarta == semaforoMarta > 0 /\ semaforoMarta' = semaforoMarta - 1
TomaLista == semCantLista > 0 /\ semCantLista' = semCantLista - 1
TomaNodo == semaforoNodo > 0 /\ semaforoNodo' = semaforoNodo - 1
SueltaNodo == semaforoNodo' = semaforoNodo + 1

Init ==
  /\ marta = "planifica"
  /\ jobEnviado = [t \in Tarea |-> 0]
  /\ estadoCopia = [t \in Tarea |-> 0]
  /\ contTareas = [a \in Archivo |-> 0]
  /\ parcialReduce = {}
  /\ archivos = Archivo
  /\ vivo = TRUE
  /\ pendiente = Vacio
  /\ buffer = Vacio
  /\ semaforoMarta = 0
  /\ semCantLista = 0
  /\ semaforoNodo = 1
  /\ listaRMarta = <<>>
  /\ envio = "marta"
  /\ hilos = 0
  /\ hilo = [h \in Hilo |-> "no"]
  /\ leido = [h \in Hilo |-> Vacio]
  /\ aMarta = <<>>
  /\ aJob = <<>>
  /\ mapHecho = {}
  /\ reduceHecho = {}
  /\ totalHecho = FALSE
  /\ totales = 0
  /\ fallas = 0

-----------------------------------------------------------------------------
(* MaRTA: enviarPlanificacionAJob *)

(* One entry of lista_job_enviado goes out as "41..." and the thread sleeps. *)
MartaEnviaMap(t) ==
  /\ marta = "planifica"
  /\ jobEnviado[t] = 0
  /\ MartaDuerme
  /\ jobEnviado' = [jobEnviado EXCEPT ![t] = 1]
  /\ aJob' = Append(aJob, Mensaje("map", t))
  /\ UNCHANGED <<marta, estadoCopia, contTareas, parcialReduce, archivos, totales,
                 colaVars, hiloVars, nodoVars, vivo, pendiente, buffer,
                 semaforoMarta, semaforoNodo, aMarta, fallas>>

(* The whole plan is out: "+" gives the Job its first credit. *)
MartaEnviaMas ==
  /\ marta = "planifica"
  /\ \A t \in Tarea : jobEnviado[t] # 0
  /\ MartaDuerme
  /\ marta' = "recibe"
  /\ aJob' = Append(aJob, Credito)
  /\ UNCHANGED <<jobEnviado, estadoCopia, contTareas, parcialReduce, archivos, totales,
                 colaVars, hiloVars, nodoVars, vivo, pendiente, buffer,
                 semaforoMarta, semaforoNodo, aMarta, fallas>>

-----------------------------------------------------------------------------
(* MaRTA: the handlers of what the Job sends *)

(* The local variable estado of reciboOk, set by buscarNodoYBloque: 1 for  *)
(* the first OK of a copy, 2 for the second, 0 when there is nothing left. *)
EstadoOk(t) == CASE estadoCopia[t] = 0 -> 1
                 [] estadoCopia[t] = 1 -> 2
                 [] OTHER -> 0

(* Mistake: with combiner every OK counts, the one of a map too. *)
ContadasSinMirar(a, estado) == [contTareas EXCEPT ![a] = @ + 1]

(* contTareas after this OK: the reduce branch adds one, and so does every *)
(* OK of a Job without combiner.                                           *)
Contadas(a, estado) ==
  [contTareas EXCEPT ![a] = @ + (IF estado = 2 THEN 1 ELSE 0)
                              + (IF Combiner THEN 0 ELSE 1)]

(* Mistake: the total reduce goes out one task early. *)
CompletoAntes(cont) ==
  SumFunctionOnSet(cont, archivos) = Cardinality(Bloques(archivos)) - 1

(* contador_tareas_actual==contador_tareas, both over the files of the Job. *)
Completo(cont) ==
  SumFunctionOnSet(cont, archivos) = Cardinality(Bloques(archivos))

(* job_enviado_create does strdup(resultadoParcialReduce) for every entry. *)
FaltaParcial ==
  Combiner /\ \E t \in Tarea : jobEnviado[t] # -1 /\ t \notin parcialReduce

(* "if(estado==1 && contTareas<list_size(listaBloques))" and the search of *)
(* the entry with estado 1, read after the total reduce cleared contTareas. *)
PideReduce(t, estado, cont) ==
  /\ Combiner
  /\ estado = 1
  /\ cont[ArchivoDe[t]] < Cardinality(Bloques({ArchivoDe[t]}))
  /\ jobEnviado[t] = 1

(* reciboOk for a copy that is in lista_archivos. *)
ReciboOk(t) ==
  LET estado   == EstadoOk(t)
      cont     == Contadas(ArchivoDe[t], estado)
      completo == Completo(cont)
      queda    == IF completo THEN [cont EXCEPT ![ArchivoDe[t]] = 0] ELSE cont
      pide     == PideReduce(t, estado, queda)
  IN  /\ contTareas' = queda
      /\ estadoCopia' = [estadoCopia EXCEPT ![t] = IF estado = 0 THEN @ ELSE estado]
      /\ IF completo /\ FaltaParcial
         THEN /\ marta' = "caida"
              /\ UNCHANGED <<aJob, jobEnviado, parcialReduce, totales>>
         ELSE /\ totales' = IF completo THEN totales + 1 ELSE totales
              /\ marta' = IF estado = 0 THEN "recibe" ELSE "credito"
              /\ aJob' = aJob \o (IF completo THEN <<Total>> ELSE <<>>)
                              \o (IF pide THEN <<Mensaje("reduce", t)>> ELSE <<>>)
              /\ jobEnviado' = [jobEnviado EXCEPT ![t] = IF pide THEN 2 ELSE @]
              /\ parcialReduce' = IF pide THEN parcialReduce \cup {t} ELSE parcialReduce
      /\ UNCHANGED archivos

(* reducesOk: eliminarJobEnviados drops the entries of the file that       *)
(* buscarPorNombre found, borrarTodo drops every file of this Job; with no *)
(* file left el_archivo is NULL and the thread dereferences it.            *)
ReducesOk ==
  /\ IF archivos = {}
     THEN /\ marta' = "caida"
          /\ UNCHANGED <<jobEnviado, archivos>>
     ELSE \E a \in archivos :
            /\ jobEnviado' = [t \in Tarea |-> IF ArchivoDe[t] = a THEN -1 ELSE jobEnviado[t]]
            /\ archivos' = {}
            /\ UNCHANGED marta
  /\ UNCHANGED <<estadoCopia, contTareas, parcialReduce, totales, aJob>>

(* reciboError only prints; the first burst "2<digits><length>" is taken   *)
(* for such a message; an OK with no file listed finds no block.           *)
SinEfecto ==
  UNCHANGED <<marta, jobEnviado, estadoCopia, contTareas, parcialReduce, archivos,
              totales, aJob>>

(* One recv of at most 500 bytes: the first message is handled and what    *)
(* came with it is lost.                                                   *)
MartaRecibe ==
  /\ marta = "recibe"
  /\ \E k \in 1..Len(aMarta) : aMarta' = Resto(aMarta, k)
  /\ CASE aMarta[1].tipo = "ok" /\ archivos # {} -> ReciboOk(aMarta[1].tarea)
       [] aMarta[1].tipo = "fin" -> ReducesOk
       [] OTHER -> SinEfecto
  /\ UNCHANGED <<colaVars, hiloVars, nodoVars, vivo, pendiente, buffer,
                 semaforoMarta, semaforoNodo, fallas>>

(* The end of reciboOk: sleep(1) and "*". *)
MartaCredito ==
  /\ marta = "credito"
  /\ MartaDuerme
  /\ marta' = "recibe"
  /\ aJob' = Append(aJob, Credito)
  /\ UNCHANGED <<jobEnviado, estadoCopia, contTareas, parcialReduce, archivos, totales,
                 colaVars, hiloVars, nodoVars, vivo, pendiente, buffer,
                 semaforoMarta, semaforoNodo, aMarta, fallas>>

(* The Job is gone: recv returns 0 and the thread ends, or a send to the   *)
(* closed socket raises SIGPIPE, which nothing handles.                    *)
MartaPierdeJob ==
  /\ ~vivo
  /\ \/ /\ marta = "recibe"
        /\ aMarta = <<>>
        /\ marta' = "fin"
     \/ /\ marta \in {"planifica", "credito"}
        /\ marta' = "caida"
  /\ UNCHANGED <<jobEnviado, estadoCopia, contTareas, parcialReduce, archivos, totales,
                 colaVars, hiloVars, nodoVars, vivo, pendiente, buffer,
                 semaforoMarta, semaforoNodo, aMarta, aJob, fallas>>

(* MaRTA serves many Jobs in one process: another Job's thread, or the     *)
(* machine, ends it.                                                       *)
MartaMuere ==
  /\ marta \notin {"caida", "muerta"}
  /\ fallas < MaxFallas
  /\ fallas' = fallas + 1
  /\ marta' = "muerta"
  /\ UNCHANGED <<jobEnviado, estadoCopia, contTareas, parcialReduce, archivos, totales,
                 colaVars, hiloVars, nodoVars, vivo, pendiente, buffer,
                 semaforoMarta, semaforoNodo, aMarta, aJob>>

-----------------------------------------------------------------------------
(* Job: main() *)

(* One recv: a "+" or "*" anywhere in it posts semaforoMarta once, and the *)
(* second byte of the buffer selects the task message to hand over.        *)
JobRecibe ==
  /\ vivo
  /\ pendiente = Vacio
  /\ \E k \in 1..Len(aJob) :
       /\ aJob' = Resto(aJob, k)
       /\ semaforoMarta' = semaforoMarta
                             + (IF \E i \in 1..k : aJob[i] = Credito THEN 1 ELSE 0)
       /\ pendiente' = IF DeTarea(aJob[1]) THEN aJob[1] ELSE Vacio
  /\ UNCHANGED <<martaVars, colaVars, hiloVars, nodoVars, vivo, buffer,
                 semaforoNodo, aMarta, fallas>>

(* MaRTA is gone: recv returns 0 and main() returns, or envioAMarta sends  *)
(* to the closed socket; either way the whole process ends.                *)
JobPierdeMarta ==
  /\ vivo
  /\ marta \in {"caida", "muerta"}
  /\ \/ pendiente = Vacio /\ aJob = <<>>
     \/ envio = "aux" /\ listaRMarta # <<>>
  /\ vivo' = FALSE
  /\ UNCHANGED <<martaVars, colaVars, hiloVars, nodoVars, pendiente, buffer,
                 semaforoMarta, semaforoNodo, aMarta, aJob, fallas>>

(* Under semaforoNodo the message goes to el_job->buffer; the thread that  *)
(* will read it is created after the post.                                 *)
JobDespacha ==
  /\ vivo
  /\ pendiente # Vacio
  /\ semaforoNodo > 0
  /\ hilos < MaxHilos
  /\ buffer' = pendiente
  /\ pendiente' = Vacio
  /\ hilos' = hilos + 1
  /\ hilo' = [hilo EXCEPT ![hilos + 1] = "nace"]
  /\ UNCHANGED <<martaVars, colaVars, nodoVars, leido, vivo, semaforoMarta,
                 semaforoNodo, aMarta, aJob, fallas>>

-----------------------------------------------------------------------------
(* Job: envioAMarta *)

EnvioEsperaMarta ==
  /\ vivo
  /\ envio = "marta"
  /\ TomaMarta
  /\ envio' = "lista"
  /\ UNCHANGED <<martaVars, hiloVars, nodoVars, semCantLista, listaRMarta, vivo,
                 pendiente, buffer, semaforoNodo, aMarta, aJob, fallas>>

EnvioEsperaLista ==
  /\ vivo
  /\ envio = "lista"
  /\ TomaLista
  /\ envio' = "aux"
  /\ UNCHANGED <<martaVars, hiloVars, nodoVars, semaforoMarta, listaRMarta, vivo,
                 pendiente, buffer, semaforoNodo, aMarta, aJob, fallas>>

(* The section under semAux: abort() when list_get returns NULL, else "23" *)
(* goes out, the head of the list is removed and the thread starts over.   *)
EnvioManda ==
  /\ vivo
  /\ envio = "aux"
  /\ IF listaRMarta = <<>>
     THEN /\ vivo' = FALSE
          /\ UNCHANGED <<aMarta, listaRMarta, envio>>
     ELSE /\ aMarta' = Append(aMarta, Mensaje("ok", Head(listaRMarta)))
          /\ listaRMarta' = Tail(listaRMarta)
          /\ envio' = "marta"
          /\ UNCHANGED vivo
  /\ UNCHANGED <<martaVars, hiloVars, nodoVars, semaforoMarta, semCantLista,
                 pendiente, buffer, semaforoNodo, aJob, fallas>>

-----------------------------------------------------------------------------
(* Job: AtiendeCliente, one thread per task *)

Va(h, de, a) ==
  /\ vivo
  /\ hilo[h] = de
  /\ hilo' = [hilo EXCEPT ![h] = a]

(* The thread copies el_job->buffer, whatever it holds by now. *)
HiloCopia(h) ==
  /\ Va(h, "nace", "conecta")
  /\ semaforoNodo > 0
  /\ leido' = [leido EXCEPT ![h] = buffer]
  /\ UNCHANGED <<martaVars, colaVars, nodoVars, hilos, vivo, pendiente, buffer,
                 semaforoMarta, semaforoNodo, aMarta, aJob, fallas>>

(* conectarNodo fails: the error is sent without a credit, and after a     *)
(* sleep(1) the whole Job aborts.                                          *)
HiloNoConecta(h) ==
  /\ Va(h, "conecta", "aborta")
  /\ fallas < MaxFallas
  /\ fallas' = fallas + 1
  /\ aMarta' = aMarta \o <<Mensaje("uno", Nada), Mensaje("error", leido[h].tarea)>>
  /\ UNCHANGED <<martaVars, colaVars, nodoVars, hilos, leido, vivo, pendiente, buffer,
                 semaforoMarta, semaforoNodo, aJob>>

HiloAborta(h) ==
  /\ vivo
  /\ hilo[h] = "aborta"
  /\ HiloDuerme
  /\ vivo' = FALSE
  /\ UNCHANGED <<martaVars, colaVars, hiloVars, nodoVars, pendiente, buffer,
                 semaforoMarta, semaforoNodo, aMarta, aJob, fallas>>

(* Connected: the first burst, the node's "Ok" and the second burst all    *)
(* happen with semaforoNodo held.                                          *)
HiloSaluda(h) ==
  /\ Va(h, "conecta", "saluda")
  /\ TomaNodo
  /\ UNCHANGED <<martaVars, colaVars, nodoVars, hilos, leido, vivo, pendiente, buffer,
                 semaforoMarta, aMarta, aJob, fallas>>

HiloEntrega(h) ==
  /\ Va(h, "saluda", "espera")
  /\ SueltaNodo
  /\ UNCHANGED <<martaVars, colaVars, nodoVars, hilos, leido, vivo, pendiente, buffer,
                 semaforoMarta, aMarta, aJob, fallas>>

(* The node runs the script and answers "31". *)
NodoTermina(h) ==
  /\ Va(h, "espera", "hecho")
  /\ mapHecho' = IF leido[h].tipo = "map" THEN mapHecho \cup {leido[h].tarea} ELSE mapHecho
  /\ reduceHecho' = IF leido[h].tipo = "reduce" THEN reduceHecho \cup {leido[h].tarea}
                                               ELSE reduceHecho
  /\ totalHecho' = (totalHecho \/ leido[h].tipo = "total")
  /\ UNCHANGED <<martaVars, colaVars, hilos, leido, vivo, pendiente, buffer,
                 semaforoMarta, semaforoNodo, aMarta, aJob, fallas>>

(* The node answers "30", or its connection closes and recv returns 0: the *)
(* thread then ends without telling anyone.                                *)
NodoFalla(h) ==
  /\ Va(h, "espera", "error") \/ Va(h, "espera", "fin")
  /\ fallas < MaxFallas
  /\ fallas' = fallas + 1
  /\ UNCHANGED <<martaVars, colaVars, nodoVars, hilos, leido, vivo, pendiente, buffer,
                 semaforoMarta, semaforoNodo, aMarta, aJob>>

(* Mistake: the result is named after el_job, which main() has reused. *)
TareaCompartida(h) == buffer.tarea

(* The block and node that the thread's own copy of the message names.     *)
SuTarea(h) == leido[h].tarea

(* "31" of a map or a local reduce: the result is queued under semAux. *)
HiloEncola(h) ==
  /\ Va(h, "hecho", "fin")
  /\ leido[h].tipo \in {"map", "reduce"}
  /\ listaRMarta' = Append(listaRMarta, SuTarea(h))
  /\ semCantLista' = semCantLista + 1
  /\ UNCHANGED <<martaVars, nodoVars, envio, hilos, leido, vivo, pendiente, buffer,
                 semaforoMarta, semaforoNodo, aMarta, aJob, fallas>>

(* "31" of the total reduce: with the credit in hand both bursts go out,   *)
(* the second one being "24", and the credit is given back.                *)
HiloAvisaFin(h) ==
  /\ Va(h, "hecho", "fin")
  /\ leido[h].tipo = "total"
  /\ semaforoMarta > 0
  /\ aMarta' = aMarta \o <<Mensaje("uno", Nada), Mensaje("fin", Nada)>>
  /\ UNCHANGED <<martaVars, colaVars, nodoVars, hilos, leido, vivo, pendiente, buffer,
                 semaforoMarta, semaforoNodo, aJob, fallas>>

(* "30": the error is sent with the credit held over a sleep(3).  For the  *)
(* total reduce el_job->bloque was never set: what goes out names no block, *)
(* or reading the pointer kills the Job.                                   *)
HiloAvisaError(h) ==
  /\ Va(h, "error", "retiene")
  /\ TomaMarta
  /\ \/ /\ aMarta' = Append(aMarta, Mensaje("error", leido[h].tarea))
        /\ UNCHANGED vivo
     \/ /\ leido[h].tipo = "total"
        /\ vivo' = FALSE
        /\ UNCHANGED aMarta
  /\ UNCHANGED <<martaVars, colaVars, nodoVars, hilos, leido, pendiente, buffer,
                 semaforoNodo, aJob, fallas>>

HiloDevuelve(h) ==
  /\ Va(h, "retiene", "fin")
  /\ HiloDuerme
  /\ semaforoMarta' = semaforoMarta + 1
  /\ UNCHANGED <<martaVars, colaVars, nodoVars, hilos, leido, vivo, pendiente, buffer,
                 semaforoNodo, aMarta, aJob, fallas>>

-----------------------------------------------------------------------------

(* What MaRTA's thread, the Job's main() and envioAMarta do, and what each *)
(* thread and its node do when nothing fails.                              *)
MartaPaso == (\E t \in Tarea : MartaEnviaMap(t)) \/ MartaEnviaMas \/ MartaRecibe \/ MartaCredito
EnvioPaso == EnvioEsperaMarta \/ EnvioEsperaLista \/ EnvioManda
HiloPaso(h) == \/ HiloCopia(h) \/ HiloSaluda(h) \/ HiloEntrega(h) \/ NodoTermina(h)
               \/ HiloEncola(h) \/ HiloAvisaFin(h) \/ HiloAvisaError(h) \/ HiloDevuelve(h)
               \/ HiloAborta(h)

Next ==
  \/ MartaPaso
  \/ MartaPierdeJob
  \/ MartaMuere
  \/ JobRecibe
  \/ JobPierdeMarta
  \/ JobDespacha
  \/ EnvioPaso
  \/ \E h \in Hilo : HiloPaso(h) \/ HiloNoConecta(h) \/ NodoFalla(h)

Spec == Init /\ [][Next]_vars

(* Every thread of both programs is scheduled; failures need not happen.   *)
(* A thread waiting on semaforoMarta may find it taken again and again, so *)
(* that wait gets strong fairness: sem_wait wakes some waiter at each post. *)
Justicia ==
  /\ WF_vars(MartaPaso)
  /\ WF_vars(JobRecibe)
  /\ WF_vars(JobDespacha)
  /\ WF_vars(EnvioPaso)
  /\ \A h \in Hilo : /\ WF_vars(HiloPaso(h))
                     /\ SF_vars(HiloAvisaFin(h))
                     /\ SF_vars(HiloAvisaError(h))

FairSpec == Spec /\ Justicia

-----------------------------------------------------------------------------

(* The types of the state.                                                 *)
TypeOK ==
  /\ marta \in {"planifica", "recibe", "credito", "fin", "caida", "muerta"}
  /\ jobEnviado \in [Tarea -> -1..2]
  /\ estadoCopia \in [Tarea -> 0..2]
  /\ contTareas \in [Archivo -> Nat]
  /\ parcialReduce \subseteq Tarea
  /\ archivos \subseteq Archivo
  /\ vivo \in BOOLEAN
  /\ pendiente \in MensajesAJob \cup {Vacio}
  /\ buffer \in MensajesAJob \cup {Vacio}
  /\ semaforoMarta \in Nat
  /\ semCantLista \in Nat
  /\ semaforoNodo \in 0..1
  /\ listaRMarta \in Seq(Tarea)
  /\ envio \in {"marta", "lista", "aux"}
  /\ hilos \in 0..MaxHilos
  /\ hilo \in [Hilo -> {"no", "nace", "conecta", "saluda", "espera", "hecho",
                       "error", "retiene", "aborta", "fin"}]
  /\ leido \in [Hilo -> MensajesAJob \cup {Vacio}]
  /\ aMarta \in Seq(MensajesAMarta)
  /\ aJob \in Seq(MensajesAJob)
  /\ mapHecho \subseteq Tarea
  /\ reduceHecho \subseteq Tarea
  /\ totalHecho \in BOOLEAN
  /\ totales \in Nat
  /\ fallas \in 0..MaxFallas

(* Where the right to write to MaRTA is: not granted yet or being granted  *)
(* by MaRTA, on its way, in semaforoMarta, held by envioAMarta, held by a  *)
(* thread reporting an error, or spent on an OK MaRTA has not answered.    *)
Ubicaciones ==
  (IF marta \in {"planifica", "credito"} THEN {<<"marta", 0>>} ELSE {})
    \cup {<<"aJob", i>> : i \in {j \in DOMAIN aJob : aJob[j] = Credito}}
    \cup {<<"semaforo", i>> : i \in 1..semaforoMarta}
    \cup (IF envio # "marta" THEN {<<"envio", 0>>} ELSE {})
    \cup {<<"hilo", h>> : h \in {g \in Hilo : hilo[g] = "retiene"}}
    \cup {<<"aMarta", i>> : i \in {j \in DOMAIN aMarta : aMarta[j].tipo = "ok"}}

(* The window of the protocol is one: there is never more than one right   *)
(* to write to MaRTA, counting the OK that it has still to answer.         *)
CreditoUnico == \A x, y \in Ubicaciones : x = y

(* While both programs go on the right to write is never lost.             *)
CreditoNoSePierde ==
  vivo /\ marta \notin {"caida", "muerta"} /\ (\A h \in Hilo : hilo[h] # "aborta")
    => Ubicaciones # {}

(* semCantLista counts the results in lista_RMarta, so envioAMarta never   *)
(* finds the list empty and never takes its abort().                       *)
ColaContada ==
  semCantLista + (IF envio = "aux" THEN 1 ELSE 0) = Len(listaRMarta)

(* MaRTA believes a task mapped, or reduced by the combiner, only when the *)
(* node really ran it.                                                     *)
EstadoReal ==
  /\ \A t \in Tarea : estadoCopia[t] >= 1 => t \in mapHecho
  /\ Combiner => \A t \in Tarea : estadoCopia[t] = 2 => t \in reduceHecho

(* The map side of EstadoReal, which needs no assumption on time.          *)
MapReal == \A t \in Tarea : estadoCopia[t] >= 1 => t \in mapHecho

(* MaRTA asks for the total reduce only when every block was mapped and,   *)
(* with combiner, reduced on its node.                                     *)
TotalTrasTodo ==
  totales > 0 => mapHecho = Tarea /\ (Combiner => reduceHecho = Tarea)

(* No two threads of the Job work on the same message.                     *)
CadaTareaUnaVez ==
  \A h, g \in Hilo : h # g /\ leido[h] = leido[g] => leido[h] = Vacio

(* Nothing this Job does while it runs ends MaRTA's process.               *)
MartaNoCae == vivo => marta # "caida"

(* The Job, MaRTA and the nodes together keep the promise of MapReduce.    *)
Promesa == INSTANCE MapReduce WITH
  mapeadas  <- mapHecho,
  reducidas <- reduceHecho,
  total     <- CASE archivos = {} -> "cerrado"
                 [] archivos # {} /\ totalHecho -> "hecho"
                 [] archivos # {} /\ ~totalHecho /\ totales > 0 -> "pedido"
                 [] OTHER -> "no"

(* Every step of the three programs is a step of MapReduce or changes      *)
(* nothing in it.                                                          *)
CumplePromesa == Promesa!Spec

(* If nothing fails the Job reaches its total reduce.                      *)
TotalLlega == <>(fallas > 0 \/ (totales > 0 /\ totalHecho))

(* A result a node answered with "31" is sent on to MaRTA.                 *)
ResultadoAvisado == \A h \in Hilo : hilo[h] = "hecho" ~> hilo[h] = "fin"
=============================================================================
