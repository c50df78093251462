--------------------------- MODULE JobMarta_proofs ---------------------------
(***************************************************************************)
(* Proofs about JobMarta for any number of tasks, files and threads, with  *)
(* or without combiner and whatever the speed of the processes.            *)
(***************************************************************************)
EXTENDS JobMarta, Secuencias_proofs

(* What is left of a channel after a recv keeps its type, and its elements *)
(* are the ones k places further in the channel.                           *)
LEMMA RestoProps ==
  ASSUME NEW S, NEW canal \in Seq(S), NEW k \in 1..Len(canal)
  PROVE  /\ Resto(canal, k) \in Seq(S)
         /\ Len(Resto(canal, k)) = Len(canal) - k
         /\ \A i \in 1..Len(Resto(canal, k)) : /\ i + k \in 1..Len(canal)
                                               /\ Resto(canal, k)[i] = canal[i + k]
<1>1. \A i \in (k + 1)..Len(canal) : canal[i] \in S
  OBVIOUS
<1>2. /\ SubSeq(canal, k + 1, Len(canal)) \in Seq(S)
      /\ Len(SubSeq(canal, k + 1, Len(canal)))
           = IF k + 1 <= Len(canal) THEN Len(canal) - (k + 1) + 1 ELSE 0
      /\ \A i \in 1..(Len(canal) - (k + 1) + 1) :
           SubSeq(canal, k + 1, Len(canal))[i] = canal[k + 1 + i - 1]
  BY <1>1, SubSeqProperties
<1>. QED
  BY <1>2 DEF Resto

(* A queue of elements of a set is a queue of elements of a larger one.    *)
LEMMA SeqCrece ==
  ASSUME NEW S, NEW P, S \subseteq P, NEW cola \in Seq(S)
  PROVE  cola \in Seq(P)
<1>1. cola \in [1..Len(cola) -> P]
  OBVIOUS
<1>. QED
  BY <1>1

(* The messages have the types of the channels.                            *)
LEMMA Mensajes ==
  /\ Credito \in MensajesAJob
  /\ Total \in MensajesAJob
  /\ \A t \in Tarea : /\ Mensaje("map", t) \in MensajesAJob
                      /\ Mensaje("reduce", t) \in MensajesAJob
                      /\ Mensaje("ok", t) \in MensajesAMarta
                      /\ Mensaje("error", t) \in MensajesAMarta
  /\ Mensaje("error", Nada) \in MensajesAMarta
  /\ Mensaje("uno", Nada) \in MensajesAMarta
  /\ Mensaje("fin", Nada) \in MensajesAMarta
  /\ \A m \in MensajesAMarta : m.tipo = "ok" => m.tarea \in Tarea
  /\ \A m \in MensajesAJob \cup {Vacio} :
       /\ m.tipo \in {"map", "reduce"} => m.tarea \in Tarea
       /\ Mensaje("error", m.tarea) \in MensajesAMarta
BY DEF MensajesAJob, MensajesAMarta, Mensaje, Credito, Total, Vacio

(* At most one thread is inside the handshake that semaforoNodo guards.    *)
Cerrojo ==
  \A h \in Hilo : hilo[h] = "saluda" =>
    /\ semaforoNodo = 0
    /\ \A g \in Hilo : hilo[g] = "saluda" => g = h

TypeInv == TypeOK /\ Cerrojo

LEMMA TypeInit == Init => TypeInv
<1>. SUFFICES ASSUME Init
              PROVE  TypeInv
  OBVIOUS
<1>1. /\ listaRMarta \in Seq(Tarea)
      /\ aMarta \in Seq(MensajesAMarta)
      /\ aJob \in Seq(MensajesAJob)
  BY DEF Init
<1>2. /\ hilo \in [Hilo -> {"no", "nace", "conecta", "saluda", "espera", "hecho",
                            "error", "retiene", "aborta", "fin"}]
      /\ leido \in [Hilo -> MensajesAJob \cup {Vacio}]
      /\ Cerrojo
  BY DEF Init, Cerrojo
<1>3. vivo \in BOOLEAN /\ totalHecho \in BOOLEAN
  BY DEF Init
<1>. QED
  BY <1>1, <1>2, <1>3, TareaAssumption DEF Init, TypeInv, TypeOK

LEMMA TypeStep == TypeInv /\ [Next]_vars => TypeInv'
<1>. SUFFICES ASSUME TypeInv, [Next]_vars
              PROVE  TypeInv'
  OBVIOUS
<1>. USE TareaAssumption DEF TypeInv, TypeOK, Cerrojo, Hilo
<1>1. ASSUME NEW t \in Tarea, MartaEnviaMap(t)
      PROVE  TypeInv'
  BY <1>1, Mensajes DEF MartaEnviaMap, colaVars, hiloVars, nodoVars
<1>2. CASE MartaEnviaMas
  BY <1>2, Mensajes DEF MartaEnviaMas, colaVars, hiloVars, nodoVars
<1>3. CASE MartaRecibe
  <2>1. aMarta # <<>> /\ aMarta' \in Seq(MensajesAMarta)
    BY <1>3, RestoProps DEF MartaRecibe
  <2>2. aMarta[1] \in MensajesAMarta
    BY <2>1
  <2>. DEFINE Tipos ==
        /\ marta' \in {"planifica", "recibe", "credito", "fin", "caida", "muerta"}
        /\ jobEnviado' \in [Tarea -> -1..2]
        /\ estadoCopia' \in [Tarea -> 0..2]
        /\ contTareas' \in [Archivo -> Nat]
        /\ parcialReduce' \subseteq Tarea
        /\ archivos' \subseteq Archivo
        /\ aJob' \in Seq(MensajesAJob)
        /\ totales' \in Nat
  <2>3. Tipos
    <3>1. ASSUME NEW t \in Tarea, ReciboOk(t)
          PROVE  Tipos
      <4>. DEFINE estado   == EstadoOk(t)
                  cont     == Contadas(ArchivoDe[t], estado)
                  completo == Completo(cont)
                  queda    == IF completo THEN [cont EXCEPT ![ArchivoDe[t]] = 0] ELSE cont
                  pide     == PideReduce(t, estado, queda)
      <4>1. estado \in 0..2
        BY DEF EstadoOk
      <4>2. cont \in [Archivo -> Nat]
        BY <4>1 DEF Contadas
      <4>3. queda \in [Archivo -> Nat]
        BY <4>2
      <4>4. /\ contTareas' = queda
            /\ estadoCopia' = [estadoCopia EXCEPT ![t] = IF estado = 0 THEN @ ELSE estado]
            /\ archivos' = archivos
        BY <3>1 DEF ReciboOk
      <4>5. CASE completo /\ FaltaParcial
        <5>1. marta' = "caida" /\ UNCHANGED <<aJob, jobEnviado, parcialReduce, totales>>
          BY <3>1, <4>5 DEF ReciboOk
        <5>. HIDE DEF estado, queda
        <5>. QED
          BY <4>1, <4>3, <4>4, <5>1
      <4>6. CASE ~(completo /\ FaltaParcial)
        <5>1. /\ totales' = IF completo THEN totales + 1 ELSE totales
              /\ marta' = IF estado = 0 THEN "recibe" ELSE "credito"
              /\ aJob' = aJob \o (IF completo THEN <<Total>> ELSE <<>>)
                              \o (IF pide THEN <<Mensaje("reduce", t)>> ELSE <<>>)
              /\ jobEnviado' = [jobEnviado EXCEPT ![t] = IF pide THEN 2 ELSE @]
              /\ parcialReduce' = IF pide THEN parcialReduce \cup {t} ELSE parcialReduce
          BY <3>1, <4>6 DEF ReciboOk
        <5>. HIDE DEF estado, cont, completo, queda, pide
        <5>2. /\ (IF completo THEN <<Total>> ELSE <<>>) \in Seq(MensajesAJob)
              /\ (IF pide THEN <<Mensaje("reduce", t)>> ELSE <<>>) \in Seq(MensajesAJob)
          BY Mensajes
        <5>3. aJob' \in Seq(MensajesAJob)
          BY <5>1, <5>2
        <5>. QED
          BY <4>1, <4>3, <4>4, <5>1, <5>3
      <4>. QED
        BY <4>5, <4>6
    <3>2. CASE ReducesOk
      BY <3>2 DEF ReducesOk
    <3>3. CASE SinEfecto
      BY <3>3 DEF SinEfecto
    <3>4. \/ \E t \in Tarea : ReciboOk(t)
          \/ ReducesOk
          \/ SinEfecto
      BY <1>3, <2>2, Mensajes DEF MartaRecibe
    <3>. QED
      BY <3>1, <3>2, <3>3, <3>4
  <2>. QED
    BY <1>3, <2>1, <2>3 DEF MartaRecibe, colaVars, hiloVars, nodoVars
<1>4. CASE MartaCredito
  BY <1>4, Mensajes DEF MartaCredito, colaVars, hiloVars, nodoVars
<1>5. CASE MartaPierdeJob
  BY <1>5 DEF MartaPierdeJob, colaVars, hiloVars, nodoVars
<1>6. CASE JobRecibe
  <2>. PICK k \in 1..Len(aJob) :
              /\ aJob' = Resto(aJob, k)
              /\ semaforoMarta' = semaforoMarta
                                    + (IF \E i \in 1..k : aJob[i] = Credito THEN 1 ELSE 0)
              /\ pendiente' = IF DeTarea(aJob[1]) THEN aJob[1] ELSE Vacio
    BY <1>6 DEF JobRecibe
  <2>1. aJob' \in Seq(MensajesAJob)
    BY RestoProps
  <2>. QED
    BY <1>6, <2>1, SMTT(30) DEF JobRecibe, martaVars, colaVars, hiloVars, nodoVars
<1>7. CASE JobPierdeMarta
  BY <1>7 DEF JobPierdeMarta, martaVars, colaVars, hiloVars, nodoVars
<1>8. CASE JobDespacha
  BY <1>8 DEF JobDespacha, martaVars, colaVars, nodoVars
<1>9. CASE EnvioEsperaMarta
  BY <1>9 DEF EnvioEsperaMarta, TomaMarta, martaVars, hiloVars, nodoVars
<1>10. CASE EnvioEsperaLista
  BY <1>10 DEF EnvioEsperaLista, TomaLista, martaVars, hiloVars, nodoVars
<1>11. CASE EnvioManda
  <2>1. listaRMarta # <<>> => /\ Head(listaRMarta) \in Tarea
                              /\ Tail(listaRMarta) \in Seq(Tarea)
    BY HeadTailProperties
  <2>2. CASE listaRMarta = <<>>
    BY <1>11, <2>2 DEF EnvioManda, martaVars, hiloVars, nodoVars
  <2>3. CASE listaRMarta # <<>>
    <3>1. /\ aMarta' = Append(aMarta, Mensaje("ok", Head(listaRMarta)))
          /\ listaRMarta' = Tail(listaRMarta)
          /\ envio' = "marta"
          /\ UNCHANGED vivo
      BY <1>11, <2>3 DEF EnvioManda
    <3>2. aMarta' \in Seq(MensajesAMarta)
      BY <2>1, <2>3, <3>1, Mensajes
    <3>. QED
      BY <1>11, <2>1, <2>3, <3>1, <3>2 DEF EnvioManda, martaVars, hiloVars, nodoVars
  <2>. QED
    BY <2>2, <2>3
<1>12. ASSUME NEW h \in Hilo, HiloCopia(h)
       PROVE  TypeInv'
  BY <1>12 DEF HiloCopia, Va, martaVars, colaVars, nodoVars
<1>13. ASSUME NEW h \in Hilo, HiloNoConecta(h)
       PROVE  TypeInv'
  <2>1. Mensaje("error", leido[h].tarea) \in MensajesAMarta
    BY Mensajes
  <2>2. aMarta' \in Seq(MensajesAMarta)
    BY <1>13, <2>1, Mensajes DEF HiloNoConecta
  <2>. QED
    BY <1>13, <2>2 DEF HiloNoConecta, Va, martaVars, colaVars, nodoVars
<1>14. ASSUME NEW h \in Hilo, HiloSaluda(h)
       PROVE  TypeInv'
  BY <1>14 DEF HiloSaluda, Va, TomaNodo, martaVars, colaVars, nodoVars
<1>15. ASSUME NEW h \in Hilo, HiloEntrega(h)
       PROVE  TypeInv'
  BY <1>15 DEF HiloEntrega, Va, SueltaNodo, martaVars, colaVars, nodoVars
<1>16. ASSUME NEW h \in Hilo, NodoTermina(h)
       PROVE  TypeInv'
  BY <1>16, Mensajes DEF NodoTermina, Va, martaVars, colaVars
<1>17. ASSUME NEW h \in Hilo, NodoFalla(h)
       PROVE  TypeInv'
  <2>1. hilo' \in [Hilo -> {"no", "nace", "conecta", "saluda", "espera", "hecho",
                            "error", "retiene", "aborta", "fin"}]
    BY <1>17 DEF NodoFalla, Va
  <2>2. Cerrojo'
    BY <1>17 DEF NodoFalla, Va
  <2>. QED
    BY <1>17, <2>1, <2>2 DEF NodoFalla, martaVars, colaVars, nodoVars
<1>18. ASSUME NEW h \in Hilo, HiloEncola(h)
       PROVE  TypeInv'
  <2>1. SuTarea(h) \in Tarea
    BY <1>18, Mensajes DEF HiloEncola, SuTarea
  <2>2. listaRMarta' \in Seq(Tarea)
    BY <1>18, <2>1, AppendProperties DEF HiloEncola
  <2>. QED
    BY <1>18, <2>2 DEF HiloEncola, Va, martaVars, nodoVars
<1>19. ASSUME NEW h \in Hilo, HiloAvisaFin(h)
       PROVE  TypeInv'
  BY <1>19, Mensajes DEF HiloAvisaFin, Va, martaVars, colaVars, nodoVars
<1>20. ASSUME NEW h \in Hilo, HiloAvisaError(h)
       PROVE  TypeInv'
  <2>1. Mensaje("error", leido[h].tarea) \in MensajesAMarta
    BY Mensajes
  <2>2. \/ aMarta' = Append(aMarta, Mensaje("error", leido[h].tarea))
        \/ UNCHANGED aMarta
    BY <1>20 DEF HiloAvisaError
  <2>3. aMarta' \in Seq(MensajesAMarta)
    <3>1. aMarta \in Seq(MensajesAMarta)
      OBVIOUS
    <3>2. Append(aMarta, Mensaje("error", leido[h].tarea)) \in Seq(MensajesAMarta)
      BY <2>1, <3>1, AppendProperties
    <3>. QED
      BY <2>2, <3>1, <3>2
  <2>4. vivo' \in BOOLEAN
    BY <1>20 DEF HiloAvisaError
  <2>. QED
    BY <1>20, <2>3, <2>4 DEF HiloAvisaError, Va, TomaMarta, martaVars, colaVars, nodoVars
<1>21. ASSUME NEW h \in Hilo, HiloDevuelve(h)
       PROVE  TypeInv'
  BY <1>21 DEF HiloDevuelve, Va, martaVars, colaVars, nodoVars
<1>22. ASSUME NEW h \in Hilo, HiloAborta(h)
       PROVE  TypeInv'
  <2>1. vivo' \in BOOLEAN
    BY <1>22 DEF HiloAborta
  <2>. QED
    BY <1>22, <2>1 DEF HiloAborta, martaVars, colaVars, hiloVars, nodoVars
<1>23. CASE MartaMuere
  BY <1>23 DEF MartaMuere, colaVars, hiloVars, nodoVars
<1>24. CASE UNCHANGED vars
  BY <1>24 DEF vars, martaVars, colaVars, hiloVars, nodoVars
<1>. QED
  BY <1>1, <1>2, <1>3, <1>4, <1>5, <1>6, <1>7, <1>8, <1>9, <1>10, <1>11, <1>12,
     <1>13, <1>14, <1>15, <1>16, <1>17, <1>18, <1>19, <1>20, <1>21, <1>22, <1>23, <1>24
  DEF Next, MartaPaso, EnvioPaso, HiloPaso

(* Every state of a Job, of MaRTA and of the nodes has the declared types. *)
THEOREM TypeCorrect == Spec => []TypeOK
<1>1. TypeInv => TypeOK
  BY DEF TypeInv
<1>. QED
  BY <1>1, TypeInit, TypeStep, PTL DEF Spec

-----------------------------------------------------------------------------

(* Only envioAMarta and a thread that queues a result touch lista_RMarta.  *)
LEMMA TocanLaCola ==
  [Next]_vars => \/ UNCHANGED colaVars
                 \/ EnvioEsperaMarta
                 \/ EnvioEsperaLista
                 \/ EnvioManda
                 \/ \E h \in Hilo : HiloEncola(h)
BY DEF Next, MartaPaso, EnvioPaso, HiloPaso, MartaEnviaMap, MartaEnviaMas, MartaRecibe,
       MartaCredito, MartaPierdeJob, MartaMuere, JobRecibe, JobPierdeMarta, JobDespacha, HiloCopia,
       HiloNoConecta, HiloSaluda, HiloEntrega, NodoTermina, NodoFalla, HiloAvisaFin,
       HiloAvisaError, HiloDevuelve, HiloAborta, vars

(* semCantLista always counts lista_RMarta: envioAMarta finds a result     *)
(* each time the semaphore lets it in and never takes its abort().         *)
THEOREM ColaSiempreContada == Spec => []ColaContada
<1>1. Init => ColaContada
  BY DEF Init, ColaContada
<1>2. TypeInv /\ TypeInv' /\ ColaContada /\ [Next]_vars => ColaContada'
  <2>. SUFFICES ASSUME TypeInv, ColaContada, [Next]_vars
                PROVE  ColaContada'
    OBVIOUS
  <2>. USE DEF TypeInv, TypeOK, ColaContada
  <2>1. CASE UNCHANGED colaVars
    BY <2>1 DEF colaVars
  <2>2. CASE EnvioEsperaMarta
    BY <2>2 DEF EnvioEsperaMarta
  <2>3. CASE EnvioEsperaLista
    BY <2>3 DEF EnvioEsperaLista, TomaLista
  <2>4. CASE EnvioManda
    <3>1. listaRMarta # <<>>
      BY <2>4 DEF EnvioManda
    <3>2. Len(Tail(listaRMarta)) = Len(listaRMarta) - 1
      BY <3>1, HeadTailProperties
    <3>. QED
      BY <2>4, <3>1, <3>2 DEF EnvioManda
  <2>5. ASSUME NEW h \in Hilo, HiloEncola(h)
        PROVE  ColaContada'
    <3>1. SuTarea(h) \in Tarea
      BY <2>5, Mensajes DEF HiloEncola, SuTarea, Va
    <3>2. Len(listaRMarta') = Len(listaRMarta) + 1
      BY <2>5, <3>1, AppendProperties DEF HiloEncola
    <3>. QED
      BY <2>5, <3>2 DEF HiloEncola
  <2>. QED
    BY <2>1, <2>2, <2>3, <2>4, <2>5, TocanLaCola
<1>. QED
  BY <1>1, <1>2, TypeInit, TypeStep, PTL DEF Spec

-----------------------------------------------------------------------------

(* A message for a local reduce names a mapped task; so does an OK.        *)
Mapeado(m) == m.tipo = "reduce" => m.tarea \in mapHecho
SanosAJob == {m \in MensajesAJob : Mapeado(m)}
SanosAMarta == {m \in MensajesAMarta : m.tipo = "ok" => m.tarea \in mapHecho}

(* What carries the news of a map from the node to MaRTA and of its local  *)
(* reduce back: each step of the way names a task that was mapped.         *)
MapInv ==
  /\ MapReal
  /\ aMarta \in Seq(SanosAMarta)
  /\ listaRMarta \in Seq(mapHecho)
  /\ \A h \in Hilo : hilo[h] = "hecho" /\ leido[h].tipo = "map"
                       => leido[h].tarea \in mapHecho
  /\ aJob \in Seq(SanosAJob)
  /\ Mapeado(pendiente)
  /\ Mapeado(buffer)
  /\ \A h \in Hilo : Mapeado(leido[h])
  /\ reduceHecho \subseteq mapHecho

(* No task is a local reduce before something says so.                     *)
LEMMA Clases ==
  /\ Mapeado(Vacio)
  /\ Credito \in SanosAJob
  /\ Total \in SanosAJob
  /\ \A t \in Tarea : Mensaje("map", t) \in SanosAJob
  /\ \A t \in Tarea \cap mapHecho : Mensaje("reduce", t) \in SanosAJob
  /\ \A t \in Tarea \cap mapHecho : Mensaje("ok", t) \in SanosAMarta
  /\ \A t \in Tarea \cup {Nada} : Mensaje("error", t) \in SanosAMarta
  /\ Mensaje("uno", Nada) \in SanosAMarta
  /\ Mensaje("fin", Nada) \in SanosAMarta
  /\ \A m \in MensajesAJob \cup {Vacio} : m.tarea \in Tarea \cup {Nada}
BY DEF Mapeado, SanosAJob, SanosAMarta, Mensaje, Vacio, Credito, Total, MensajesAJob,
       MensajesAMarta

LEMMA MapStep == TypeInv /\ TypeInv' /\ MapInv /\ [Next]_vars => MapInv'
<1>. SUFFICES ASSUME TypeInv, TypeInv', MapInv, [Next]_vars
              PROVE  MapInv'
  OBVIOUS
<1>. USE DEF TypeInv, TypeOK, MapInv, MapReal
<1>1. ASSUME NEW t \in Tarea, MartaEnviaMap(t)
      PROVE  MapInv'
  <2>1. aJob' \in Seq(SanosAJob)
    BY <1>1, Clases DEF MartaEnviaMap
  <2>. QED
    BY <1>1, <2>1 DEF MartaEnviaMap, Mapeado, SanosAJob, SanosAMarta, colaVars, hiloVars, nodoVars
<1>2. CASE MartaEnviaMas
  <2>1. aJob' \in Seq(SanosAJob)
    BY <1>2, Clases DEF MartaEnviaMas
  <2>. QED
    BY <1>2, <2>1 DEF MartaEnviaMas, Mapeado, SanosAJob, SanosAMarta, colaVars, hiloVars, nodoVars
<1>3. CASE MartaRecibe
  <2>. PICK k \in 1..Len(aMarta) : aMarta' = Resto(aMarta, k)
    BY <1>3 DEF MartaRecibe
  <2>1. aMarta' \in Seq(SanosAMarta)
    BY RestoProps
  <2>2. /\ UNCHANGED <<listaRMarta, hilo, leido, mapHecho, reduceHecho, pendiente, buffer>>
        /\ Mapeado(pendiente)'
        /\ Mapeado(buffer)'
        /\ \A h \in Hilo : Mapeado(leido[h])'
    BY <1>3 DEF MartaRecibe, Mapeado, SanosAJob, SanosAMarta, colaVars, hiloVars, nodoVars
  <2>3. MapReal' /\ aJob' \in Seq(SanosAJob)
    <3>1. CASE aMarta[1].tipo = "ok" /\ ReciboOk(aMarta[1].tarea)
      <4>. DEFINE m == aMarta[1].tarea
      <4>1. m \in Tarea /\ m \in mapHecho
        <5>1. aMarta[1] \in SanosAMarta
          OBVIOUS
        <5>. QED
          BY <3>1, <5>1, Mensajes DEF SanosAMarta
      <4>2. MapReal'
        BY <2>2, <3>1, <4>1 DEF ReciboOk
      <4>3. aJob' # aJob =>
              \E p, q \in BOOLEAN :
                aJob' = aJob \o (IF p THEN <<Total>> ELSE <<>>)
                             \o (IF q THEN <<Mensaje("reduce", m)>> ELSE <<>>)
        BY <3>1, Zenon DEF ReciboOk
      <4>4. ASSUME NEW p \in BOOLEAN, NEW q \in BOOLEAN,
                   aJob' = aJob \o (IF p THEN <<Total>> ELSE <<>>)
                                \o (IF q THEN <<Mensaje("reduce", m)>> ELSE <<>>)
            PROVE  aJob' \in Seq(SanosAJob)
        BY <4>1, <4>4, Clases
      <4>. QED
        BY <4>2, <4>3, <4>4
    <3>2. CASE ReducesOk
      BY <2>2, <3>2 DEF ReducesOk
    <3>3. CASE SinEfecto
      BY <2>2, <3>3 DEF SinEfecto
    <3>. QED
      BY <1>3, <3>1, <3>2, <3>3 DEF MartaRecibe
  <2>. QED
    BY <2>1, <2>2, <2>3 DEF Mapeado, SanosAJob, SanosAMarta
<1>4. CASE MartaCredito
  <2>1. aJob' \in Seq(SanosAJob)
    BY <1>4, Clases DEF MartaCredito
  <2>. QED
    BY <1>4, <2>1 DEF MartaCredito, Mapeado, SanosAJob, SanosAMarta, colaVars, hiloVars, nodoVars
<1>5. CASE MartaPierdeJob
  BY <1>5 DEF MartaPierdeJob, Mapeado, SanosAJob, SanosAMarta, colaVars, hiloVars, nodoVars
<1>6. CASE JobRecibe
  <2>. PICK k \in 1..Len(aJob) :
              /\ aJob' = Resto(aJob, k)
              /\ pendiente' = IF DeTarea(aJob[1]) THEN aJob[1] ELSE Vacio
    BY <1>6 DEF JobRecibe
  <2>1. aJob' \in Seq(SanosAJob)
    BY RestoProps
  <2>2. Mapeado(pendiente')
    BY Clases, SMTT(30) DEF SanosAJob
  <2>. QED
    BY <1>6, <2>1, <2>2 DEF JobRecibe, Mapeado, SanosAJob, SanosAMarta, martaVars, colaVars, hiloVars, nodoVars
<1>7. CASE JobPierdeMarta
  BY <1>7 DEF JobPierdeMarta, Mapeado, SanosAJob, SanosAMarta, martaVars, colaVars, hiloVars, nodoVars
<1>8. CASE JobDespacha
  <2>1. /\ mapHecho' = mapHecho
        /\ buffer' = pendiente
        /\ pendiente' = Vacio
    BY <1>8 DEF JobDespacha, nodoVars
  <2>2. Mapeado(pendiente)' /\ Mapeado(buffer)'
    BY <2>1, Clases DEF Mapeado
  <2>. QED
    BY <1>8, <2>1, <2>2 DEF JobDespacha, Mapeado, SanosAJob, SanosAMarta, martaVars, colaVars, nodoVars
<1>9. CASE EnvioEsperaMarta
  BY <1>9 DEF EnvioEsperaMarta, Mapeado, SanosAJob, SanosAMarta, martaVars, hiloVars, nodoVars
<1>10. CASE EnvioEsperaLista
  BY <1>10 DEF EnvioEsperaLista, Mapeado, SanosAJob, SanosAMarta, martaVars, hiloVars, nodoVars
<1>11. CASE EnvioManda
  <2>1. CASE listaRMarta = <<>>
    BY <1>11, <2>1 DEF EnvioManda, Mapeado, SanosAJob, SanosAMarta, martaVars, hiloVars, nodoVars
  <2>2. CASE listaRMarta # <<>>
    <3>1. /\ listaRMarta' = Tail(listaRMarta)
          /\ aMarta' = Append(aMarta, Mensaje("ok", Head(listaRMarta)))
      BY <1>11, <2>2 DEF EnvioManda
    <3>2. /\ Head(listaRMarta) \in mapHecho
          /\ Tail(listaRMarta) \in Seq(mapHecho)
      BY <2>2, HeadTailProperties
    <3>3. Mensaje("ok", Head(listaRMarta)) \in SanosAMarta
      BY <3>2, Clases
    <3>4. aMarta' \in Seq(SanosAMarta)
      BY <3>1, <3>3, AppendProperties
    <3>. QED
      BY <1>11, <3>1, <3>2, <3>4 DEF EnvioManda, Mapeado, SanosAJob, SanosAMarta, martaVars, hiloVars, nodoVars
  <2>. QED
    BY <2>1, <2>2
<1>12. ASSUME NEW h \in Hilo, HiloCopia(h)
       PROVE  MapInv'
  BY <1>12 DEF HiloCopia, Va, Mapeado, SanosAJob, SanosAMarta, martaVars, colaVars, nodoVars
<1>13. ASSUME NEW h \in Hilo, HiloNoConecta(h)
       PROVE  MapInv'
  <2>1. aMarta' \in Seq(SanosAMarta)
    BY <1>13, Clases, Mensajes DEF HiloNoConecta
  <2>. QED
    BY <1>13, <2>1 DEF HiloNoConecta, Va, Mapeado, SanosAJob, SanosAMarta, martaVars, colaVars, hiloVars, nodoVars
<1>14. ASSUME NEW h \in Hilo, HiloSaluda(h)
       PROVE  MapInv'
  BY <1>14 DEF HiloSaluda, Va, Mapeado, SanosAJob, SanosAMarta, martaVars, colaVars, nodoVars
<1>15. ASSUME NEW h \in Hilo, HiloEntrega(h)
       PROVE  MapInv'
  BY <1>15 DEF HiloEntrega, Va, Mapeado, SanosAJob, SanosAMarta, martaVars, colaVars, nodoVars
<1>16. ASSUME NEW h \in Hilo, NodoTermina(h)
       PROVE  MapInv'
  <2>1. /\ mapHecho \subseteq mapHecho'
        /\ leido[h].tipo = "map" => leido[h].tarea \in mapHecho'
        /\ reduceHecho' \subseteq mapHecho'
    BY <1>16 DEF NodoTermina, Mapeado
  <2>2. /\ SanosAMarta \subseteq SanosAMarta'
        /\ SanosAJob \subseteq SanosAJob'
    BY <2>1 DEF SanosAMarta, SanosAJob, Mapeado
  <2>3. /\ aMarta \in Seq(SanosAMarta')
        /\ listaRMarta \in Seq(mapHecho')
        /\ aJob \in Seq(SanosAJob')
    BY <2>1, <2>2, SeqCrece
  <2>. QED
    BY <1>16, <2>1, <2>3 DEF NodoTermina, Va, Mapeado, martaVars, colaVars
<1>17. ASSUME NEW h \in Hilo, NodoFalla(h)
       PROVE  MapInv'
  <2>1. \A g \in Hilo : hilo'[g] = "hecho" => hilo[g] = "hecho"
    BY <1>17 DEF NodoFalla, Va
  <2>. QED
    BY <1>17, <2>1 DEF NodoFalla, Mapeado, SanosAJob, SanosAMarta, martaVars, colaVars, nodoVars
<1>18. ASSUME NEW h \in Hilo, HiloEncola(h)
       PROVE  MapInv'
  <2>1. SuTarea(h) \in mapHecho
    BY <1>18 DEF HiloEncola, SuTarea, Va, Mapeado
  <2>2. listaRMarta' \in Seq(mapHecho')
    BY <1>18, <2>1 DEF HiloEncola, nodoVars
  <2>. QED
    BY <1>18, <2>2 DEF HiloEncola, Va, Mapeado, SanosAJob, SanosAMarta, martaVars, nodoVars
<1>19. ASSUME NEW h \in Hilo, HiloAvisaFin(h)
       PROVE  MapInv'
  <2>1. aMarta' \in Seq(SanosAMarta)
    BY <1>19, Clases, Mensajes DEF HiloAvisaFin
  <2>. QED
    BY <1>19, <2>1 DEF HiloAvisaFin, Va, Mapeado, SanosAJob, SanosAMarta, martaVars, colaVars, nodoVars
<1>20. ASSUME NEW h \in Hilo, HiloAvisaError(h)
       PROVE  MapInv'
  <2>1. \/ aMarta' = Append(aMarta, Mensaje("error", leido[h].tarea))
        \/ UNCHANGED aMarta
    BY <1>20 DEF HiloAvisaError
  <2>2. aMarta' \in Seq(SanosAMarta)
    <3>1. Mensaje("error", leido[h].tarea) \in SanosAMarta
      BY Clases
    <3>2. Append(aMarta, Mensaje("error", leido[h].tarea)) \in Seq(SanosAMarta)
      BY <3>1, AppendProperties
    <3>. QED
      BY <2>1, <3>2
  <2>. QED
    BY <1>20, <2>2 DEF HiloAvisaError, Va, Mapeado, SanosAJob, SanosAMarta, martaVars, colaVars, nodoVars
<1>21. ASSUME NEW h \in Hilo, HiloDevuelve(h)
       PROVE  MapInv'
  BY <1>21 DEF HiloDevuelve, Va, Mapeado, SanosAJob, SanosAMarta, martaVars, colaVars, nodoVars
<1>22. ASSUME NEW h \in Hilo, HiloAborta(h)
       PROVE  MapInv'
  BY <1>22 DEF HiloAborta, Mapeado, SanosAJob, SanosAMarta, martaVars, colaVars, hiloVars, nodoVars
<1>23. CASE MartaMuere
  BY <1>23 DEF MartaMuere, Mapeado, SanosAJob, SanosAMarta, colaVars, hiloVars, nodoVars
<1>24. CASE UNCHANGED vars
  BY <1>24 DEF vars, Mapeado, SanosAJob, SanosAMarta, martaVars, colaVars, hiloVars, nodoVars
<1>. QED
  BY <1>1, <1>2, <1>3, <1>4, <1>5, <1>6, <1>7, <1>8, <1>9, <1>10, <1>11, <1>12,
     <1>13, <1>14, <1>15, <1>16, <1>17, <1>18, <1>19, <1>20, <1>21, <1>22, <1>23, <1>24
  DEF Next, MartaPaso, EnvioPaso, HiloPaso

(* MaRTA takes a task for mapped only when its node mapped it, however the *)
(* recvs, the shared buffer and the threads interleave.                    *)
THEOREM MapSiempreReal == Spec => []MapReal
<1>1. Init => MapInv
  BY Clases DEF Init, MapInv, MapReal, Mapeado
<1>2. MapInv => MapReal
  BY DEF MapInv
<1>. QED
  BY <1>1, <1>2, TypeInit, TypeStep, MapStep, PTL DEF Spec

(* The combiner of a task never runs before its map, on any node.          *)
THEOREM CombinerTrasMap == Spec => [](reduceHecho \subseteq mapHecho)
<1>1. Init => MapInv
  BY Clases DEF Init, MapInv, MapReal, Mapeado
<1>2. MapInv => reduceHecho \subseteq mapHecho
  BY DEF MapInv
<1>. QED
  BY <1>1, <1>2, TypeInit, TypeStep, MapStep, PTL DEF Spec

-----------------------------------------------------------------------------

(* CreditoUnico place by place: whoever has the right to write to MaRTA,   *)
(* nobody else has it.                                                     *)
EnMarta == marta \in {"planifica", "credito"}
EnAJob(i) == i \in DOMAIN aJob /\ aJob[i] = Credito
EnHilo(h) == h \in Hilo /\ hilo[h] = "retiene"
EnAMarta(i) == i \in DOMAIN aMarta /\ aMarta[i].tipo = "ok"

SoloUno ==
  /\ semaforoMarta \in 0..1
  /\ EnMarta => semaforoMarta = 0 /\ envio = "marta"
  /\ \A i \in Nat : EnAJob(i) =>
       /\ ~EnMarta /\ semaforoMarta = 0 /\ envio = "marta"
       /\ \A j \in Nat : EnAJob(j) => i = j
  /\ semaforoMarta = 1 => envio = "marta"
  /\ \A h \in Hilo : EnHilo(h) =>
       /\ ~EnMarta /\ semaforoMarta = 0 /\ envio = "marta"
       /\ \A i \in Nat : ~EnAJob(i)
       /\ \A g \in Hilo : EnHilo(g) => g = h
  /\ \A i \in Nat : EnAMarta(i) =>
       /\ ~EnMarta /\ semaforoMarta = 0 /\ envio = "marta"
       /\ \A j \in Nat : ~EnAJob(j)
       /\ \A h \in Hilo : ~EnHilo(h)
       /\ \A j \in Nat : EnAMarta(j) => i = j

LEMMA SoloUnoEsCreditoUnico ==
  ASSUME TypeOK, SoloUno
  PROVE  CreditoUnico
<1>. SUFFICES ASSUME NEW x \in Ubicaciones, NEW y \in Ubicaciones
              PROVE  x = y
  BY DEF CreditoUnico
<1>1. \A i \in DOMAIN aJob : i \in Nat
  BY DEF TypeOK
<1>2. \A i \in DOMAIN aMarta : i \in Nat
  BY DEF TypeOK
<1>3. ASSUME NEW z \in Ubicaciones
      PROVE  \/ EnMarta /\ z = <<"marta", 0>>
             \/ \E i \in Nat : EnAJob(i) /\ z = <<"aJob", i>>
             \/ semaforoMarta = 1 /\ z = <<"semaforo", 1>>
             \/ envio # "marta" /\ z = <<"envio", 0>>
             \/ \E h \in Hilo : EnHilo(h) /\ z = <<"hilo", h>>
             \/ \E i \in Nat : EnAMarta(i) /\ z = <<"aMarta", i>>
  BY <1>1, <1>2 DEF Ubicaciones, EnMarta, EnAJob, EnHilo, EnAMarta, SoloUno
<1>. QED
  BY <1>3 DEF SoloUno

(* What is appended to a channel that is no credit, or no OK, grants       *)
(* nothing.                                                                *)
LEMMA NadaNuevo ==
  /\ \A t : Mensaje("map", t) # Credito /\ Mensaje("reduce", t) # Credito
  /\ Total # Credito
  /\ \A t : Mensaje("error", t).tipo # "ok"
  /\ Mensaje("uno", Nada).tipo # "ok"
  /\ Mensaje("fin", Nada).tipo # "ok"
BY DEF Mensaje, Credito, Total

(* A recv only moves elements towards the head of the channel.             *)
LEMMA RestoSinNuevos ==
  ASSUME NEW S, NEW canal \in Seq(S), NEW k \in 1..Len(canal)
  PROVE  \A i \in Nat : i \in DOMAIN Resto(canal, k) =>
           i > 0 /\ i + k \in DOMAIN canal /\ Resto(canal, k)[i] = canal[i + k]
<1>. DEFINE resto == Resto(canal, k)
<1>1. /\ resto \in Seq(S)
      /\ \A i \in 1..Len(resto) : i + k \in 1..Len(canal) /\ resto[i] = canal[i + k]
  BY RestoProps
<1>. HIDE DEF resto
<1>2. DOMAIN resto = 1..Len(resto) /\ DOMAIN canal = 1..Len(canal)
  BY <1>1
<1>3. \A i \in Nat : i \in DOMAIN resto =>
           i > 0 /\ i + k \in DOMAIN canal /\ resto[i] = canal[i + k]
  BY <1>1, <1>2
<1>. QED
  BY <1>3 DEF resto

(* Sending one message leaves the others where they were.                  *)
LEMMA AgregaAlFinal ==
  ASSUME NEW S, NEW canal \in Seq(S), NEW m \in S
  PROVE  /\ Append(canal, m)[Len(canal) + 1] = m
         /\ \A i \in DOMAIN Append(canal, m) :
              i = Len(canal) + 1 \/ (i \in DOMAIN canal /\ Append(canal, m)[i] = canal[i])
BY AppendProperties

(* What reciboOk sends before its "*" holds no credit.                     *)
LEMMA PedidosSinCredito ==
  ASSUME NEW canal \in Seq(MensajesAJob), NEW t \in Tarea,
         NEW a \in {<<>>, <<Total>>}, NEW b \in {<<>>, <<Mensaje("reduce", t)>>},
         NEW i, i \in DOMAIN (canal \o a \o b), (canal \o a \o b)[i] = Credito
  PROVE  i \in DOMAIN canal /\ canal[i] = Credito
<1>. DEFINE m == Mensaje("reduce", t)
<1>1. Total \in MensajesAJob /\ m \in MensajesAJob /\ Total # Credito /\ m # Credito
  BY NadaNuevo, Mensajes
<1>2. a \in {<<>>, <<Total>>} /\ b \in {<<>>, <<m>>}
  OBVIOUS
<1>. HIDE DEF m
<1>3. CASE a = <<>> /\ b = <<>>
  BY <1>1, <1>3
<1>4. CASE a = <<Total>> /\ b = <<>>
  BY <1>1, <1>4
<1>5. CASE a = <<>> /\ b = <<m>>
  BY <1>1, <1>5
<1>6. CASE a = <<Total>> /\ b = <<m>>
  BY <1>1, <1>6
<1>. QED
  BY <1>2, <1>3, <1>4, <1>5, <1>6

LEMMA SoloUnoStep == TypeInv /\ TypeInv' /\ SoloUno /\ [Next]_vars => SoloUno'
<1>. SUFFICES ASSUME TypeInv, TypeInv', SoloUno, [Next]_vars
              PROVE  SoloUno'
  OBVIOUS
<1>. USE DEF TypeInv, TypeOK, SoloUno, EnMarta, EnHilo
<1>0. ASSUME UNCHANGED <<marta, semaforoMarta, envio>>,
             \A i \in Nat : EnAJob(i)' => EnAJob(i),
             \A i \in Nat : EnAMarta(i)' => EnAMarta(i),
             \A h \in Hilo : EnHilo(h)' => EnHilo(h)
      PROVE  SoloUno'
  BY <1>0
<1>1. ASSUME NEW t \in Tarea, MartaEnviaMap(t)
      PROVE  SoloUno'
  <2>1. \A i \in Nat : EnAJob(i)' => EnAJob(i)
    BY <1>1, NadaNuevo, AppendProperties, Mensajes DEF MartaEnviaMap, EnAJob
  <2>2. \A i \in Nat : EnAMarta(i)' => EnAMarta(i)
    BY <1>1 DEF MartaEnviaMap, EnAMarta
  <2>. QED
    BY <1>0, <1>1, <2>1, <2>2 DEF MartaEnviaMap, colaVars, hiloVars
<1>2. CASE MartaEnviaMas
  <2>1. \A i \in Nat : EnAJob(i)' <=> i = Len(aJob) + 1
    BY <1>2, Mensajes, AppendProperties DEF MartaEnviaMas, EnAJob
  <2>2. \A i \in Nat : EnAMarta(i)' => EnAMarta(i)
    BY <1>2 DEF MartaEnviaMas, EnAMarta
  <2>. QED
    BY <1>2, <2>1, <2>2 DEF MartaEnviaMas, colaVars, hiloVars
<1>3. CASE MartaRecibe
  <2>. PICK k \in 1..Len(aMarta) : aMarta' = Resto(aMarta, k)
    BY <1>3 DEF MartaRecibe
  <2>1. \A i \in Nat : EnAMarta(i)' => i > 0 /\ EnAMarta(i + k)
    <3>1. \A i \in Nat : i \in DOMAIN Resto(aMarta, k) =>
             i > 0 /\ i + k \in DOMAIN aMarta /\ Resto(aMarta, k)[i] = aMarta[i + k]
      BY RestoSinNuevos, SMTT(30)
    <3>. QED
      BY <3>1 DEF EnAMarta
  <2>2. marta = "recibe" /\ UNCHANGED <<semaforoMarta, envio, hilo>>
    BY <1>3 DEF MartaRecibe, colaVars, hiloVars
  <2>3. CASE aMarta[1].tipo = "ok" /\ ReciboOk(aMarta[1].tarea)
    <3>1. EnAMarta(1)
      BY <2>3 DEF EnAMarta
    <3>2. \A i \in Nat : ~EnAMarta(i)'
      BY <2>1, <3>1, SMTT(30)
    <3>3. PICK t \in Tarea : t = aMarta[1].tarea /\ ReciboOk(t)
      BY <2>3, Mensajes, SMTT(30)
    <3>4. \/ aJob' = aJob
          \/ \E a \in {<<>>, <<Total>>}, b \in {<<>>, <<Mensaje("reduce", t)>>} :
               aJob' = aJob \o a \o b
      BY <3>3, Zenon DEF ReciboOk
    <3>5. \A i \in Nat : EnAJob(i)' => EnAJob(i)
      <4>1. ASSUME NEW a \in {<<>>, <<Total>>}, NEW b \in {<<>>, <<Mensaje("reduce", t)>>},
                   aJob' = aJob \o a \o b,
                   NEW i \in Nat, EnAJob(i)'
            PROVE  EnAJob(i)
        <5>1. i \in DOMAIN (aJob \o a \o b) /\ (aJob \o a \o b)[i] = Credito
          BY <4>1 DEF EnAJob
        <5>2. i \in DOMAIN aJob /\ aJob[i] = Credito
          <6>1. /\ aJob \in Seq(MensajesAJob)
                /\ t \in Tarea
                /\ a \in {<<>>, <<Total>>}
                /\ b \in {<<>>, <<Mensaje("reduce", t)>>}
            OBVIOUS
          <6>. QED
            BY ONLY <5>1, <6>1, PedidosSinCredito
        <5>. QED
          BY <5>2 DEF EnAJob
      <4>. QED
        BY <3>4, <4>1 DEF EnAJob
    <3>. QED
      BY <2>2, <3>1, <3>2, <3>5
  <2>4. CASE ReducesOk \/ SinEfecto
    <3>1. EnMarta' => EnMarta
      BY <2>2, <2>4 DEF ReducesOk, SinEfecto
    <3>2. UNCHANGED aJob
      BY <2>4 DEF ReducesOk, SinEfecto
    <3>. QED
      BY <2>1, <2>2, <3>1, <3>2, SMTT(30) DEF EnAJob
  <2>. QED
    BY <1>3, <2>3, <2>4 DEF MartaRecibe
<1>4. CASE MartaCredito
  <2>1. \A i \in Nat : EnAJob(i)' <=> i = Len(aJob) + 1
    BY <1>4, Mensajes, AppendProperties DEF MartaCredito, EnAJob
  <2>2. \A i \in Nat : EnAMarta(i)' => EnAMarta(i)
    BY <1>4 DEF MartaCredito, EnAMarta
  <2>. QED
    BY <1>4, <2>1, <2>2 DEF MartaCredito, colaVars, hiloVars
<1>5. CASE MartaPierdeJob
  <2>1. EnMarta' => EnMarta
    BY <1>5 DEF MartaPierdeJob
  <2>. QED
    BY <1>5, <2>1 DEF MartaPierdeJob, colaVars, hiloVars, EnAJob, EnAMarta
<1>6. CASE JobRecibe
  <2>. PICK k \in 1..Len(aJob) :
              /\ aJob' = Resto(aJob, k)
              /\ semaforoMarta' = semaforoMarta
                                    + (IF \E i \in 1..k : aJob[i] = Credito THEN 1 ELSE 0)
    BY <1>6 DEF JobRecibe
  <2>1. \A i \in Nat : EnAJob(i)' => i > 0 /\ EnAJob(i + k)
    BY RestoSinNuevos DEF EnAJob
  <2>2. \A i \in Nat : EnAMarta(i)' => EnAMarta(i)
    BY <1>6 DEF JobRecibe, EnAMarta
  <2>3. UNCHANGED <<marta, envio, hilo>>
    BY <1>6 DEF JobRecibe, martaVars, colaVars, hiloVars
  <2>4. CASE \E i \in 1..k : aJob[i] = Credito
    <3>. PICK i \in 1..k : aJob[i] = Credito
      BY <2>4
    <3>1. EnAJob(i)
      BY DEF EnAJob
    <3>2. \A j \in Nat : ~EnAJob(j)'
      BY <2>1, <3>1, SMTT(30)
    <3>3. semaforoMarta' = semaforoMarta + 1
      BY <2>4
    <3>. QED
      BY <2>2, <2>3, <3>1, <3>2, <3>3, SMTT(30)
  <2>5. CASE ~\E i \in 1..k : aJob[i] = Credito
    <3>1. UNCHANGED semaforoMarta
      BY <2>5
    <3>2. \A i, j \in Nat : EnAJob(i)' /\ EnAJob(j)' => i = j
      BY <2>1, SMTT(30)
    <3>3. \A i \in Nat : EnAJob(i)' => \E j \in Nat : EnAJob(j)
      BY <2>1
    <3>. QED
      BY <2>2, <2>3, <3>1, <3>2, <3>3
  <2>. QED
    BY <2>4, <2>5
<1>7. CASE JobPierdeMarta
  BY <1>0, <1>7 DEF JobPierdeMarta, martaVars, colaVars, hiloVars, EnAJob, EnAMarta
<1>8. CASE JobDespacha
  BY <1>0, <1>8 DEF JobDespacha, martaVars, colaVars, EnAJob, EnAMarta, Hilo
<1>9. CASE EnvioEsperaMarta
  BY <1>9 DEF EnvioEsperaMarta, TomaMarta, martaVars, hiloVars, EnAJob, EnAMarta
<1>10. CASE EnvioEsperaLista
  BY <1>10 DEF EnvioEsperaLista, martaVars, hiloVars, EnAJob, EnAMarta
<1>11. CASE EnvioManda
  <2>1. /\ envio = "aux"
        /\ UNCHANGED <<marta, semaforoMarta, hilo, aJob>>
    BY <1>11 DEF EnvioManda, martaVars, hiloVars
  <2>2. CASE listaRMarta = <<>>
    BY <1>0, <1>11, <2>1, <2>2 DEF EnvioManda, EnAJob, EnAMarta
  <2>3. CASE listaRMarta # <<>>
    <3>1. /\ aMarta' = Append(aMarta, Mensaje("ok", Head(listaRMarta)))
          /\ envio' = "marta"
      BY <1>11, <2>3 DEF EnvioManda
    <3>2. Head(listaRMarta) \in Tarea
      BY <2>3, HeadTailProperties
    <3>3. \A i \in Nat : EnAMarta(i)' => i = Len(aMarta) + 1
      <4>1. Mensaje("ok", Head(listaRMarta)) \in MensajesAMarta
        BY <3>2, Mensajes
      <4>2. \A i \in DOMAIN aMarta' :
              i = Len(aMarta) + 1 \/ (i \in DOMAIN aMarta /\ aMarta'[i] = aMarta[i])
        BY <3>1, <4>1, AgregaAlFinal, SMTT(30)
      <4>. QED
        BY <2>1, <4>2 DEF EnAMarta
    <3>. QED
      BY <2>1, <3>1, <3>3 DEF EnAJob
  <2>. QED
    BY <2>2, <2>3
<1>12. ASSUME NEW h \in Hilo, HiloCopia(h)
       PROVE  SoloUno'
  BY <1>0, <1>12 DEF HiloCopia, Va, martaVars, colaVars, EnAJob, EnAMarta
<1>13. ASSUME NEW h \in Hilo, HiloNoConecta(h)
       PROVE  SoloUno'
  <2>1. \A i \in Nat : EnAMarta(i)' => EnAMarta(i)
    <3>1. /\ Mensaje("error", leido[h].tarea) \in MensajesAMarta
          /\ Mensaje("error", leido[h].tarea).tipo # "ok"
      BY NadaNuevo, Mensajes
    <3>. QED
      BY <1>13, <3>1, NadaNuevo, Mensajes DEF HiloNoConecta, EnAMarta
  <2>. QED
    BY <1>0, <1>13, <2>1 DEF HiloNoConecta, Va, EnAJob, martaVars, colaVars, hiloVars, nodoVars
<1>14. ASSUME NEW h \in Hilo, HiloSaluda(h)
       PROVE  SoloUno'
  BY <1>0, <1>14 DEF HiloSaluda, Va, martaVars, colaVars, EnAJob, EnAMarta
<1>15. ASSUME NEW h \in Hilo, HiloEntrega(h)
       PROVE  SoloUno'
  BY <1>0, <1>15 DEF HiloEntrega, Va, martaVars, colaVars, EnAJob, EnAMarta
<1>16. ASSUME NEW h \in Hilo, NodoTermina(h)
       PROVE  SoloUno'
  BY <1>0, <1>16 DEF NodoTermina, Va, martaVars, colaVars, EnAJob, EnAMarta
<1>17. ASSUME NEW h \in Hilo, NodoFalla(h)
       PROVE  SoloUno'
  BY <1>0, <1>17 DEF NodoFalla, Va, martaVars, colaVars, EnAJob, EnAMarta
<1>18. ASSUME NEW h \in Hilo, HiloEncola(h)
       PROVE  SoloUno'
  BY <1>0, <1>18 DEF HiloEncola, Va, martaVars, EnAJob, EnAMarta
<1>19. ASSUME NEW h \in Hilo, HiloAvisaFin(h)
       PROVE  SoloUno'
  <2>1. \A i \in Nat : EnAMarta(i)' => EnAMarta(i)
    BY <1>19, NadaNuevo, Mensajes DEF HiloAvisaFin, EnAMarta
  <2>. QED
    BY <1>0, <1>19, <2>1 DEF HiloAvisaFin, Va, EnAJob, martaVars, colaVars, nodoVars
<1>20. ASSUME NEW h \in Hilo, HiloAvisaError(h)
       PROVE  SoloUno'
  <2>1. \/ aMarta' = Append(aMarta, Mensaje("error", leido[h].tarea))
        \/ UNCHANGED aMarta
    BY <1>20 DEF HiloAvisaError
  <2>2. \A i \in Nat : EnAMarta(i)' => EnAMarta(i)
    <3>1. /\ Mensaje("error", leido[h].tarea) \in MensajesAMarta
          /\ Mensaje("error", leido[h].tarea).tipo # "ok"
      BY NadaNuevo, Mensajes
    <3>2. CASE aMarta' = Append(aMarta, Mensaje("error", leido[h].tarea))
      <4>1. /\ aMarta'[Len(aMarta) + 1] = Mensaje("error", leido[h].tarea)
            /\ \A i \in DOMAIN aMarta' :
                 i = Len(aMarta) + 1 \/ (i \in DOMAIN aMarta /\ aMarta'[i] = aMarta[i])
        BY <3>1, <3>2, AgregaAlFinal, SMTT(30)
      <4>. QED
        BY <3>1, <4>1 DEF EnAMarta
    <3>. QED
      BY <2>1, <3>2 DEF EnAMarta
  <2>3. /\ semaforoMarta = 1 /\ semaforoMarta' = 0
        /\ \A g \in Hilo : EnHilo(g)' => g = h \/ EnHilo(g)
        /\ UNCHANGED <<marta, envio, aJob>>
    BY <1>20 DEF HiloAvisaError, Va, TomaMarta, martaVars, colaVars
  <2>. QED
    BY <2>2, <2>3 DEF EnAJob
<1>21. ASSUME NEW h \in Hilo, HiloDevuelve(h)
       PROVE  SoloUno'
  <2>1. /\ EnHilo(h) /\ ~EnHilo(h)'
        /\ \A g \in Hilo : EnHilo(g)' => EnHilo(g)
        /\ semaforoMarta' = semaforoMarta + 1
        /\ UNCHANGED <<marta, envio, aJob, aMarta>>
    BY <1>21 DEF HiloDevuelve, Va, martaVars, colaVars
  <2>. QED
    BY <2>1 DEF EnAJob, EnAMarta
<1>22. ASSUME NEW h \in Hilo, HiloAborta(h)
       PROVE  SoloUno'
  BY <1>0, <1>22 DEF HiloAborta, martaVars, colaVars, hiloVars, EnAJob, EnAMarta
<1>23. CASE MartaMuere
  <2>1. EnMarta' => EnMarta
    BY <1>23 DEF MartaMuere
  <2>. QED
    BY <1>23, <2>1 DEF MartaMuere, colaVars, hiloVars, EnAJob, EnAMarta
<1>24. CASE UNCHANGED vars
  BY <1>0, <1>24 DEF vars, martaVars, colaVars, hiloVars, EnAJob, EnAMarta
<1>. QED
  BY <1>1, <1>2, <1>3, <1>4, <1>5, <1>6, <1>7, <1>8, <1>9, <1>10, <1>11, <1>12,
     <1>13, <1>14, <1>15, <1>16, <1>17, <1>18, <1>19, <1>20, <1>21, <1>22, <1>23, <1>24
  DEF Next, MartaPaso, EnvioPaso, HiloPaso

(* Never two rights to write to MaRTA at a time, however many threads fail *)
(* or finish together: at most one OK is waiting for its answer.           *)
THEOREM CreditoSiempreUnico == Spec => []CreditoUnico
<1>1. Init => SoloUno
  BY DEF Init, SoloUno, EnMarta, EnAJob, EnHilo, EnAMarta
<1>2. TypeInv /\ SoloUno => CreditoUnico
  BY SoloUnoEsCreditoUnico DEF TypeInv
<1>. QED
  BY <1>1, <1>2, TypeInit, TypeStep, SoloUnoStep, PTL DEF Spec

-----------------------------------------------------------------------------
(* When the sleeps of both programs last long enough (Pausa): every message*)
(* is handled once, every result is counted once and the system implements *)
(* MapReduce.                                                              *)

(* The messages about a task, or for the total reduce, that no thread has  *)
(* read yet: on the socket, with main(), or in the buffer that a thread    *)
(* just created will copy.                                                 *)
EnSocket(i) == i \in DOMAIN aJob /\ DeTarea(aJob[i])
Nace(h) == h \in Hilo /\ hilo[h] = "nace"
EnCamino(m) ==
  \/ \E i \in Nat : EnSocket(i) /\ aJob[i] = m
  \/ pendiente = m /\ m # Vacio
  \/ buffer = m /\ \E h \in Hilo : Nace(h)

(* There is one at a time, and none while MaRTA waits for an answer.       *)
UnaEntrega ==
  /\ \A i, j \in Nat : EnSocket(i) /\ EnSocket(j) => i = j
  /\ \A i \in Nat : EnSocket(i) =>
       marta # "recibe" /\ pendiente = Vacio /\ \A h \in Hilo : ~Nace(h)
  /\ pendiente # Vacio =>
       marta # "recibe" /\ DeTarea(pendiente) /\ \A h \in Hilo : ~Nace(h)
  /\ \A h \in Hilo : Nace(h) =>
       /\ marta # "recibe" /\ DeTarea(buffer)
       /\ \A g \in Hilo : Nace(g) => g = h

(* Each thread read a message of its own, which is nowhere else.           *)
Leidos ==
  /\ \A h \in Hilo : hilo[h] = "no" <=> h > hilos
  /\ \A h \in Hilo : hilo[h] \in {"no", "nace"} => leido[h] = Vacio
  /\ \A h \in Hilo : hilo[h] \notin {"no", "nace"} => DeTarea(leido[h])
  /\ \A g, h \in Hilo : leido[g] = leido[h] /\ DeTarea(leido[g]) => g = h
  /\ \A h \in Hilo : ~EnCamino(leido[h])

(* What was asked for and by what MaRTA remembers it.                      *)
Pedida(m) ==
  /\ m.tipo = "map" => jobEnviado[m.tarea] # 0
  /\ m.tipo = "reduce" => m.tarea \in parcialReduce
  /\ m.tipo = "total" => totales > 0
Pedidas ==
  /\ \A m \in MensajesAJob : EnCamino(m) => Pedida(m)
  /\ \A h \in Hilo : Pedida(leido[h])
  /\ \A t \in parcialReduce : Combiner /\ jobEnviado[t] \in {2, -1}
  /\ \A t \in Tarea : estadoCopia[t] # 0 => jobEnviado[t] # 0
  /\ reduceHecho \subseteq parcialReduce

(* The work that may still give a result, and the results on their way.    *)
Activo(h) == h \in Hilo /\ hilo[h] \in {"conecta", "saluda", "espera", "hecho"}
EnCurso(m) == EnCamino(m) \/ \E h \in Hilo : Activo(h) /\ leido[h] = m
EnLista(t) == \E i \in Nat : i \in DOMAIN listaRMarta /\ listaRMarta[i] = t
ConOk(t) == \E i \in Nat : EnAMarta(i) /\ aMarta[i].tarea = t

(* A task is at one stage at a time: its map is in course or its result on *)
(* the way while estado is 0, its local reduce while it is 1.              *)
Etapas ==
  /\ \A t \in Tarea : EnCurso(Mensaje("map", t)) => estadoCopia[t] = 0
  /\ \A t \in Tarea : EnCurso(Mensaje("reduce", t)) => estadoCopia[t] = 1
  /\ \A t \in Tarea : EnLista(t) \/ ConOk(t) =>
       /\ jobEnviado[t] # 0
       /\ \/ estadoCopia[t] = 0
          \/ Combiner /\ estadoCopia[t] = 1 /\ t \in reduceHecho
       /\ ~EnCurso(Mensaje("map", t)) /\ ~EnCurso(Mensaje("reduce", t))
  /\ \A i, j \in DOMAIN listaRMarta : listaRMarta[i] = listaRMarta[j] => i = j
  /\ \A t \in Tarea : ~(EnLista(t) /\ ConOk(t))
  /\ \A h \in Hilo : hilo[h] = "hecho" =>
       /\ leido[h].tipo = "reduce" => leido[h].tarea \in reduceHecho
       /\ leido[h].tipo = "total" => totalHecho
  /\ \A t \in Tarea : estadoCopia[t] = 2 => Combiner /\ t \in reduceHecho

(* What MaRTA counted was finished, and it asks for the total reduce when  *)
(* all was counted.                                                        *)
Listas == {t \in Tarea : estadoCopia[t] >= IF Combiner THEN 2 ELSE 1}
ListasDe(a) == {t \in Listas : ArchivoDe[t] = a}
Cuenta ==
  /\ \A a \in Archivo : contTareas[a] <= Cardinality(ListasDe(a))
  /\ archivos \in {Archivo, {}}
  /\ totales > 0 => Listas = Tarea

(* One total reduce, whose end is told once, after which the Job is closed.*)
Fin(i) == i \in DOMAIN aMarta /\ aMarta[i].tipo = "fin"
UnTotal ==
  /\ EnCurso(Total) => archivos # {} /\ \A i \in Nat : ~Fin(i)
  /\ \A i, j \in Nat : Fin(i) /\ Fin(j) => i = j
  /\ \A i \in Nat : Fin(i) => archivos # {} /\ totalHecho
  /\ totalHecho => totales > 0
  /\ archivos = {} => totalHecho

(* An OK has the socket for itself, unless the Job is about to end or its  *)
(* tasks are over.                                                         *)
SinMezcla ==
  \/ \E h \in Hilo : hilo[h] \in {"aborta", "retiene"}
  \/ totales > 0
  \/ aMarta = <<>>
  \/ Len(aMarta) = 1 /\ aMarta[1].tipo = "ok"

(* The right to write to MaRTA is somewhere.                               *)
HayCredito ==
  \/ EnMarta
  \/ \E i \in Nat : EnAJob(i)
  \/ semaforoMarta = 1
  \/ envio # "marta"
  \/ \E h \in Hilo : EnHilo(h)
  \/ \E i \in Nat : EnAMarta(i)
Sana ==
  /\ vivo => marta \notin {"caida", "fin"}
  /\ vivo /\ marta \notin {"caida", "muerta"} /\ (\A h \in Hilo : hilo[h] # "aborta")
       => HayCredito

-----------------------------------------------------------------------------

LEMMA Clave ==
  /\ \A m \in MensajesAJob \cup {Vacio} :
       /\ DeTarea(m) <=> m \notin {Credito, Vacio}
       /\ m.tipo = "map" => m.tarea \in Tarea /\ m = Mensaje("map", m.tarea)
       /\ m.tipo = "reduce" => m.tarea \in Tarea /\ m = Mensaje("reduce", m.tarea)
       /\ m.tipo = "total" <=> m = Total
       /\ DeTarea(m) => m \in MensajesAJob
  /\ \A t \in Tarea : /\ Mensaje("map", t).tipo = "map" /\ Mensaje("map", t).tarea = t
                      /\ Mensaje("reduce", t).tipo = "reduce" /\ Mensaje("reduce", t).tarea = t
                      /\ Mensaje("ok", t).tipo = "ok" /\ Mensaje("ok", t).tarea = t
                      /\ Mensaje("map", t) # Vacio /\ Mensaje("reduce", t) # Vacio
  /\ Total # Vacio /\ Credito # Vacio
  /\ Total.tipo = "total"
BY DEF MensajesAJob, Mensaje, Credito, Total, Vacio, DeTarea

(* What MaRTA sends while nothing is on its way is the only thing there.   *)
LEMMA EnviaAJob ==
  ASSUME TypeInv, NEW m \in MensajesAJob, aJob' = Append(aJob, m)
  PROVE  /\ \A i \in Nat : EnSocket(i)' => EnSocket(i) \/ (i = Len(aJob) + 1 /\ DeTarea(m))
         /\ \A i \in Nat : EnSocket(i) => EnSocket(i)' /\ aJob'[i] = aJob[i]
         /\ aJob'[Len(aJob) + 1] = m /\ Len(aJob) + 1 \in Nat /\ Len(aJob) + 1 \in DOMAIN aJob'
         /\ \A i \in Nat : EnAJob(i) => EnAJob(i)'
<1>1. aJob \in Seq(MensajesAJob)
  BY DEF TypeInv, TypeOK
<1>2. /\ aJob'[Len(aJob) + 1] = m
      /\ \A i \in DOMAIN aJob' : i = Len(aJob) + 1 \/ (i \in DOMAIN aJob /\ aJob'[i] = aJob[i])
  BY <1>1, AgregaAlFinal
<1>3. /\ \A i \in DOMAIN aJob : i \in DOMAIN aJob' /\ aJob'[i] = aJob[i]
      /\ Len(aJob) + 1 \in Nat /\ Len(aJob) + 1 \in DOMAIN aJob'
  BY <1>1, AppendProperties
<1>. QED
  BY <1>1, <1>2, <1>3 DEF EnSocket, EnAJob

(* A recv of the Job takes at most one of them, the first.                 *)
LEMMA RecibeDeMarta ==
  ASSUME TypeInv, JobRecibe
  PROVE  /\ pendiente' # Vacio =>
              EnSocket(1) /\ pendiente' = aJob[1] /\ DeTarea(pendiente')
         /\ \E k \in Nat : k > 0 /\ \A i \in Nat : EnSocket(i)' =>
              i > 0 /\ i + k \in Nat /\ EnSocket(i + k) /\ aJob'[i] = aJob[i + k]
<1>1. aJob \in Seq(MensajesAJob)
  BY DEF TypeInv, TypeOK
<1>2. PICK k \in 1..Len(aJob) :
              /\ aJob' = Resto(aJob, k)
              /\ pendiente' = IF DeTarea(aJob[1]) THEN aJob[1] ELSE Vacio
  BY DEF JobRecibe
<1>3. k \in Nat /\ k > 0 /\ 1 \in DOMAIN aJob
  BY <1>1
<1>4. \A i \in Nat : i \in DOMAIN aJob' => i > 0 /\ i + k \in DOMAIN aJob /\ aJob'[i] = aJob[i + k]
  BY <1>1, <1>2, RestoSinNuevos
<1>5. \A i \in Nat : i + k \in Nat
  BY <1>3
<1>. QED
  BY <1>2, <1>3, <1>4, <1>5 DEF EnSocket

(* A result that is sent joins those on their way.                         *)
LEMMA EnviaAMarta ==
  ASSUME TypeInv, NEW m \in MensajesAMarta, aMarta' = Append(aMarta, m)
  PROVE  /\ \A i \in Nat : EnAMarta(i)' => EnAMarta(i) \/ (i = Len(aMarta) + 1 /\ m.tipo = "ok")
         /\ \A i \in Nat : Fin(i)' => Fin(i) \/ (i = Len(aMarta) + 1 /\ m.tipo = "fin")
         /\ \A i \in Nat : i \in DOMAIN aMarta => aMarta'[i] = aMarta[i] /\ i \in DOMAIN aMarta'
         /\ aMarta'[Len(aMarta) + 1] = m /\ Len(aMarta) + 1 \in Nat
         /\ Len(aMarta) + 1 \in DOMAIN aMarta' /\ Len(aMarta') = Len(aMarta) + 1
<1>1. aMarta \in Seq(MensajesAMarta)
  BY DEF TypeInv, TypeOK
<1>2. /\ aMarta'[Len(aMarta) + 1] = m
      /\ \A i \in DOMAIN aMarta' :
           i = Len(aMarta) + 1 \/ (i \in DOMAIN aMarta /\ aMarta'[i] = aMarta[i])
  BY <1>1, AgregaAlFinal
<1>3. /\ \A i \in DOMAIN aMarta : i \in DOMAIN aMarta' /\ aMarta'[i] = aMarta[i]
      /\ Len(aMarta) + 1 \in Nat /\ Len(aMarta) + 1 \in DOMAIN aMarta' /\ Len(aMarta') = Len(aMarta) + 1
  BY <1>1, AppendProperties
<1>. QED
  BY <1>1, <1>2, <1>3 DEF EnAMarta, Fin

-----------------------------------------------------------------------------

(* The tasks of a file that were counted are finitely many.                *)
LEMMA ListasFinitas ==
  \A a : IsFiniteSet(ListasDe(a)) /\ Cardinality(ListasDe(a)) \in Nat
<1>1. \A a : ListasDe(a) \subseteq Tarea
  BY DEF ListasDe, Listas
<1>. QED
  BY <1>1, FS_Subset, FS_CardinalityType, TareaAssumption

(* When the counters add up to the tasks of the Job, all are finished: each *)
(* counter is at most the finished tasks of its file.                      *)
LEMMA CompletoEsTodo ==
  ASSUME NEW cont, NEW L \in SUBSET Tarea, archivos = Archivo,
         \A a \in Archivo : cont[a] \in Nat /\ cont[a] <= Cardinality({t \in L : ArchivoDe[t] = a}),
         Completo(cont)
  PROVE  L = Tarea
<1>1. IsFiniteSet(L) /\ Bloques(archivos) = Tarea /\ {t \in L : ArchivoDe[t] \in Archivo} = L
  BY TareaAssumption, FS_Subset DEF Bloques
<1>2. SumFunctionOnSet(cont, Archivo) <= Cardinality({t \in L : ArchivoDe[t] \in Archivo})
  BY <1>1, SumaAcotada, TareaAssumption, SMTT(30)
<1>3. SumFunctionOnSet(cont, Archivo) = Cardinality(Tarea)
  BY <1>1, SMTT(30) DEF Completo
<1>4. Cardinality(L) <= Cardinality(Tarea) /\ (Cardinality(L) = Cardinality(Tarea) => L = Tarea)
  BY FS_Subset, TareaAssumption
<1>5. Cardinality(L) \in Nat /\ Cardinality(Tarea) \in Nat
  BY <1>1, FS_CardinalityType, TareaAssumption
<1>. QED
  BY <1>1, <1>2, <1>3, <1>4, <1>5

(* What MaRTA does with an OK: the stage of its task ends and is counted,  *)
(* and either the total reduce is asked for, all tasks being finished, or  *)
(* the local reduce of this task, or nothing.                              *)
PideTotal ==
  /\ Listas' = Tarea
  /\ totales' = 1
  /\ aJob' = Append(aJob, Total)
  /\ UNCHANGED <<jobEnviado, parcialReduce>>
PideLocal(t) ==
  /\ Combiner
  /\ estadoCopia[t] = 0 /\ jobEnviado[t] = 1
  /\ jobEnviado' = [jobEnviado EXCEPT ![t] = 2]
  /\ parcialReduce' = parcialReduce \cup {t}
  /\ aJob' = Append(aJob, Mensaje("reduce", t))
  /\ UNCHANGED totales
Responde(t) ==
  /\ estadoCopia[t] \in {0, 1}
  /\ estadoCopia[t] = 1 => Combiner /\ t \in reduceHecho
  /\ estadoCopia' = [estadoCopia EXCEPT ![t] = @ + 1]
  /\ t \notin Listas
  /\ totales = 0
  /\ archivos # {}
  /\ marta' = "credito"
  /\ \A a \in Archivo : contTareas'[a] <= Cardinality(ListasDe(a)')
  /\ UNCHANGED archivos
  /\ PideTotal \/ PideLocal(t) \/ UNCHANGED <<aJob, jobEnviado, parcialReduce, totales>>

LEMMA ReciboOkResponde ==
  ASSUME TypeInv, Pedidas, Etapas, Cuenta, archivos # {},
         NEW t \in Tarea, ConOk(t), ReciboOk(t)
  PROVE  Responde(t)
<1>. DEFINE estado   == EstadoOk(t)
            cont     == Contadas(ArchivoDe[t], estado)
            completo == Completo(cont)
            queda    == IF completo THEN [cont EXCEPT ![ArchivoDe[t]] = 0] ELSE cont
            pide     == PideReduce(t, estado, queda)
            a0       == ArchivoDe[t]
<1>. USE TareaAssumption DEF TypeInv, TypeOK
<1>1. /\ estadoCopia[t] \in {0, 1}
      /\ estadoCopia[t] = 1 => Combiner /\ t \in reduceHecho
  BY DEF Etapas
<1>2. estado = estadoCopia[t] + 1
  BY <1>1 DEF EstadoOk
<1>3. /\ contTareas' = queda
      /\ estadoCopia' = [estadoCopia EXCEPT ![t] = estadoCopia[t] + 1]
      /\ archivos' = archivos
  <2>1. /\ contTareas' = queda
        /\ estadoCopia' = [estadoCopia EXCEPT ![t] = IF estado = 0 THEN @ ELSE estado]
        /\ archivos' = archivos
    BY DEF ReciboOk
  <2>. HIDE DEF estado, queda
  <2>2. (IF estado = 0 THEN estadoCopia[t] ELSE estado) = estadoCopia[t] + 1
    BY <1>1, <1>2
  <2>. QED
    BY <2>1, <2>2, Zenon
<1>4. t \notin Listas /\ totales = 0 /\ archivos = Archivo
  BY <1>1 DEF Listas, Cuenta
<1>5. a0 \in Archivo /\ \A a \in Archivo :
        /\ IsFiniteSet(ListasDe(a)) /\ Cardinality(ListasDe(a)) \in Nat
        /\ contTareas[a] \in Nat /\ contTareas[a] <= Cardinality(ListasDe(a))
  BY ListasFinitas DEF Cuenta
<1>6. Listas' = IF estado = (IF Combiner THEN 2 ELSE 1) THEN Listas \cup {t} ELSE Listas
  BY <1>1, <1>2, <1>3 DEF Listas
<1>7. \A a \in Archivo : cont[a] \in Nat /\ cont[a] <= Cardinality({u \in Listas' : ArchivoDe[u] = a})
  <2>1. \A a \in Archivo : cont[a] = IF a = a0 THEN contTareas[a] + (IF estado = 2 THEN 1 ELSE 0)
                                                      + (IF Combiner THEN 0 ELSE 1)
                                     ELSE contTareas[a]
    BY <1>5 DEF Contadas
  <2>2. CASE estado = (IF Combiner THEN 2 ELSE 1)
    <3>1. \A a \in Archivo : cont[a] = IF a = a0 THEN contTareas[a] + 1 ELSE contTareas[a]
      BY <1>1, <1>2, <1>5, <2>1, <2>2
    <3>2. \A a \in Archivo :
            {u \in Listas' : ArchivoDe[u] = a} = IF a = a0 THEN ListasDe(a) \cup {t} ELSE ListasDe(a)
      BY <1>6, <2>2 DEF ListasDe, Listas
    <3>3. t \notin ListasDe(a0)
      BY <1>4 DEF ListasDe
    <3>4. Cardinality(ListasDe(a0) \cup {t}) = Cardinality(ListasDe(a0)) + 1
      BY <1>5, <3>3, FS_AddElement
    <3>. HIDE DEF cont, a0
    <3>. SUFFICES ASSUME NEW a \in Archivo
                  PROVE  /\ cont[a] \in Nat
                         /\ cont[a] <= Cardinality({u \in Listas' : ArchivoDe[u] = a})
      OBVIOUS
    <3>5. CASE a = a0
      <4>1. /\ contTareas[a] \in Nat /\ Cardinality(ListasDe(a)) \in Nat
            /\ contTareas[a] <= Cardinality(ListasDe(a))
            /\ cont[a] = contTareas[a] + 1
        BY <1>5, <3>1, <3>5
      <4>2. Cardinality({u \in Listas' : ArchivoDe[u] = a}) = Cardinality(ListasDe(a)) + 1
        BY <3>2, <3>4, <3>5
      <4>. QED
        BY <4>1, <4>2
    <3>6. CASE a # a0
      BY <1>5, <3>1, <3>2, <3>6
    <3>. QED
      BY <3>5, <3>6
  <2>3. CASE estado # (IF Combiner THEN 2 ELSE 1)
    <3>1. \A a \in Archivo : cont[a] = contTareas[a]
      BY <1>1, <1>2, <1>5, <2>1, <2>3
    <3>2. \A a \in Archivo : {u \in Listas' : ArchivoDe[u] = a} = ListasDe(a)
      BY <1>6, <2>3 DEF ListasDe
    <3>. HIDE DEF cont
    <3>. QED
      BY <1>5, <3>1, <3>2
  <2>. QED
    BY <2>2, <2>3
<1>8. cont \in [Archivo -> Int]
  BY <1>2, <1>5 DEF Contadas
<1>9. completo => Listas' = Tarea
  <2>1. Listas' \subseteq Tarea
    BY DEF Listas
  <2>. QED
    BY <1>4, <1>7, <2>1, CompletoEsTodo
<1>10. \A a \in Archivo : queda[a] <= Cardinality(ListasDe(a)')
  <2>1. \A a \in Archivo : ListasDe(a)' = {u \in Listas' : ArchivoDe[u] = a}
    BY DEF ListasDe
  <2>2. \A a \in Archivo : cont[a] \in Nat /\ cont[a] <= Cardinality(ListasDe(a)')
    BY <1>7, <2>1
  <2>3. \A a \in Archivo : queda[a] = cont[a] \/ queda[a] = 0
    <3>. HIDE DEF cont, completo
    <3>. QED
      BY <1>8
  <2>4. \A a \in Archivo : Cardinality(ListasDe(a)') >= 0
    <3>1. \A a : ListasDe(a)' \subseteq Tarea
      BY DEF ListasDe, Listas
    <3>. QED
      BY <3>1, FS_Subset, FS_CardinalityType
  <2>. HIDE DEF cont, queda
  <2>. QED
    BY <2>2, <2>3, <2>4
<1>11. completo => estado = IF Combiner THEN 2 ELSE 1
  BY <1>4, <1>6, <1>9
<1>12. ~(completo /\ FaltaParcial)
  <2>. SUFFICES ASSUME completo, Combiner, NEW u \in Tarea
                PROVE  u \in parcialReduce
    BY DEF FaltaParcial
  <2>1. CASE u = t
    BY <1>1, <1>2, <1>11, <2>1 DEF Pedidas
  <2>2. CASE u # t
    <3>1. estadoCopia[u] = 2
      <4>1. Listas' = Tarea
        BY <1>9
      <4>2. estadoCopia'[u] = estadoCopia[u] /\ estadoCopia[u] \in 0..2
        BY <1>3, <2>2
      <4>. HIDE DEF completo
      <4>. QED
        BY <4>1, <4>2 DEF Listas
    <3>. QED
      BY <3>1 DEF Etapas, Pedidas
  <2>. QED
    BY <2>1, <2>2
<1>13. /\ totales' = IF completo THEN totales + 1 ELSE totales
       /\ marta' = IF estado = 0 THEN "recibe" ELSE "credito"
       /\ aJob' = aJob \o (IF completo THEN <<Total>> ELSE <<>>)
                       \o (IF pide THEN <<Mensaje("reduce", t)>> ELSE <<>>)
       /\ jobEnviado' = [jobEnviado EXCEPT ![t] = IF pide THEN 2 ELSE @]
       /\ parcialReduce' = IF pide THEN parcialReduce \cup {t} ELSE parcialReduce
  BY <1>12 DEF ReciboOk
<1>14. pide => Combiner /\ estado = 1 /\ jobEnviado[t] = 1
  BY DEF PideReduce
<1>15. /\ aJob \in Seq(MensajesAJob) /\ Total \in MensajesAJob
       /\ Mensaje("reduce", t) \in MensajesAJob
  BY Mensajes
<1>16. PideTotal \/ PideLocal(t) \/ UNCHANGED <<aJob, jobEnviado, parcialReduce, totales>>
  <2>1. CASE completo
    <3>1. ~pide
      BY <1>11, <1>14, <2>1
    <3>. HIDE DEF completo, pide, estado
    <3>2. aJob' = Append(aJob, Total)
      BY <1>13, <1>15, <2>1, <3>1
    <3>. QED
      BY <1>4, <1>9, <1>13, <2>1, <3>1, <3>2 DEF PideTotal
  <2>2. CASE ~completo /\ pide
    <3>1. Combiner /\ estadoCopia[t] = 0 /\ jobEnviado[t] = 1
      BY <1>2, <1>14, <2>2, SMTT(30)
    <3>. HIDE DEF completo, pide, estado
    <3>2. aJob' = Append(aJob, Mensaje("reduce", t))
      BY <1>13, <1>15, <2>2
    <3>. QED
      BY <1>13, <2>2, <3>1, <3>2 DEF PideLocal
  <2>3. CASE ~completo /\ ~pide
    <3>. HIDE DEF completo, pide, estado
    <3>2. aJob' = aJob
      BY <1>13, <1>15, <2>3
    <3>. QED
      BY <1>13, <2>3, <3>2
  <2>. QED
    BY <2>1, <2>2, <2>3
<1>17. marta' = "credito"
  BY <1>1, <1>2, <1>13
<1>. HIDE DEF estado, cont, completo, queda, pide
<1>. QED
  BY <1>1, <1>3, <1>4, <1>10, <1>16, <1>17 DEF Responde

-----------------------------------------------------------------------------

(* The end of the Job: the one report that the total reduce ended.         *)
CierraJob ==
  /\ Fin(1)
  /\ archivos # {}
  /\ archivos' = {}
  /\ \E a \in archivos :
       jobEnviado' = [t \in Tarea |-> IF ArchivoDe[t] = a THEN -1 ELSE jobEnviado[t]]
  /\ UNCHANGED <<marta, estadoCopia, contTareas, parcialReduce, totales, aJob>>

(* A recv of MaRTA is one of three: it answers an OK, it closes the Job or *)
(* it drops something else; it never misses the block of an OK, nor finds  *)
(* the Job closed twice.                                                   *)
LEMMA MartaRecibeCasos ==
  ASSUME TypeInv, Pedidas, Etapas, Cuenta, UnTotal, MartaRecibe
  PROVE  /\ marta = "recibe" /\ 1 \in DOMAIN aMarta
         /\ UNCHANGED <<colaVars, hiloVars, nodoVars, vivo, pendiente, buffer,
                        semaforoMarta, semaforoNodo, fallas>>
         /\ \/ \E t \in Tarea : EnAMarta(1) /\ aMarta[1].tarea = t /\ ConOk(t) /\ Responde(t)
            \/ CierraJob
            \/ ~EnAMarta(1) /\ SinEfecto
<1>1. /\ marta = "recibe" /\ 1 \in DOMAIN aMarta
      /\ UNCHANGED <<colaVars, hiloVars, nodoVars, vivo, pendiente, buffer,
                     semaforoMarta, semaforoNodo, fallas>>
  BY DEF MartaRecibe, TypeInv, TypeOK
<1>2. aMarta[1] \in MensajesAMarta
  BY <1>1 DEF TypeInv, TypeOK
<1>3. CASE aMarta[1].tipo = "ok"
  <2>. DEFINE t == aMarta[1].tarea
  <2>1. t \in Tarea /\ EnAMarta(1) /\ ConOk(t)
    BY <1>1, <1>2, <1>3, Mensajes DEF EnAMarta, ConOk
  <2>2. archivos # {}
    <3>. SUFFICES ASSUME archivos = {}
                  PROVE  FALSE
      OBVIOUS
    <3>1. t \in Listas
      BY <2>1 DEF UnTotal, Cuenta
    <3>2. estadoCopia[t] >= IF Combiner THEN 2 ELSE 1
      BY <3>1 DEF Listas
    <3>3. estadoCopia[t] = 0 \/ (Combiner /\ estadoCopia[t] = 1)
      BY <2>1 DEF Etapas
    <3>. QED
      BY <3>2, <3>3
  <2>3. ReciboOk(t)
    BY <1>3, <2>2 DEF MartaRecibe
  <2>4. Responde(t)
    BY <2>1, <2>2, <2>3, ReciboOkResponde
  <2>. QED
    BY <1>1, <2>1, <2>4
<1>4. CASE aMarta[1].tipo = "fin"
  <2>1. Fin(1) /\ archivos # {}
    BY <1>1, <1>4 DEF Fin, UnTotal
  <2>2. ReducesOk
    BY <1>4 DEF MartaRecibe
  <2>3. CierraJob
    BY <2>1, <2>2 DEF ReducesOk, CierraJob
  <2>. QED
    BY <1>1, <2>3
<1>5. CASE aMarta[1].tipo \notin {"ok", "fin"}
  <2>1. SinEfecto
    BY <1>5 DEF MartaRecibe
  <2>. QED
    BY <1>1, <1>5, <2>1 DEF EnAMarta
<1>. QED
  BY <1>3, <1>4, <1>5

(* What is left of the socket after that recv was there before it.         *)
LEMMA QuedaEnAMarta ==
  ASSUME TypeInv, MartaRecibe
  PROVE  \E k \in Nat : k > 0 /\ \A i \in Nat :
           /\ i + k \in Nat
           /\ i \in DOMAIN aMarta' =>
                i > 0 /\ i + k \in DOMAIN aMarta /\ aMarta'[i] = aMarta[i + k]
<1>1. aMarta \in Seq(MensajesAMarta)
  BY DEF TypeInv, TypeOK
<1>2. PICK k \in 1..Len(aMarta) : aMarta' = Resto(aMarta, k)
  BY DEF MartaRecibe
<1>3. \A i \in Nat : i \in DOMAIN aMarta' =>
         i > 0 /\ i + k \in DOMAIN aMarta /\ aMarta'[i] = aMarta[i + k]
  BY <1>1, <1>2, RestoSinNuevos
<1>4. k \in Nat /\ k > 0 /\ \A i \in Nat : i + k \in Nat
  BY <1>1
<1>. QED
  BY <1>3, <1>4

(* An OK that was answered, or the end that was told, was the only one.    *)
LEMMA Consumido ==
  ASSUME TypeInv, MartaRecibe
  PROVE  /\ SoloUno /\ EnAMarta(1) => \A i \in Nat : ~EnAMarta(i)'
         /\ UnTotal /\ Fin(1) => \A i \in Nat : ~Fin(i)'
         /\ \A t \in Tarea : ConOk(t)' => ConOk(t)
         /\ \A i \in Nat : Fin(i)' => \E j \in Nat : Fin(j)
         /\ UnTotal => \A i, j \in Nat : Fin(i)' /\ Fin(j)' => i = j
<1>1. PICK k \in Nat : k > 0 /\ \A i \in Nat :
           /\ i + k \in Nat
           /\ i \in DOMAIN aMarta' =>
                i > 0 /\ i + k \in DOMAIN aMarta /\ aMarta'[i] = aMarta[i + k]
  BY QuedaEnAMarta
<1>2. \A i \in Nat : EnAMarta(i)' => i > 0 /\ i + k \in Nat /\ EnAMarta(i + k)
                                     /\ aMarta'[i] = aMarta[i + k]
  BY <1>1 DEF EnAMarta
<1>3. \A i \in Nat : Fin(i)' => i > 0 /\ i + k \in Nat /\ Fin(i + k)
  BY <1>1 DEF Fin
<1>4. SoloUno /\ EnAMarta(1) => \A i \in Nat : ~EnAMarta(i)'
  <2>1. SoloUno => \A i, j \in Nat : EnAMarta(i) /\ EnAMarta(j) => i = j
    BY DEF SoloUno
  <2>. QED
    BY <1>1, <1>2, <2>1
<1>5. UnTotal => \A i, j \in Nat : Fin(i) /\ Fin(j) => i = j
  BY DEF UnTotal
<1>6. UnTotal /\ Fin(1) => \A i \in Nat : ~Fin(i)'
  BY <1>1, <1>3, <1>5
<1>7. \A t \in Tarea : ConOk(t)' => ConOk(t)
  BY <1>2 DEF ConOk
<1>8. UnTotal => \A i, j \in Nat : Fin(i)' /\ Fin(j)' => i = j
  BY <1>1, <1>3, <1>5
<1>. QED
  BY <1>3, <1>4, <1>6, <1>7, <1>8

-----------------------------------------------------------------------------

(* MaRTA sends a task only when the Job has nothing left to hand over.     *)
LEMMA Tranquilo ==
  ASSUME Pausa, MartaDuerme
  PROVE  /\ aJob = <<>> /\ pendiente = Vacio
         /\ \A i \in Nat : ~EnSocket(i)
         /\ \A h \in Hilo : ~Nace(h)
BY DEF MartaDuerme, JobTranquilo, EnSocket, Nace

(* Only these steps change what is on its way to a thread.                 *)
LEMMA TocanLaEntrega ==
  TypeInv /\ [Next]_vars =>
    \/ /\ UNCHANGED <<aJob, pendiente, buffer>>
       /\ \A h \in Hilo : Nace(h)' <=> Nace(h)
       /\ marta' = "recibe" => marta = "recibe"
    \/ \E t \in Tarea : MartaEnviaMap(t)
    \/ MartaEnviaMas
    \/ MartaRecibe
    \/ MartaCredito
    \/ JobRecibe
    \/ JobDespacha
    \/ \E h \in Hilo : HiloCopia(h)
<1>. SUFFICES ASSUME TypeInv, [Next]_vars
              PROVE  \/ /\ UNCHANGED <<aJob, pendiente, buffer>>
                        /\ \A h \in Hilo : Nace(h)' <=> Nace(h)
                        /\ marta' = "recibe" => marta = "recibe"
                     \/ \E t \in Tarea : MartaEnviaMap(t)
                     \/ MartaEnviaMas
                     \/ MartaRecibe
                     \/ MartaCredito
                     \/ JobRecibe
                     \/ JobDespacha
                     \/ \E h \in Hilo : HiloCopia(h)
  OBVIOUS
<1>. DEFINE Quieta == /\ UNCHANGED <<aJob, pendiente, buffer>>
                      /\ \A h \in Hilo : Nace(h)' <=> Nace(h)
                      /\ marta' = "recibe" => marta = "recibe"
<1>. USE DEF Nace, TypeInv, TypeOK
<1>1. CASE MartaPierdeJob \/ MartaMuere
  BY <1>1 DEF MartaPierdeJob, MartaMuere, hiloVars
<1>2. CASE JobPierdeMarta
  BY <1>2 DEF JobPierdeMarta, hiloVars, martaVars
<1>3. CASE EnvioPaso
  BY <1>3 DEF EnvioPaso, EnvioEsperaMarta, EnvioEsperaLista, EnvioManda, hiloVars, martaVars
<1>4. ASSUME NEW h \in Hilo,
             \/ HiloSaluda(h) \/ HiloEntrega(h) \/ NodoTermina(h) \/ HiloEncola(h)
             \/ HiloAvisaFin(h) \/ HiloAvisaError(h) \/ HiloDevuelve(h)
             \/ HiloNoConecta(h)
      PROVE  Quieta
  BY <1>4 DEF HiloSaluda, HiloEntrega, NodoTermina, HiloEncola, HiloAvisaFin, HiloAvisaError,
              HiloDevuelve, HiloNoConecta, Va, martaVars
<1>5. ASSUME NEW h \in Hilo, HiloAborta(h) \/ NodoFalla(h)
      PROVE  Quieta
  BY <1>5 DEF HiloAborta, NodoFalla, Va, hiloVars, martaVars
<1>6. CASE UNCHANGED vars
  BY <1>6 DEF vars, hiloVars, martaVars
<1>. HIDE DEF Nace, TypeInv, TypeOK
<1>. QED
  BY <1>1, <1>2, <1>3, <1>4, <1>5, <1>6 DEF Next, MartaPaso, HiloPaso

-----------------------------------------------------------------------------

(* What MaRTA sends when nothing was on its way: at most one message, and  *)
(* MaRTA does not wait for an answer unless it is the credit.              *)
LEMMA EntregaNueva ==
  ASSUME TypeInv, NEW m \in MensajesAJob, aJob' = Append(aJob, m),
         \A i \in Nat : ~EnSocket(i), pendiente = Vacio, \A h \in Hilo : ~Nace(h),
         UNCHANGED <<pendiente, buffer, hilo>>,
         DeTarea(m) => marta' # "recibe"
  PROVE  /\ UnaEntrega'
         /\ \A n : EnCamino(n)' => n = m /\ DeTarea(m)
<1>1. \A i \in Nat : EnSocket(i)' => i = Len(aJob) + 1 /\ DeTarea(m) /\ aJob'[i] = m
  BY EnviaAJob
<1>2. pendiente' = Vacio /\ \A h \in Hilo : ~Nace(h)'
  BY DEF Nace
<1>. QED
  BY <1>1, <1>2 DEF UnaEntrega, EnCamino

Camina == TypeInv /\ UnaEntrega /\ Pedidas /\ Etapas /\ Cuenta /\ UnTotal

(* A message is handed over once: it is on its way in one place, and none  *)
(* starts before the one ahead was taken.                                  *)
LEMMA UnaEntregaStep ==
  ASSUME Pausa, Camina, [Next]_vars
  PROVE  UnaEntrega'
<1>. USE DEF Camina
<1>1. CASE /\ UNCHANGED <<aJob, pendiente, buffer>>
           /\ \A h \in Hilo : Nace(h)' <=> Nace(h)
           /\ marta' = "recibe" => marta = "recibe"
  BY <1>1 DEF UnaEntrega, EnSocket
<1>2. ASSUME NEW t \in Tarea, MartaEnviaMap(t)
      PROVE  UnaEntrega'
  BY <1>2, Tranquilo, EntregaNueva, Mensajes DEF MartaEnviaMap, hiloVars
<1>3. CASE MartaEnviaMas
  BY <1>3, Tranquilo, EntregaNueva, Mensajes, Clave DEF MartaEnviaMas, hiloVars
<1>4. CASE MartaCredito
  BY <1>4, Tranquilo, EntregaNueva, Mensajes, Clave DEF MartaCredito, hiloVars
<1>5. CASE MartaRecibe
  <2>1. /\ marta = "recibe"
        /\ UNCHANGED <<pendiente, buffer, hilo>>
        /\ \/ \E t \in Tarea : Responde(t)
           \/ CierraJob
           \/ SinEfecto
    BY <1>5, MartaRecibeCasos DEF hiloVars
  <2>2. (\A i \in Nat : ~EnSocket(i)) /\ pendiente = Vacio /\ \A h \in Hilo : ~Nace(h)
    BY <2>1 DEF UnaEntrega
  <2>3. CASE UNCHANGED aJob
    BY <2>1, <2>2, <2>3 DEF UnaEntrega, EnSocket, Nace
  <2>4. ASSUME NEW t \in Tarea, Responde(t), PideTotal \/ PideLocal(t)
        PROVE  UnaEntrega'
    BY <2>1, <2>2, <2>4, EntregaNueva, Mensajes DEF Responde, PideTotal, PideLocal
  <2>. QED
    BY <2>1, <2>3, <2>4 DEF Responde, CierraJob, SinEfecto
<1>6. CASE JobRecibe
  <2>1. /\ pendiente = Vacio
        /\ UNCHANGED <<marta, buffer, hilo>>
    BY <1>6 DEF JobRecibe, martaVars, hiloVars
  <2>2. pendiente' # Vacio => EnSocket(1) /\ DeTarea(pendiente')
    BY <1>6, RecibeDeMarta
  <2>3. PICK k \in Nat : k > 0 /\ \A i \in Nat : EnSocket(i)' =>
              i > 0 /\ i + k \in Nat /\ EnSocket(i + k) /\ aJob'[i] = aJob[i + k]
    BY <1>6, RecibeDeMarta
  <2>4. \A i, j \in Nat : EnSocket(i) /\ EnSocket(j) => i = j
    BY DEF UnaEntrega
  <2>5. \A i, j \in Nat : EnSocket(i)' /\ EnSocket(j)' => i = j
    BY <2>3, <2>4
  <2>6. \A i \in Nat : EnSocket(i)' => pendiente' = Vacio
    BY <2>2, <2>3, <2>4
  <2>7. (\E i \in Nat : EnSocket(i)) => marta # "recibe" /\ \A h \in Hilo : ~Nace(h)
    BY DEF UnaEntrega
  <2>8. \A i \in Nat : EnSocket(i)' => \E j \in Nat : EnSocket(j)
    BY <2>3
  <2>9. \A h \in Hilo : Nace(h)' <=> Nace(h)
    BY <2>1 DEF Nace
  <2>. QED
    BY <2>1, <2>2, <2>5, <2>6, <2>7, <2>8, <2>9 DEF UnaEntrega
<1>7. CASE JobDespacha
  <2>1. /\ pendiente # Vacio /\ pendiente' = Vacio /\ buffer' = pendiente
        /\ UNCHANGED <<marta, aJob>>
        /\ hilo' = [hilo EXCEPT ![hilos + 1] = "nace"]
    BY <1>7 DEF JobDespacha, martaVars
  <2>2. marta # "recibe" /\ DeTarea(pendiente) /\ \A h \in Hilo : ~Nace(h)
    BY <2>1 DEF UnaEntrega
  <2>3. \A i \in Nat : ~EnSocket(i)'
    BY <2>1 DEF UnaEntrega, EnSocket
  <2>4. \A h \in Hilo : Nace(h)' => h = hilos + 1
    BY <2>1, <2>2 DEF Nace, TypeInv, TypeOK
  <2>. QED
    BY <2>1, <2>2, <2>3, <2>4 DEF UnaEntrega
<1>8. ASSUME NEW h \in Hilo, HiloCopia(h)
      PROVE  UnaEntrega'
  <2>1. /\ hilo[h] = "nace" /\ hilo' = [hilo EXCEPT ![h] = "conecta"]
        /\ UNCHANGED <<marta, aJob, pendiente, buffer>>
    BY <1>8 DEF HiloCopia, Va, martaVars
  <2>2. Nace(h) /\ \A g \in Hilo : ~Nace(g)'
    BY <2>1 DEF Nace, UnaEntrega, TypeInv, TypeOK
  <2>. QED
    BY <2>1, <2>2 DEF UnaEntrega, EnSocket
<1>. QED
  BY <1>1, <1>2, <1>3, <1>4, <1>5, <1>6, <1>7, <1>8, TocanLaEntrega

(* A message appears on its way only when MaRTA sends it: the map of a     *)
(* task not sent before, a local reduce not asked for, the total reduce.   *)
LEMMA Nueva ==
  ASSUME Pausa, Camina, [Next]_vars, NEW m \in MensajesAJob, EnCamino(m)'
  PROVE  \/ EnCamino(m)
         \/ \E t \in Tarea : MartaEnviaMap(t) /\ m = Mensaje("map", t)
         \/ /\ MartaRecibe
            /\ \E t \in Tarea :
                 /\ EnAMarta(1) /\ aMarta[1].tarea = t /\ ConOk(t) /\ Responde(t)
                 /\ \/ PideTotal /\ m = Total
                    \/ PideLocal(t) /\ m = Mensaje("reduce", t)
<1>. USE DEF Camina
<1>1. CASE /\ UNCHANGED <<aJob, pendiente, buffer>>
           /\ \A h \in Hilo : Nace(h)' <=> Nace(h)
           /\ marta' = "recibe" => marta = "recibe"
  BY <1>1 DEF EnCamino, EnSocket
<1>2. ASSUME NEW t \in Tarea, MartaEnviaMap(t)
      PROVE  m = Mensaje("map", t)
  BY <1>2, Tranquilo, EntregaNueva, Mensajes DEF MartaEnviaMap, hiloVars
<1>3. CASE MartaEnviaMas
  BY <1>3, Tranquilo, EntregaNueva, Mensajes, Clave DEF MartaEnviaMas, hiloVars
<1>4. CASE MartaCredito
  BY <1>4, Tranquilo, EntregaNueva, Mensajes, Clave DEF MartaCredito, hiloVars
<1>5. CASE MartaRecibe
  <2>1. /\ marta = "recibe"
        /\ UNCHANGED <<pendiente, buffer, hilo>>
        /\ \/ \E t \in Tarea : EnAMarta(1) /\ aMarta[1].tarea = t /\ ConOk(t) /\ Responde(t)
           \/ CierraJob
           \/ SinEfecto
    BY <1>5, MartaRecibeCasos DEF hiloVars
  <2>2. (\A i \in Nat : ~EnSocket(i)) /\ pendiente = Vacio /\ \A h \in Hilo : ~Nace(h)
    BY <2>1 DEF UnaEntrega
  <2>3. ~UNCHANGED aJob
    BY <2>1, <2>2 DEF EnCamino, EnSocket, Nace
  <2>4. PICK t \in Tarea : EnAMarta(1) /\ aMarta[1].tarea = t /\ ConOk(t) /\ Responde(t)
    BY <2>1, <2>3 DEF CierraJob, SinEfecto
  <2>5. CASE PideTotal
    <3>1. m = Total
      BY <2>1, <2>2, <2>4, <2>5, EntregaNueva, Mensajes DEF Responde, PideTotal
    <3>. QED
      BY <1>5, <2>4, <2>5, <3>1
  <2>6. CASE PideLocal(t)
    <3>1. m = Mensaje("reduce", t)
      BY <2>1, <2>2, <2>4, <2>6, EntregaNueva, Mensajes DEF Responde, PideLocal
    <3>. QED
      BY <1>5, <2>4, <2>6, <3>1
  <2>. QED
    BY <2>3, <2>4, <2>5, <2>6 DEF Responde
<1>6. CASE JobRecibe
  <2>1. UNCHANGED <<buffer, hilo>>
    BY <1>6 DEF JobRecibe, hiloVars
  <2>2. pendiente' # Vacio => EnSocket(1) /\ pendiente' = aJob[1]
    BY <1>6, RecibeDeMarta
  <2>3. PICK k \in Nat : k > 0 /\ \A i \in Nat : EnSocket(i)' =>
              i > 0 /\ i + k \in Nat /\ EnSocket(i + k) /\ aJob'[i] = aJob[i + k]
    BY <1>6, RecibeDeMarta
  <2>. QED
    BY <2>1, <2>2, <2>3 DEF EnCamino, Nace
<1>7. CASE JobDespacha
  <2>1. /\ pendiente # Vacio /\ pendiente' = Vacio /\ buffer' = pendiente
        /\ UNCHANGED aJob
    BY <1>7 DEF JobDespacha
  <2>. QED
    BY <2>1 DEF EnCamino, EnSocket
<1>8. ASSUME NEW h \in Hilo, HiloCopia(h)
      PROVE  EnCamino(m)
  <2>1. /\ hilo[h] = "nace" /\ hilo' = [hilo EXCEPT ![h] = "conecta"]
        /\ UNCHANGED <<marta, aJob, pendiente, buffer>>
    BY <1>8 DEF HiloCopia, Va, martaVars
  <2>2. Nace(h)
    BY <2>1 DEF Nace
  <2>. QED
    BY <2>1, <2>2 DEF EnCamino, EnSocket
<1>. QED
  BY <1>1, <1>2, <1>3, <1>4, <1>5, <1>6, <1>7, <1>8, TocanLaEntrega

-----------------------------------------------------------------------------

(* Which steps change what MaRTA remembers of the tasks.                   *)
LEMMA PasosDeMarta ==
  Camina /\ [Next]_vars =>
    \/ UNCHANGED <<jobEnviado, estadoCopia, contTareas, parcialReduce, archivos, totales>>
    \/ \E t \in Tarea : MartaEnviaMap(t)
    \/ /\ MartaRecibe
       /\ \/ \E t \in Tarea : EnAMarta(1) /\ aMarta[1].tarea = t /\ ConOk(t) /\ Responde(t)
          \/ CierraJob
<1>. SUFFICES ASSUME Camina, [Next]_vars,
                     ~UNCHANGED <<jobEnviado, estadoCopia, contTareas, parcialReduce,
                                  archivos, totales>>
              PROVE  \/ \E t \in Tarea : MartaEnviaMap(t)
                     \/ /\ MartaRecibe
                        /\ \/ \E t \in Tarea : /\ EnAMarta(1) /\ aMarta[1].tarea = t
                                               /\ ConOk(t) /\ Responde(t)
                           \/ CierraJob
  OBVIOUS
<1>1. (\E t \in Tarea : MartaEnviaMap(t)) \/ MartaRecibe
  BY DEF Next, MartaPaso, EnvioPaso, HiloPaso, MartaEnviaMas,
       MartaCredito, MartaPierdeJob, MartaMuere, JobRecibe, JobPierdeMarta, JobDespacha,
       EnvioEsperaMarta, EnvioEsperaLista, EnvioManda, HiloCopia, HiloEncola,
       HiloNoConecta, HiloSaluda, HiloEntrega, NodoTermina, NodoFalla, HiloAvisaFin,
       HiloAvisaError, HiloDevuelve, HiloAborta, vars, martaVars
<1>2. ASSUME MartaRecibe
      PROVE  \/ \E t \in Tarea : EnAMarta(1) /\ aMarta[1].tarea = t /\ ConOk(t) /\ Responde(t)
             \/ CierraJob
  BY <1>2, MartaRecibeCasos DEF Camina, SinEfecto
<1>. QED
  BY <1>1, <1>2

(* The nodes only run what a thread of the Job waits for.                  *)
LEMMA PasosDelNodo ==
  [Next]_vars => UNCHANGED nodoVars \/ \E h \in Hilo : NodoTermina(h)
BY DEF Next, MartaPaso, EnvioPaso, HiloPaso, MartaEnviaMas, MartaEnviaMap, MartaRecibe,
       MartaCredito, MartaPierdeJob, MartaMuere, JobRecibe, JobPierdeMarta, JobDespacha,
       EnvioEsperaMarta, EnvioEsperaLista, EnvioManda, HiloCopia, HiloEncola,
       HiloNoConecta, HiloSaluda, HiloEntrega, NodoFalla, HiloAvisaFin,
       HiloAvisaError, HiloDevuelve, HiloAborta, vars

(* Threads are created by main() and read their message once.              *)
LEMMA PasosDeHilos ==
  TypeInv /\ [Next]_vars =>
    \/ /\ UNCHANGED <<hilos, leido>>
       /\ \A h \in Hilo : /\ hilo'[h] = "no" <=> hilo[h] = "no"
                          /\ hilo'[h] = "nace" <=> hilo[h] = "nace"
                          /\ Activo(h)' => Activo(h)
    \/ JobDespacha
    \/ \E h \in Hilo : HiloCopia(h)
<1>. SUFFICES ASSUME TypeInv, [Next]_vars
              PROVE  \/ /\ UNCHANGED <<hilos, leido>>
                        /\ \A h \in Hilo : /\ hilo'[h] = "no" <=> hilo[h] = "no"
                                           /\ hilo'[h] = "nace" <=> hilo[h] = "nace"
                                           /\ Activo(h)' => Activo(h)
                     \/ JobDespacha
                     \/ \E h \in Hilo : HiloCopia(h)
  OBVIOUS
<1>. DEFINE Sigue == /\ UNCHANGED <<hilos, leido>>
                     /\ \A h \in Hilo : /\ hilo'[h] = "no" <=> hilo[h] = "no"
                                        /\ hilo'[h] = "nace" <=> hilo[h] = "nace"
                                        /\ Activo(h)' => Activo(h)
<1>. USE DEF TypeInv, TypeOK, Activo
<1>1. CASE UNCHANGED hiloVars
  BY <1>1 DEF hiloVars
<1>2. ASSUME NEW h \in Hilo,
             \/ HiloSaluda(h) \/ HiloEntrega(h) \/ NodoTermina(h) \/ HiloEncola(h)
             \/ HiloAvisaFin(h) \/ HiloAvisaError(h) \/ HiloDevuelve(h)
             \/ HiloNoConecta(h)
      PROVE  Sigue
  BY <1>2 DEF HiloSaluda, HiloEntrega, NodoTermina, HiloEncola, HiloAvisaFin, HiloAvisaError,
              HiloDevuelve, HiloNoConecta, Va
<1>3. ASSUME NEW h \in Hilo, NodoFalla(h)
      PROVE  Sigue
  BY <1>3 DEF NodoFalla, Va
<1>. HIDE DEF Activo, TypeInv, TypeOK
<1>4. \/ UNCHANGED hiloVars
      \/ JobDespacha
      \/ \E h \in Hilo : \/ HiloSaluda(h) \/ HiloEntrega(h) \/ NodoTermina(h) \/ HiloEncola(h)
                         \/ HiloAvisaFin(h) \/ HiloAvisaError(h) \/ HiloDevuelve(h)
                         \/ HiloNoConecta(h) \/ NodoFalla(h) \/ HiloCopia(h)
  BY DEF Next, MartaPaso, EnvioPaso, HiloPaso, MartaEnviaMas, MartaEnviaMap, MartaRecibe,
       MartaCredito, MartaPierdeJob, MartaMuere, JobRecibe, JobPierdeMarta,
       EnvioEsperaMarta, EnvioEsperaLista, EnvioManda, HiloAborta, vars
<1>. QED
  BY <1>1, <1>2, <1>3, <1>4

(* What MaRTA asked for once it remembers.                                 *)
LEMMA MartaRecuerda ==
  ASSUME Camina, [Next]_vars
  PROVE  /\ \A t \in Tarea : jobEnviado[t] # 0 => jobEnviado'[t] # 0
         /\ parcialReduce \subseteq parcialReduce'
         /\ totales' \in Nat /\ (totales > 0 => totales' > 0)
<1>. USE DEF Camina, TypeInv, TypeOK
<1>1. ASSUME NEW t \in Tarea, MartaEnviaMap(t)
      PROVE  /\ \A u \in Tarea : jobEnviado[u] # 0 => jobEnviado'[u] # 0
             /\ UNCHANGED <<parcialReduce, totales>>
  BY <1>1 DEF MartaEnviaMap
<1>2. ASSUME NEW t \in Tarea, Responde(t)
      PROVE  /\ \A u \in Tarea : jobEnviado[u] # 0 => jobEnviado'[u] # 0
             /\ parcialReduce \subseteq parcialReduce'
             /\ totales = 0 /\ totales' \in {0, 1}
  BY <1>2 DEF Responde, PideTotal, PideLocal
<1>3. ASSUME CierraJob
      PROVE  /\ \A u \in Tarea : jobEnviado[u] # 0 => jobEnviado'[u] # 0
             /\ UNCHANGED <<parcialReduce, totales>>
  BY <1>3 DEF CierraJob
<1>4. totales \in Nat
  OBVIOUS
<1>. HIDE DEF Camina, TypeInv, TypeOK
<1>. QED
  BY <1>1, <1>2, <1>3, <1>4, PasosDeMarta

LEMMA PedidaSigue ==
  ASSUME Camina, [Next]_vars, NEW m \in MensajesAJob \cup {Vacio}, Pedida(m)
  PROVE  Pedida(m)'
BY MartaRecuerda, Clave DEF Pedida

-----------------------------------------------------------------------------

LEMMA NuevaNoLeida ==
  ASSUME Pausa, Camina, Leidos, [Next]_vars, NEW m \in MensajesAJob, EnCamino(m)', ~EnCamino(m)
  PROVE  \A h \in Hilo : leido[h] # m
<1>. SUFFICES ASSUME NEW h \in Hilo, leido[h] = m
              PROVE  FALSE
  OBVIOUS
<1>1. Pedida(m)
  BY DEF Camina, Pedidas
<1>2. \/ \E t \in Tarea : MartaEnviaMap(t) /\ m = Mensaje("map", t)
      \/ \E t \in Tarea : /\ Responde(t)
                          /\ \/ PideTotal /\ m = Total
                             \/ PideLocal(t) /\ m = Mensaje("reduce", t)
  BY Nueva
<1>3. \A t \in parcialReduce : jobEnviado[t] \in {2, -1}
  BY DEF Camina, Pedidas
<1>. QED
  BY <1>1, <1>2, <1>3, Clave DEF Pedida, MartaEnviaMap, Responde, PideLocal

LEMMA HiloCopiaTomaTodo ==
  ASSUME Camina, NEW h \in Hilo, HiloCopia(h)
  PROVE  /\ EnCamino(buffer) /\ DeTarea(buffer) /\ buffer \in MensajesAJob
         /\ \A m : ~EnCamino(m)'
         /\ hilo[h] = "nace" /\ hilo' = [hilo EXCEPT ![h] = "conecta"]
         /\ leido' = [leido EXCEPT ![h] = buffer]
         /\ UNCHANGED <<martaVars, colaVars, nodoVars, hilos, vivo, pendiente, buffer,
                        semaforoMarta, semaforoNodo, aMarta, aJob, fallas>>
<1>. USE DEF Camina, TypeInv, TypeOK
<1>1. /\ hilo[h] = "nace" /\ hilo' = [hilo EXCEPT ![h] = "conecta"]
      /\ leido' = [leido EXCEPT ![h] = buffer]
      /\ UNCHANGED <<martaVars, colaVars, nodoVars, hilos, vivo, pendiente, buffer,
                     semaforoMarta, semaforoNodo, aMarta, aJob, fallas>>
  BY DEF HiloCopia, Va
<1>2. Nace(h) /\ \A g \in Hilo : ~Nace(g)'
  BY <1>1 DEF Nace, UnaEntrega
<1>3. (\A i \in Nat : ~EnSocket(i)) /\ pendiente = Vacio
  BY <1>2 DEF UnaEntrega
<1>4. \A m : ~EnCamino(m)'
  BY <1>1, <1>2, <1>3 DEF EnCamino, EnSocket
<1>5. EnCamino(buffer) /\ DeTarea(buffer)
  BY <1>2 DEF EnCamino, UnaEntrega
<1>6. buffer \in MensajesAJob
  BY <1>5, Clave
<1>. QED
  BY <1>1, <1>4, <1>5, <1>6

(* No two threads read the same message, and none is read twice.           *)
LEMMA LeidosStep ==
  ASSUME Pausa, Camina, TypeInv', Leidos, [Next]_vars
  PROVE  Leidos'
<1>. USE DEF Camina, TypeInv, TypeOK
<1>1. UnaEntrega'
  BY UnaEntregaStep
<1>2. ~EnCamino(Vacio)'
  <2>1. ~DeTarea(Vacio)
    BY Clave
  <2>. QED
    BY <1>1, <2>1 DEF EnCamino, UnaEntrega, EnSocket, DeTarea
<1>3. CASE /\ UNCHANGED <<hilos, leido>>
           /\ \A h \in Hilo : /\ hilo'[h] = "no" <=> hilo[h] = "no"
                              /\ hilo'[h] = "nace" <=> hilo[h] = "nace"
  <2>1. \A h \in Hilo : ~EnCamino(leido[h])'
    <3>. SUFFICES ASSUME NEW h \in Hilo, EnCamino(leido[h])'
                  PROVE  FALSE
      OBVIOUS
    <3>0. leido'[h] = leido[h]
      BY <1>3
    <3>1. leido[h] \in MensajesAJob
      BY <1>2, <3>0
    <3>2. ~EnCamino(leido[h])
      BY DEF Leidos
    <3>. PICK m \in MensajesAJob : m = leido[h]
      BY <3>1
    <3>3. m = leido'[h] /\ EnCamino(m)' /\ ~EnCamino(m)
      BY <3>0, <3>2 DEF EnCamino
    <3>. QED
      BY <3>3, NuevaNoLeida
  <2>. QED
    BY <1>3, <2>1 DEF Leidos
<1>4. CASE JobDespacha
  <2>1. /\ hilos < MaxHilos /\ hilos' = hilos + 1
        /\ hilo' = [hilo EXCEPT ![hilos + 1] = "nace"]
        /\ UNCHANGED leido
    BY <1>4 DEF JobDespacha
  <2>2. hilos + 1 \in Hilo /\ hilo[hilos + 1] = "no" /\ leido[hilos + 1] = Vacio
    BY <2>1, TareaAssumption DEF Hilo, Leidos
  <2>3. \A h \in Hilo : ~EnCamino(leido[h])'
    BY <1>4 DEF JobDespacha, Leidos, EnCamino, EnSocket, Nace
  <2>. QED
    BY <2>1, <2>2, <2>3 DEF Leidos, Hilo
<1>5. ASSUME NEW h \in Hilo, HiloCopia(h)
      PROVE  Leidos'
  <2>1. /\ EnCamino(buffer) /\ DeTarea(buffer)
        /\ \A m : ~EnCamino(m)'
        /\ hilo[h] = "nace" /\ hilo' = [hilo EXCEPT ![h] = "conecta"]
        /\ leido' = [leido EXCEPT ![h] = buffer]
        /\ UNCHANGED hilos
    BY <1>5, HiloCopiaTomaTodo
  <2>2. \A g \in Hilo : leido[g] # buffer
    BY <2>1 DEF Leidos
  <2>. QED
    BY <2>1, <2>2 DEF Leidos
<1>. QED
  BY <1>3, <1>4, <1>5, PasosDeHilos

(* What is on its way, or was read, was asked for.                         *)
LEMMA PedidasStep ==
  ASSUME Pausa, Camina, TypeInv', Leidos, [Next]_vars
  PROVE  Pedidas'
<1>. USE DEF Camina, TypeInv, TypeOK
<1>1. ASSUME NEW m \in MensajesAJob, EnCamino(m)'
      PROVE  Pedida(m)'
  <2>1. CASE EnCamino(m)
    BY <2>1, PedidaSigue DEF Pedidas
  <2>2. ASSUME NEW t \in Tarea, MartaEnviaMap(t), m = Mensaje("map", t)
        PROVE  Pedida(m)'
    BY <2>2, Clave DEF MartaEnviaMap, Pedida
  <2>3. CASE PideTotal /\ m = Total
    BY <2>3, Clave DEF PideTotal, Pedida
  <2>4. ASSUME NEW t \in Tarea, PideLocal(t), m = Mensaje("reduce", t)
        PROVE  Pedida(m)'
    BY <2>4, Clave DEF PideLocal, Pedida
  <2>. QED
    BY <1>1, <2>1, <2>2, <2>3, <2>4, Nueva
<1>2. ASSUME NEW h \in Hilo
      PROVE  Pedida(leido[h])'
  <2>1. Pedida(leido[h]) /\ leido[h] \in MensajesAJob \cup {Vacio}
    BY DEF Pedidas
  <2>2. CASE leido' = leido
    <3>1. \A n \in MensajesAJob \cup {Vacio} : Pedida(n) => Pedida(n)'
      BY PedidaSigue
    <3>. QED
      BY <2>1, <2>2, <3>1 DEF Pedida
  <2>3. ASSUME NEW g \in Hilo, HiloCopia(g)
        PROVE  Pedida(leido[h])'
    <3>1. EnCamino(buffer) /\ buffer \in MensajesAJob /\ UNCHANGED martaVars
          /\ leido' = [leido EXCEPT ![g] = buffer]
      BY <2>3, HiloCopiaTomaTodo
    <3>2. Pedida(buffer)
      BY <3>1 DEF Pedidas
    <3>. QED
      BY <2>1, <3>1, <3>2 DEF Pedida, martaVars
  <2>. QED
    BY <2>2, <2>3, PasosDeHilos DEF JobDespacha
<1>. DEFINE Memoria == /\ \A t \in parcialReduce : Combiner /\ jobEnviado[t] \in {2, -1}
                       /\ \A t \in Tarea : estadoCopia[t] # 0 => jobEnviado[t] # 0
<1>3. Memoria'
  <2>1. /\ \A t \in parcialReduce : Combiner /\ jobEnviado[t] \in {2, -1}
        /\ \A t \in Tarea : estadoCopia[t] # 0 => jobEnviado[t] # 0
        /\ parcialReduce \subseteq Tarea
    BY DEF Pedidas
  <2>2. CASE UNCHANGED <<jobEnviado, estadoCopia, contTareas, parcialReduce, archivos, totales>>
    BY <2>1, <2>2
  <2>3. ASSUME NEW t \in Tarea, MartaEnviaMap(t)
        PROVE  Memoria'
    BY <2>1, <2>3 DEF MartaEnviaMap
  <2>4. ASSUME NEW t \in Tarea, ConOk(t), Responde(t)
        PROVE  Memoria'
    <3>1. jobEnviado[t] # 0
      BY <2>4 DEF Etapas
    <3>2. \A u \in Tarea : estadoCopia'[u] # 0 => jobEnviado[u] # 0
      BY <2>1, <2>4, <3>1 DEF Responde
    <3>3. CASE UNCHANGED <<jobEnviado, parcialReduce>>
      BY <2>1, <3>2, <3>3
    <3>4. CASE PideLocal(t)
      BY <2>1, <3>2, <3>4 DEF PideLocal
    <3>. QED
      BY <2>4, <3>3, <3>4 DEF Responde, PideTotal
  <2>5. CASE CierraJob
    BY <2>1, <2>5 DEF CierraJob
  <2>. QED
    BY <2>2, <2>3, <2>4, <2>5, PasosDeMarta
<1>4. reduceHecho' \subseteq parcialReduce'
  <2>1. parcialReduce \subseteq parcialReduce'
    BY MartaRecuerda
  <2>2. ASSUME NEW h \in Hilo, NodoTermina(h)
        PROVE  reduceHecho' \subseteq parcialReduce
    BY <2>2 DEF NodoTermina, Pedidas, Pedida
  <2>. QED
    BY <2>1, <2>2, PasosDelNodo DEF nodoVars, Pedidas
<1>. QED
  BY <1>1, <1>2, <1>3, <1>4 DEF Pedidas

-----------------------------------------------------------------------------

(* Which steps change the socket to MaRTA.                                 *)
LEMMA PasosHaciaMarta ==
  [Next]_vars =>
    \/ UNCHANGED aMarta
    \/ MartaRecibe
    \/ EnvioManda /\ listaRMarta # <<>> /\ aMarta' = Append(aMarta, Mensaje("ok", Head(listaRMarta)))
    \/ \E h \in Hilo :
         \/ /\ HiloNoConecta(h)
            /\ aMarta' = aMarta \o <<Mensaje("uno", Nada), Mensaje("error", leido[h].tarea)>>
         \/ /\ HiloAvisaFin(h)
            /\ aMarta' = aMarta \o <<Mensaje("uno", Nada), Mensaje("fin", Nada)>>
         \/ /\ HiloAvisaError(h)
            /\ aMarta' = Append(aMarta, Mensaje("error", leido[h].tarea))
BY DEF Next, MartaPaso, EnvioPaso, HiloPaso, MartaEnviaMas, MartaEnviaMap,
       MartaCredito, MartaPierdeJob, MartaMuere, JobRecibe, JobPierdeMarta, JobDespacha,
       EnvioEsperaMarta, EnvioEsperaLista, EnvioManda, HiloCopia, HiloEncola,
       HiloNoConecta, HiloSaluda, HiloEntrega, NodoTermina, NodoFalla, HiloAvisaFin,
       HiloAvisaError, HiloDevuelve, HiloAborta, vars

(* The two messages of a thread that ends are no OK.                       *)
LEMMA DosMensajes ==
  ASSUME TypeInv, NEW a \in MensajesAMarta, NEW b \in MensajesAMarta, aMarta' = aMarta \o <<a, b>>
  PROVE  /\ a.tipo # "ok" /\ b.tipo # "ok" => \A i \in Nat : EnAMarta(i)' => EnAMarta(i)
         /\ a.tipo # "fin" => \A i \in Nat : Fin(i)' =>
              Fin(i) \/ (i = Len(aMarta) + 2 /\ b.tipo = "fin")
         /\ \A i \in Nat : i \in DOMAIN aMarta => aMarta'[i] = aMarta[i] /\ i \in DOMAIN aMarta'
<1>1. aMarta \in Seq(MensajesAMarta)
  BY DEF TypeInv, TypeOK
<1>2. /\ Len(aMarta') = Len(aMarta) + 2
      /\ \A i \in 1..Len(aMarta) : aMarta'[i] = aMarta[i]
      /\ aMarta'[Len(aMarta) + 1] = a
      /\ aMarta'[Len(aMarta) + 2] = b
      /\ aMarta' \in Seq(MensajesAMarta)
  BY <1>1
<1>3. DOMAIN aMarta' = 1..Len(aMarta') /\ DOMAIN aMarta = 1..Len(aMarta) /\ Len(aMarta) \in Nat
  BY <1>1, <1>2
<1>4. \A i \in DOMAIN aMarta' : i \in DOMAIN aMarta \/ i = Len(aMarta) + 1 \/ i = Len(aMarta) + 2
  BY <1>2, <1>3
<1>5. \A i \in DOMAIN aMarta : i \in DOMAIN aMarta' /\ aMarta'[i] = aMarta[i]
  BY <1>2, <1>3
<1>. QED
  BY <1>2, <1>4, <1>5 DEF EnAMarta, Fin

(* What is left of a list when its head goes.                              *)
LEMMA ColaQueda ==
  ASSUME NEW S, NEW s \in Seq(S), s # <<>>
  PROVE  /\ 1 \in DOMAIN s /\ s[1] = Head(s)
         /\ \A i \in DOMAIN Tail(s) :
              i \in Nat /\ i > 0 /\ i + 1 \in DOMAIN s /\ Tail(s)[i] = s[i + 1]
<1>1. /\ Tail(s) \in Seq(S) /\ Len(Tail(s)) = Len(s) - 1
      /\ \A i \in 1 .. Len(Tail(s)) : Tail(s)[i] = s[i + 1]
  BY HeadTailProperties
<1>2. DOMAIN Tail(s) = 1..Len(Tail(s)) /\ DOMAIN s = 1..Len(s) /\ Len(s) \in Nat
  BY <1>1
<1>3. 1 \in DOMAIN s /\ s[1] = Head(s)
  OBVIOUS
<1>. QED
  BY <1>1, <1>2, <1>3

(* A result is sent when it was first in lista_RMarta, and queued when a   *)
(* thread had it.                                                          *)
LEMMA PasosDeResultados ==
  ASSUME TypeInv, [Next]_vars, NEW t \in Tarea
  PROVE  /\ ConOk(t)' => \/ ConOk(t)
                         \/ EnvioManda /\ listaRMarta # <<>> /\ t = Head(listaRMarta)
         /\ EnLista(t)' => EnLista(t) \/ \E h \in Hilo : HiloEncola(h) /\ t = leido[h].tarea
<1>. USE DEF TypeInv, TypeOK
<1>1. ASSUME ConOk(t)', ~ConOk(t)
      PROVE  EnvioManda /\ listaRMarta # <<>> /\ t = Head(listaRMarta)
  <2>1. ~UNCHANGED aMarta
    BY <1>1 DEF ConOk, EnAMarta
  <2>2. ~MartaRecibe
    BY <1>1, Consumido
  <2>3. ASSUME NEW h \in Hilo,
               aMarta' = aMarta \o <<Mensaje("uno", Nada), Mensaje("error", leido[h].tarea)>>
        PROVE  FALSE
    <3>1. /\ Mensaje("error", leido[h].tarea) \in MensajesAMarta
          /\ Mensaje("uno", Nada) \in MensajesAMarta
      BY Mensajes
    <3>2. /\ \A i \in Nat : EnAMarta(i)' => EnAMarta(i)
          /\ \A i \in Nat : i \in DOMAIN aMarta => aMarta'[i] = aMarta[i] /\ i \in DOMAIN aMarta'
      BY <2>3, <3>1, DosMensajes, NadaNuevo
    <3>. QED
      BY <1>1, <3>2 DEF ConOk, EnAMarta
  <2>4. ASSUME NEW h \in Hilo,
               aMarta' = aMarta \o <<Mensaje("uno", Nada), Mensaje("fin", Nada)>>
        PROVE  FALSE
    <3>2. /\ \A i \in Nat : EnAMarta(i)' => EnAMarta(i)
          /\ \A i \in Nat : i \in DOMAIN aMarta => aMarta'[i] = aMarta[i] /\ i \in DOMAIN aMarta'
      BY <2>4, Mensajes, DosMensajes, NadaNuevo
    <3>. QED
      BY <1>1, <3>2 DEF ConOk, EnAMarta
  <2>5. ASSUME NEW h \in Hilo, aMarta' = Append(aMarta, Mensaje("error", leido[h].tarea))
        PROVE  FALSE
    <3>1. Mensaje("error", leido[h].tarea) \in MensajesAMarta
      BY Mensajes
    <3>2. \A i \in Nat : EnAMarta(i)' => EnAMarta(i) /\ aMarta'[i] = aMarta[i]
      BY <2>5, <3>1, EnviaAMarta, NadaNuevo DEF EnAMarta
    <3>. QED
      BY <1>1, <3>2 DEF ConOk
  <2>6. ASSUME listaRMarta # <<>>, aMarta' = Append(aMarta, Mensaje("ok", Head(listaRMarta)))
        PROVE  t = Head(listaRMarta)
    <3>1. Head(listaRMarta) \in Tarea
      BY <2>6, HeadTailProperties
    <3>2. Mensaje("ok", Head(listaRMarta)) \in MensajesAMarta
      BY <3>1, Mensajes
    <3>3. PICK i \in Nat : EnAMarta(i)' /\ aMarta'[i].tarea = t
      BY <1>1 DEF ConOk
    <3>4. i = Len(aMarta) + 1
      BY <1>1, <2>6, <3>2, <3>3, EnviaAMarta DEF ConOk, EnAMarta
    <3>. QED
      BY <2>6, <3>1, <3>2, <3>3, <3>4, EnviaAMarta, Clave
  <2>. QED
    BY <2>1, <2>2, <2>3, <2>4, <2>5, <2>6, PasosHaciaMarta
<1>2. ASSUME EnLista(t)', ~EnLista(t)
      PROVE  \E h \in Hilo : HiloEncola(h) /\ t = leido[h].tarea
  <2>1. ~UNCHANGED listaRMarta
    BY <1>2 DEF EnLista
  <2>2. ASSUME EnvioManda
        PROVE  FALSE
    <3>1. listaRMarta # <<>> /\ listaRMarta' = Tail(listaRMarta)
      BY <2>1, <2>2 DEF EnvioManda
    <3>2. \A i \in Nat : i \in DOMAIN listaRMarta' =>
             i + 1 \in Nat /\ i + 1 \in DOMAIN listaRMarta /\ listaRMarta'[i] = listaRMarta[i + 1]
      BY <3>1, ColaQueda
    <3>. QED
      BY <1>2, <3>2 DEF EnLista
  <2>3. PICK h \in Hilo : HiloEncola(h)
    BY <2>1, <2>2, TocanLaCola DEF colaVars, EnvioEsperaMarta, EnvioEsperaLista
  <2>4. listaRMarta' = Append(listaRMarta, leido[h].tarea) /\ leido[h].tarea \in Tarea
    BY <2>3, Mensajes DEF HiloEncola, SuTarea
  <2>5. \A i \in DOMAIN listaRMarta' : i = Len(listaRMarta) + 1 \/
           (i \in DOMAIN listaRMarta /\ listaRMarta'[i] = listaRMarta[i])
    BY <2>4, AgregaAlFinal
  <2>6. listaRMarta'[Len(listaRMarta) + 1] = leido[h].tarea
    BY <2>4, AgregaAlFinal
  <2>. QED
    BY <1>2, <2>3, <2>5, <2>6 DEF EnLista
<1>. QED
  BY <1>1, <1>2

(* A task comes to be in course only when MaRTA sends it.                  *)
LEMMA CursoNuevo ==
  ASSUME Pausa, Camina, [Next]_vars, NEW m \in MensajesAJob, EnCurso(m)'
  PROVE  \/ EnCurso(m)
         \/ \E t \in Tarea : MartaEnviaMap(t) /\ m = Mensaje("map", t)
         \/ /\ MartaRecibe
            /\ \E t \in Tarea :
                 /\ EnAMarta(1) /\ aMarta[1].tarea = t /\ ConOk(t) /\ Responde(t)
                 /\ \/ PideTotal /\ m = Total
                    \/ PideLocal(t) /\ m = Mensaje("reduce", t)
<1>1. CASE EnCamino(m)'
  BY <1>1, Nueva DEF EnCurso
<1>2. ASSUME NEW h \in Hilo, Activo(h)', leido'[h] = m
      PROVE  EnCurso(m)
  <2>. USE DEF Camina, TypeInv, TypeOK
  <2>1. CASE Activo(h) /\ leido'[h] = leido[h]
    BY <1>2, <2>1 DEF EnCurso
  <2>2. ASSUME JobDespacha
        PROVE  Activo(h) /\ leido'[h] = leido[h]
    BY <1>2, <2>2 DEF JobDespacha, Activo
  <2>3. ASSUME NEW g \in Hilo, HiloCopia(g)
        PROVE  EnCurso(m)
    <3>1. /\ EnCamino(buffer) /\ buffer \in MensajesAJob
          /\ hilo' = [hilo EXCEPT ![g] = "conecta"]
          /\ leido' = [leido EXCEPT ![g] = buffer]
      BY <2>3, HiloCopiaTomaTodo
    <3>2. CASE h = g
      BY <1>2, <3>1, <3>2 DEF EnCurso
    <3>3. CASE h # g
      BY <1>2, <3>1, <3>3 DEF EnCurso, Activo
    <3>. QED
      BY <3>2, <3>3
  <2>. QED
    BY <1>2, <2>1, <2>2, <2>3, PasosDeHilos
<1>. QED
  BY <1>1, <1>2 DEF EnCurso

-----------------------------------------------------------------------------

(* What ran on a node stays there.                                         *)
LEMMA NodoCrece ==
  ASSUME [Next]_vars
  PROVE  /\ reduceHecho \subseteq reduceHecho'
         /\ mapHecho \subseteq mapHecho'
         /\ totalHecho => totalHecho'
<1>1. ASSUME NEW h \in Hilo, NodoTermina(h)
      PROVE  /\ reduceHecho \subseteq reduceHecho'
             /\ mapHecho \subseteq mapHecho'
             /\ totalHecho => totalHecho'
  BY <1>1 DEF NodoTermina
<1>. QED
  BY <1>1, PasosDelNodo DEF nodoVars

(* An OK is answered once: the task whose OK MaRTA takes has no other      *)
(* result on its way.                                                      *)
LEMMA OkUnico ==
  ASSUME Camina, SoloUno, MartaRecibe, NEW t \in Tarea, EnAMarta(1), ConOk(t)
  PROVE  ~ConOk(t)' /\ ~EnLista(t)'
<1>1. \A i \in Nat : ~EnAMarta(i)'
  BY Consumido DEF Camina
<1>2. UNCHANGED listaRMarta
  BY DEF MartaRecibe, colaVars
<1>. QED
  BY <1>1, <1>2 DEF ConOk, EnLista, Camina, Etapas

(* The thread that queues a result was the one working on its task.        *)
LEMMA EncolaLoSuyo ==
  ASSUME Pausa, Camina, Leidos, Leidos', [Next]_vars, NEW h \in Hilo, HiloEncola(h)
  PROVE  LET m == leido[h] IN
         /\ m \in MensajesAJob /\ m.tarea \in Tarea
         /\ m = Mensaje("map", m.tarea) \/ m = Mensaje("reduce", m.tarea)
         /\ EnCurso(m)
         /\ m.tipo = "reduce" => m.tarea \in reduceHecho
         /\ UNCHANGED <<martaVars, nodoVars, aMarta, leido>>
         /\ Pedida(m)
         /\ \A g \in Hilo : Activo(g)' => leido[g] # m
         /\ \A n \in MensajesAJob : EnCurso(n)' => n # m /\ EnCurso(n)
<1>. DEFINE m == leido[h]
<1>. USE DEF Camina, TypeInv, TypeOK
<1>1. /\ hilo[h] = "hecho" /\ hilo' = [hilo EXCEPT ![h] = "fin"]
      /\ m.tipo \in {"map", "reduce"}
      /\ UNCHANGED <<martaVars, nodoVars, aMarta, leido, aJob, pendiente, buffer>>
  BY DEF HiloEncola, Va
<1>2. m \in MensajesAJob \cup {Vacio} /\ DeTarea(m)
  BY <1>1 DEF DeTarea
<1>3. /\ m \in MensajesAJob /\ m.tarea \in Tarea
      /\ m = Mensaje("map", m.tarea) \/ m = Mensaje("reduce", m.tarea)
  BY <1>1, <1>2, Clave
<1>4. EnCurso(m) /\ Pedida(m) /\ (m.tipo = "reduce" => m.tarea \in reduceHecho)
  BY <1>1 DEF EnCurso, Activo, Etapas, Pedidas
<1>5. \A g \in Hilo : Activo(g)' => leido[g] # m /\ Activo(g)
  BY <1>1, <1>2 DEF Activo, Leidos
<1>6. ~EnCamino(m)
  BY DEF Leidos
<1>7. \A n \in MensajesAJob : EnCamino(n)' => EnCamino(n)
  BY <1>1 DEF EnCamino, EnSocket, Nace
<1>8. \A n \in MensajesAJob : EnCurso(n)' => n # m /\ EnCurso(n)
  BY <1>1, <1>5, <1>6, <1>7 DEF EnCurso
<1>. QED
  BY <1>1, <1>3, <1>4, <1>5, <1>8

(* A thread whose node answered keeps its message.                         *)
LEMMA HiloHecho ==
  ASSUME TypeInv, [Next]_vars, NEW h \in Hilo, hilo'[h] = "hecho"
  PROVE  NodoTermina(h) \/ (hilo[h] = "hecho" /\ leido'[h] = leido[h])
<1>. USE DEF TypeInv, TypeOK
<1>1. CASE UNCHANGED hiloVars
  BY <1>1 DEF hiloVars
<1>2. ASSUME NEW g \in Hilo,
             \/ HiloSaluda(g) \/ HiloEntrega(g) \/ NodoTermina(g) \/ HiloEncola(g)
             \/ HiloAvisaFin(g) \/ HiloAvisaError(g) \/ HiloDevuelve(g)
             \/ HiloNoConecta(g)
      PROVE  NodoTermina(h) \/ (hilo[h] = "hecho" /\ leido'[h] = leido[h])
  <2>1. CASE NodoTermina(g)
    BY <2>1 DEF NodoTermina, Va
  <2>. QED
    BY <1>2, <2>1 DEF HiloSaluda, HiloEntrega, HiloEncola, HiloAvisaFin, HiloAvisaError,
              HiloDevuelve, HiloNoConecta, Va
<1>3. ASSUME NEW g \in Hilo, NodoFalla(g) \/ HiloCopia(g)
      PROVE  hilo[h] = "hecho" /\ leido'[h] = leido[h]
  BY <1>3 DEF NodoFalla, HiloCopia, Va
<1>5. CASE JobDespacha
  BY <1>5 DEF JobDespacha
<1>. HIDE DEF TypeInv, TypeOK
<1>4. \/ UNCHANGED hiloVars
      \/ JobDespacha
      \/ \E g \in Hilo : \/ HiloSaluda(g) \/ HiloEntrega(g) \/ NodoTermina(g) \/ HiloEncola(g)
                         \/ HiloAvisaFin(g) \/ HiloAvisaError(g) \/ HiloDevuelve(g)
                         \/ HiloNoConecta(g) \/ NodoFalla(g) \/ HiloCopia(g)
  BY DEF Next, MartaPaso, EnvioPaso, HiloPaso, MartaEnviaMas, MartaEnviaMap, MartaRecibe,
       MartaCredito, MartaPierdeJob, MartaMuere, JobRecibe, JobPierdeMarta,
       EnvioEsperaMarta, EnvioEsperaLista, EnvioManda, HiloAborta, vars
<1>. QED
  BY <1>1, <1>2, <1>3, <1>4, <1>5

(* A task is mapped, answered, reduced and answered, in that order and     *)
(* never twice, whatever the threads of the Job do.                        *)
LEMMA EtapasStep ==
  ASSUME Pausa, Camina, TypeInv', SoloUno, Leidos, [Next]_vars
  PROVE  Etapas'
<1>. USE DEF Camina, TypeInv, TypeOK
<1>0. Leidos'
  BY LeidosStep
<1>1. \A t \in Tarea : Mensaje("map", t) \in MensajesAJob /\ Mensaje("reduce", t) \in MensajesAJob
  BY Mensajes
<1>2. \A t \in Tarea : /\ Mensaje("map", t) # Total /\ Mensaje("reduce", t) # Total
                       /\ \A u \in Tarea : /\ Mensaje("map", t) # Mensaje("reduce", u)
                                           /\ Mensaje("map", t) = Mensaje("map", u) => t = u
                                           /\ Mensaje("reduce", t) = Mensaje("reduce", u) => t = u
  BY DEF Mensaje, Total
<1>3. ASSUME NEW t \in Tarea, estadoCopia'[t] # estadoCopia[t]
      PROVE  /\ MartaRecibe /\ EnAMarta(1) /\ ConOk(t) /\ Responde(t) /\ aMarta[1].tarea = t
             /\ estadoCopia'[t] = estadoCopia[t] + 1
  <2>1. PICK u \in Tarea : MartaRecibe /\ EnAMarta(1) /\ ConOk(u) /\ Responde(u) /\ aMarta[1].tarea = u
    BY <1>3, PasosDeMarta DEF MartaEnviaMap, CierraJob
  <2>2. u = t
    BY <1>3, <2>1 DEF Responde
  <2>. QED
    BY <2>1, <2>2 DEF Responde
<1>4. ASSUME NEW t \in Tarea, EnCurso(Mensaje("map", t))'
      PROVE  estadoCopia'[t] = 0
  <2>1. CASE EnCurso(Mensaje("map", t))
    BY <1>3, <2>1 DEF Etapas
  <2>2. CASE MartaEnviaMap(t)
    BY <2>2 DEF MartaEnviaMap, Pedidas
  <2>3. EnCurso(Mensaje("map", t)) \/ MartaEnviaMap(t)
    <3>. PICK m \in MensajesAJob : m = Mensaje("map", t)
      BY <1>1
    <3>1. EnCurso(m)'
      BY <1>4
    <3>2. \/ EnCurso(m)
          \/ \E u \in Tarea : MartaEnviaMap(u) /\ m = Mensaje("map", u)
          \/ \E u \in Tarea : Responde(u) /\ PideTotal /\ m = Total
          \/ \E u \in Tarea : Responde(u) /\ PideLocal(u) /\ m = Mensaje("reduce", u)
      BY <3>1, CursoNuevo, Zenon
    <3>. QED
      BY <1>2, <3>2
  <2>. QED
    BY <2>1, <2>2, <2>3
<1>5. ASSUME NEW t \in Tarea, EnCurso(Mensaje("reduce", t))'
      PROVE  estadoCopia'[t] = 1
  <2>1. CASE EnCurso(Mensaje("reduce", t))
    BY <1>3, <2>1 DEF Etapas
  <2>2. CASE Responde(t) /\ PideLocal(t)
    BY <2>2 DEF Responde, PideLocal
  <2>3. EnCurso(Mensaje("reduce", t)) \/ (Responde(t) /\ PideLocal(t))
    <3>. PICK m \in MensajesAJob : m = Mensaje("reduce", t)
      BY <1>1
    <3>1. EnCurso(m)'
      BY <1>5
    <3>2. \/ EnCurso(m)
          \/ \E u \in Tarea : MartaEnviaMap(u) /\ m = Mensaje("map", u)
          \/ \E u \in Tarea : Responde(u) /\ PideTotal /\ m = Total
          \/ \E u \in Tarea : Responde(u) /\ PideLocal(u) /\ m = Mensaje("reduce", u)
      BY <3>1, CursoNuevo, Zenon
    <3>. QED
      BY <1>2, <3>2
  <2>. QED
    BY <2>1, <2>2, <2>3
<1>6. /\ reduceHecho \subseteq reduceHecho' /\ (totalHecho => totalHecho')
      /\ \A t \in Tarea : jobEnviado[t] # 0 => jobEnviado'[t] # 0
  BY NodoCrece, MartaRecuerda
<1>7. ASSUME NEW t \in Tarea, EnLista(t)' \/ ConOk(t)'
      PROVE  /\ jobEnviado'[t] # 0
             /\ \/ estadoCopia'[t] = 0
                \/ Combiner /\ estadoCopia'[t] = 1 /\ t \in reduceHecho'
             /\ ~EnCurso(Mensaje("map", t))' /\ ~EnCurso(Mensaje("reduce", t))'
  <2>1. CASE EnLista(t) \/ ConOk(t)
    <3>1. /\ jobEnviado[t] # 0
          /\ \/ estadoCopia[t] = 0
             \/ Combiner /\ estadoCopia[t] = 1 /\ t \in reduceHecho
          /\ ~EnCurso(Mensaje("map", t)) /\ ~EnCurso(Mensaje("reduce", t))
      BY <2>1 DEF Etapas
    <3>2. ~(MartaRecibe /\ EnAMarta(1) /\ ConOk(t))
      BY <1>7, OkUnico
    <3>3. estadoCopia'[t] = estadoCopia[t]
      BY <1>3, <3>2
    <3>4. ~EnCurso(Mensaje("map", t))' /\ ~EnCurso(Mensaje("reduce", t))'
      <4>1. ~MartaEnviaMap(t)
        BY <3>1, SMTT(30) DEF MartaEnviaMap
      <4>. QED
        BY <1>1, <1>2, <3>1, <3>2, <4>1, CursoNuevo, SMTT(30)
    <3>. QED
      BY <1>6, <3>1, <3>3, <3>4
  <2>2. ASSUME NEW h \in Hilo, HiloEncola(h), t = leido[h].tarea
        PROVE  /\ jobEnviado'[t] # 0
               /\ \/ estadoCopia'[t] = 0
                  \/ Combiner /\ estadoCopia'[t] = 1 /\ t \in reduceHecho'
               /\ ~EnCurso(Mensaje("map", t))' /\ ~EnCurso(Mensaje("reduce", t))'
    <3>1. /\ leido[h] = Mensaje("map", t) \/ leido[h] = Mensaje("reduce", t)
          /\ EnCurso(leido[h]) /\ Pedida(leido[h])
          /\ leido[h].tipo = "reduce" => t \in reduceHecho
          /\ UNCHANGED martaVars
          /\ \A n \in MensajesAJob : EnCurso(n)' => n # leido[h] /\ EnCurso(n)
      BY <1>0, <2>2, EncolaLoSuyo
    <3>2. CASE leido[h] = Mensaje("map", t)
      <4>1. estadoCopia[t] = 0 /\ jobEnviado[t] # 0
        BY <3>1, <3>2, Clave DEF Etapas, Pedida
      <4>2. ~EnCurso(Mensaje("reduce", t))
        BY <4>1 DEF Etapas
      <4>. QED
        BY <1>1, <3>1, <3>2, <4>1, <4>2 DEF martaVars
    <3>3. CASE leido[h] = Mensaje("reduce", t)
      <4>1. estadoCopia[t] = 1 /\ t \in parcialReduce /\ t \in reduceHecho
        BY <3>1, <3>3, Clave DEF Etapas, Pedida
      <4>2. Combiner /\ jobEnviado[t] # 0
        BY <4>1 DEF Pedidas
      <4>3. ~EnCurso(Mensaje("map", t))
        BY <4>1 DEF Etapas
      <4>. QED
        BY <1>1, <1>6, <3>1, <3>3, <4>1, <4>2, <4>3 DEF martaVars
    <3>. QED
      BY <3>1, <3>2, <3>3
  <2>3. EnLista(t) \/ ConOk(t) \/ \E h \in Hilo : HiloEncola(h) /\ t = leido[h].tarea
    <3>1. CASE ConOk(t)' /\ ~ConOk(t)
      <4>1. listaRMarta # <<>> /\ t = Head(listaRMarta)
        BY <3>1, PasosDeResultados
      <4>. QED
        BY <4>1, ColaQueda DEF EnLista
    <3>2. CASE EnLista(t)'
      BY <3>2, PasosDeResultados
    <3>. QED
      BY <1>7, <3>1, <3>2
  <2>. QED
    BY <2>1, <2>2, <2>3
<1>. DEFINE SinRepetir == \A i, j \in DOMAIN listaRMarta : listaRMarta[i] = listaRMarta[j] => i = j
<1>8. SinRepetir'
  <2>1. \A i, j \in DOMAIN listaRMarta : listaRMarta[i] = listaRMarta[j] => i = j
    BY DEF Etapas
  <2>2. CASE UNCHANGED listaRMarta
    BY <2>1, <2>2
  <2>3. ASSUME EnvioManda, ~UNCHANGED listaRMarta
        PROVE  SinRepetir'
    <3>1. listaRMarta # <<>> /\ listaRMarta' = Tail(listaRMarta)
      BY <2>3 DEF EnvioManda
    <3>2. \A i \in DOMAIN listaRMarta' :
             i \in Nat /\ i + 1 \in DOMAIN listaRMarta /\ listaRMarta'[i] = listaRMarta[i + 1]
      BY <3>1, ColaQueda
    <3>. SUFFICES ASSUME NEW i \in DOMAIN listaRMarta', NEW j \in DOMAIN listaRMarta',
                         listaRMarta'[i] = listaRMarta'[j]
                  PROVE  i = j
      OBVIOUS
    <3>3. i \in Nat /\ j \in Nat /\ i + 1 = j + 1
      BY <2>1, <3>2
    <3>. QED
      BY <3>3, SMTT(30)
  <2>4. ASSUME NEW h \in Hilo, HiloEncola(h)
        PROVE  SinRepetir'
    <3>1. /\ leido[h].tarea \in Tarea
          /\ leido[h] = Mensaje("map", leido[h].tarea) \/ leido[h] = Mensaje("reduce", leido[h].tarea)
          /\ EnCurso(leido[h])
          /\ listaRMarta' = Append(listaRMarta, leido[h].tarea)
      BY <1>0, <2>4, EncolaLoSuyo DEF HiloEncola, SuTarea
    <3>2. ~EnLista(leido[h].tarea)
      BY <3>1 DEF Etapas
    <3>3. \A i \in DOMAIN listaRMarta : i \in Nat /\ listaRMarta[i] # leido[h].tarea
      BY <3>2, SMTT(30) DEF EnLista
    <3>4. /\ \A i \in DOMAIN listaRMarta' : i = Len(listaRMarta) + 1 \/
              (i \in DOMAIN listaRMarta /\ listaRMarta'[i] = listaRMarta[i])
          /\ listaRMarta'[Len(listaRMarta) + 1] = leido[h].tarea
      BY <3>1, AgregaAlFinal, SMTT(30)
    <3>. QED
      BY <2>1, <3>3, <3>4
  <2>. QED
    BY <2>2, <2>3, <2>4, TocanLaCola DEF colaVars, EnvioEsperaMarta, EnvioEsperaLista
<1>9. ASSUME NEW t \in Tarea, EnLista(t)', ConOk(t)'
      PROVE  FALSE
  <2>1. ~(EnLista(t) /\ ConOk(t))
    BY DEF Etapas
  <2>2. CASE ~ConOk(t)
    <3>1. EnvioManda /\ listaRMarta # <<>> /\ t = Head(listaRMarta)
      BY <1>9, <2>2, PasosDeResultados
    <3>2. listaRMarta' = Tail(listaRMarta)
      BY <3>1 DEF EnvioManda
    <3>3. PICK i \in Nat : i \in DOMAIN listaRMarta' /\ listaRMarta'[i] = t
      BY <1>9 DEF EnLista
    <3>4. /\ i + 1 \in DOMAIN listaRMarta /\ listaRMarta[i + 1] = t /\ i > 0
          /\ 1 \in DOMAIN listaRMarta /\ listaRMarta[1] = t
      BY <3>1, <3>2, <3>3, ColaQueda
    <3>5. i + 1 = 1
      BY <3>4 DEF Etapas
    <3>. QED
      BY <3>4, <3>5
  <2>3. CASE ~EnLista(t) /\ ConOk(t)
    <3>1. PICK h \in Hilo : HiloEncola(h) /\ t = leido[h].tarea
      BY <1>9, <2>3, PasosDeResultados
    <3>2. /\ leido[h] = Mensaje("map", t) \/ leido[h] = Mensaje("reduce", t)
          /\ EnCurso(leido[h])
      BY <1>0, <3>1, EncolaLoSuyo
    <3>. QED
      BY <2>3, <3>2 DEF Etapas
  <2>. QED
    BY <2>1, <2>2, <2>3
<1>10. ASSUME NEW h \in Hilo, hilo'[h] = "hecho"
       PROVE  /\ leido'[h].tipo = "reduce" => leido'[h].tarea \in reduceHecho'
              /\ leido'[h].tipo = "total" => totalHecho'
  <2>1. CASE hilo[h] = "hecho" /\ leido'[h] = leido[h]
    BY <1>6, <2>1 DEF Etapas
  <2>2. CASE NodoTermina(h)
    BY <2>2 DEF NodoTermina
  <2>3. NodoTermina(h) \/ (hilo[h] = "hecho" /\ leido'[h] = leido[h])
    BY <1>10, HiloHecho
  <2>. QED
    BY <2>1, <2>2, <2>3
<1>11. ASSUME NEW t \in Tarea, estadoCopia'[t] = 2
       PROVE  Combiner /\ t \in reduceHecho'
  BY <1>3, <1>6, <1>11 DEF Etapas, Responde
<1>. QED
  BY <1>4, <1>5, <1>7, <1>8, <1>9, <1>10, <1>11 DEF Etapas

-----------------------------------------------------------------------------

(* MaRTA counts a task once, when its last stage is answered.              *)
LEMMA CuentaStep ==
  ASSUME Camina, [Next]_vars
  PROVE  Cuenta'
<1>. USE DEF Camina, Cuenta
<1>1. CASE UNCHANGED <<jobEnviado, estadoCopia, contTareas, parcialReduce, archivos, totales>>
  BY <1>1 DEF ListasDe, Listas
<1>2. ASSUME NEW t \in Tarea, MartaEnviaMap(t)
      PROVE  Cuenta'
  BY <1>2 DEF MartaEnviaMap, ListasDe, Listas
<1>3. ASSUME NEW t \in Tarea, Responde(t)
      PROVE  Cuenta'
  <2>1. totales' > 0 => Listas' = Tarea
    BY <1>3 DEF Responde, PideTotal, PideLocal
  <2>. QED
    BY <1>3, <2>1 DEF Responde
<1>4. CASE CierraJob
  BY <1>4 DEF CierraJob, ListasDe, Listas
<1>. QED
  BY <1>1, <1>2, <1>3, <1>4, PasosDeMarta

(* The end of the total reduce is news of one thread.                      *)
LEMMA PasosDelFin ==
  ASSUME TypeInv, [Next]_vars, NEW i \in Nat, Fin(i)'
  PROVE  \/ MartaRecibe
         \/ Fin(i)
         \/ i = Len(aMarta) + 2 /\ \E h \in Hilo : HiloAvisaFin(h)
<1>. SUFFICES ASSUME ~MartaRecibe, ~Fin(i)
              PROVE  i = Len(aMarta) + 2 /\ \E h \in Hilo : HiloAvisaFin(h)
  OBVIOUS
<1>1. ~UNCHANGED aMarta
  BY DEF Fin
<1>2. ASSUME NEW h \in Hilo,
             aMarta' = aMarta \o <<Mensaje("uno", Nada), Mensaje("error", leido[h].tarea)>>
      PROVE  FALSE
  <2>1. /\ Mensaje("error", leido[h].tarea) \in MensajesAMarta
        /\ Mensaje("uno", Nada) \in MensajesAMarta
        /\ Mensaje("error", leido[h].tarea).tipo # "fin" /\ Mensaje("uno", Nada).tipo # "fin"
    BY Mensajes DEF Mensaje, TypeInv, TypeOK
  <2>. QED
    BY <1>2, <2>1, DosMensajes
<1>3. ASSUME aMarta' = aMarta \o <<Mensaje("uno", Nada), Mensaje("fin", Nada)>>
      PROVE  i = Len(aMarta) + 2
  <2>1. /\ Mensaje("fin", Nada) \in MensajesAMarta
        /\ Mensaje("uno", Nada) \in MensajesAMarta
        /\ Mensaje("uno", Nada).tipo # "fin"
    BY Mensajes DEF Mensaje
  <2>. QED
    BY <1>3, <2>1, DosMensajes
<1>4. ASSUME NEW h \in Hilo, aMarta' = Append(aMarta, Mensaje("error", leido[h].tarea))
      PROVE  FALSE
  <2>1. /\ Mensaje("error", leido[h].tarea) \in MensajesAMarta
        /\ Mensaje("error", leido[h].tarea).tipo # "fin"
    BY Mensajes DEF Mensaje, TypeInv, TypeOK
  <2>. QED
    BY <1>4, <2>1, EnviaAMarta
<1>5. ASSUME listaRMarta # <<>>, aMarta' = Append(aMarta, Mensaje("ok", Head(listaRMarta)))
      PROVE  FALSE
  <2>1. Head(listaRMarta) \in Tarea
    BY <1>5, HeadTailProperties DEF TypeInv, TypeOK
  <2>2. /\ Mensaje("ok", Head(listaRMarta)) \in MensajesAMarta
        /\ Mensaje("ok", Head(listaRMarta)).tipo # "fin"
    BY <2>1, Mensajes DEF Mensaje
  <2>. QED
    BY <1>5, <2>2, EnviaAMarta
<1>. QED
  BY <1>1, <1>2, <1>3, <1>4, <1>5, PasosHaciaMarta

(* The thread that tells it is the one that ran the total reduce.          *)
LEMMA AvisaFinDelTotal ==
  ASSUME Pausa, Camina, Leidos, [Next]_vars, NEW h \in Hilo, HiloAvisaFin(h)
  PROVE  /\ EnCurso(Total) /\ ~EnCurso(Total)' /\ totalHecho /\ totales > 0
         /\ UNCHANGED <<martaVars, nodoVars>>
         /\ \A i \in Nat : ~Fin(i)
<1>. USE DEF Camina, TypeInv, TypeOK
<1>1. /\ hilo[h] = "hecho" /\ hilo' = [hilo EXCEPT ![h] = "fin"]
      /\ leido[h].tipo = "total"
      /\ UNCHANGED <<martaVars, nodoVars, leido, aJob, pendiente, buffer>>
  BY DEF HiloAvisaFin, Va
<1>2. leido[h] = Total /\ DeTarea(leido[h])
  BY <1>1, Clave DEF DeTarea
<1>3. EnCurso(Total) /\ totalHecho /\ totales > 0
  BY <1>1, <1>2 DEF EnCurso, Activo, Etapas, Pedidas, Pedida
<1>4. ~EnCamino(Total)
  BY <1>2 DEF Leidos
<1>5. ~EnCamino(Total)'
  BY <1>1, <1>4 DEF EnCamino, EnSocket, Nace
<1>6. \A g \in Hilo : Activo(g)' => leido[g] # Total
  BY <1>1, <1>2 DEF Activo, Leidos
<1>7. ~EnCurso(Total)'
  BY <1>1, <1>5, <1>6 DEF EnCurso
<1>. QED
  BY <1>1, <1>3, <1>7 DEF UnTotal

(* The total reduce is asked for once, runs once, is told once, and the    *)
(* Job is closed by that and by nothing else.                              *)
LEMMA UnTotalStep ==
  ASSUME Pausa, Camina, SoloUno, Leidos, [Next]_vars
  PROVE  UnTotal'
<1>. USE DEF Camina
<1>1. ASSUME EnCurso(Total)'
      PROVE  archivos' # {} /\ \A i \in Nat : ~Fin(i)'
  <2>1. EnCurso(Total) \/ \E t \in Tarea : MartaRecibe /\ Responde(t) /\ PideTotal
    <3>1. \A t \in Tarea : Total # Mensaje("map", t) /\ Total # Mensaje("reduce", t)
      BY DEF Mensaje, Total
    <3>. QED
      BY <1>1, <3>1, CursoNuevo, Mensajes
  <2>2. CASE EnCurso(Total)
    <3>1. archivos # {} /\ \A i \in Nat : ~Fin(i)
      BY <2>2 DEF UnTotal
    <3>2. archivos' = archivos
      BY <3>1, PasosDeMarta DEF MartaEnviaMap, Responde, CierraJob
    <3>3. \A h \in Hilo : ~HiloAvisaFin(h)
      BY <1>1, AvisaFinDelTotal
    <3>4. MartaRecibe => \A i \in Nat : Fin(i)' => \E j \in Nat : Fin(j)
      BY Consumido
    <3>. QED
      BY <3>1, <3>2, <3>3, <3>4, PasosDelFin
  <2>3. ASSUME NEW t \in Tarea, MartaRecibe, Responde(t)
        PROVE  archivos' # {} /\ \A i \in Nat : ~Fin(i)'
    <3>1. totales = 0 /\ archivos # {} /\ archivos' = archivos
      BY <2>3 DEF Responde
    <3>2. \A i \in Nat : ~Fin(i)
      BY <3>1 DEF UnTotal
    <3>. QED
      BY <2>3, <3>1, <3>2, Consumido
  <2>. QED
    BY <2>1, <2>2, <2>3
<1>2. \A i, j \in Nat : Fin(i)' /\ Fin(j)' => i = j
  <2>1. \A i, j \in Nat : Fin(i) /\ Fin(j) => i = j
    BY DEF UnTotal
  <2>2. CASE MartaRecibe
    BY <2>2, Consumido
  <2>3. CASE ~MartaRecibe /\ \E h \in Hilo : HiloAvisaFin(h)
    <3>1. \A i \in Nat : ~Fin(i)
      BY <2>3, AvisaFinDelTotal
    <3>. QED
      BY <2>3, <3>1, PasosDelFin
  <2>4. CASE ~MartaRecibe /\ ~\E h \in Hilo : HiloAvisaFin(h)
    BY <2>1, <2>4, PasosDelFin
  <2>. QED
    BY <2>2, <2>3, <2>4
<1>3. ASSUME NEW i \in Nat, Fin(i)'
      PROVE  archivos' # {} /\ totalHecho'
  <2>1. CASE \E j \in Nat : Fin(j)
    <3>1. archivos # {} /\ totalHecho
      BY <2>1 DEF UnTotal
    <3>2. totalHecho'
      BY <3>1, NodoCrece
    <3>3. ~CierraJob \/ ~MartaRecibe
      BY <1>3, Consumido DEF CierraJob
    <3>4. archivos' = archivos
      BY <3>1, <3>3, PasosDeMarta DEF MartaEnviaMap, Responde
    <3>. QED
      BY <3>1, <3>2, <3>4
  <2>2. ASSUME NEW h \in Hilo, HiloAvisaFin(h)
        PROVE  archivos' # {} /\ totalHecho'
    BY <2>2, AvisaFinDelTotal DEF UnTotal, martaVars, nodoVars
  <2>3. (\E j \in Nat : Fin(j)) \/ \E h \in Hilo : HiloAvisaFin(h)
    BY <1>3, PasosDelFin, Consumido
  <2>. QED
    BY <2>1, <2>2, <2>3
<1>4. totalHecho' => totales' > 0
  <2>1. totales > 0 => totales' > 0
    BY MartaRecuerda
  <2>2. ASSUME NEW h \in Hilo, NodoTermina(h)
        PROVE  totalHecho' => totales > 0
    BY <2>2 DEF NodoTermina, Pedidas, Pedida, UnTotal
  <2>. QED
    BY <2>1, <2>2, PasosDelNodo DEF nodoVars, UnTotal
<1>5. archivos' = {} => totalHecho'
  <2>1. archivos = {} => totalHecho
    BY DEF UnTotal
  <2>2. CierraJob => totalHecho
    BY DEF CierraJob, UnTotal
  <2>3. archivos' = {} => archivos = {} \/ CierraJob
    BY PasosDeMarta DEF MartaEnviaMap, Responde
  <2>. QED
    BY <2>1, <2>2, <2>3, NodoCrece
<1>. QED
  BY <1>1, <1>2, <1>3, <1>4, <1>5 DEF UnTotal

-----------------------------------------------------------------------------

(* A thread that waits for the end of the Job, or to give the credit back, *)
(* goes on waiting until MaRTA read what was sent.                         *)
LEMMA Espera ==
  ASSUME Pausa, TypeInv, Leidos, [Next]_vars,
         NEW h \in Hilo, hilo[h] \in {"aborta", "retiene"}
  PROVE  \/ hilo'[h] = hilo[h]
         \/ HiloDevuelve(h) /\ aMarta = <<>> /\ aMarta' = <<>> /\ hilo[h] = "retiene"
<1>. USE DEF TypeInv, TypeOK
<1>1. CASE UNCHANGED hiloVars
  BY <1>1 DEF hiloVars
<1>2. ASSUME NEW g \in Hilo,
             \/ HiloSaluda(g) \/ HiloEntrega(g) \/ NodoTermina(g) \/ HiloEncola(g)
             \/ HiloAvisaFin(g) \/ HiloAvisaError(g)
             \/ HiloNoConecta(g) \/ NodoFalla(g) \/ HiloCopia(g)
      PROVE  hilo'[h] = hilo[h]
  BY <1>2 DEF HiloSaluda, HiloEntrega, NodoTermina, HiloEncola, HiloAvisaFin, HiloAvisaError,
              HiloNoConecta, NodoFalla, HiloCopia, Va
<1>3. ASSUME NEW g \in Hilo, HiloDevuelve(g)
      PROVE  hilo'[h] = hilo[h] \/ (g = h /\ aMarta = <<>> /\ aMarta' = <<>> /\ hilo[h] = "retiene")
  BY <1>3 DEF HiloDevuelve, HiloDuerme, Va
<1>4. ASSUME JobDespacha
      PROVE  hilo'[h] = hilo[h]
  BY <1>4, TareaAssumption DEF JobDespacha, Leidos, Hilo
<1>. HIDE DEF TypeInv, TypeOK
<1>5. \/ UNCHANGED hiloVars
      \/ JobDespacha
      \/ \E g \in Hilo : \/ HiloSaluda(g) \/ HiloEntrega(g) \/ NodoTermina(g) \/ HiloEncola(g)
                         \/ HiloAvisaFin(g) \/ HiloAvisaError(g) \/ HiloDevuelve(g)
                         \/ HiloNoConecta(g) \/ NodoFalla(g) \/ HiloCopia(g)
  BY DEF Next, MartaPaso, EnvioPaso, HiloPaso, MartaEnviaMas, MartaEnviaMap, MartaRecibe,
       MartaCredito, MartaPierdeJob, MartaMuere, JobRecibe, JobPierdeMarta,
       EnvioEsperaMarta, EnvioEsperaLista, EnvioManda, HiloAborta, vars
<1>. QED
  BY <1>1, <1>2, <1>3, <1>4, <1>5

(* An OK is never behind another message: MaRTA, that looks at the first   *)
(* message of a recv only, does not lose it.                               *)
LEMMA SinMezclaStep ==
  ASSUME Pausa, Camina, SoloUno, Leidos, SinMezcla, [Next]_vars
  PROVE  SinMezcla'
<1>. USE DEF Camina, TypeInv, TypeOK
<1>1. CASE \E h \in Hilo : hilo[h] \in {"aborta", "retiene"}
  BY <1>1, Espera DEF SinMezcla
<1>2. CASE totales > 0
  BY <1>2, MartaRecuerda DEF SinMezcla
<1>3. CASE UNCHANGED aMarta /\ (aMarta = <<>> \/ (Len(aMarta) = 1 /\ aMarta[1].tipo = "ok"))
  BY <1>3 DEF SinMezcla
<1>4. ASSUME MartaRecibe, aMarta = <<>> \/ (Len(aMarta) = 1 /\ aMarta[1].tipo = "ok")
      PROVE  SinMezcla'
  <2>1. PICK k \in 1..Len(aMarta) : aMarta' = Resto(aMarta, k)
    BY <1>4 DEF MartaRecibe
  <2>2. aMarta \in Seq(MensajesAMarta) /\ Len(aMarta) \in Nat
    OBVIOUS
  <2>3. Len(aMarta) >= 1 /\ k \in Int
    BY <2>2
  <2>4. aMarta # <<>>
    BY <2>3
  <2>5. Len(aMarta) = 1 /\ k = 1
    <3>1. Len(aMarta) = 1
      BY <1>4, <2>4
    <3>2. k \in 1..1
      BY <3>1
    <3>. QED
      BY <3>1, <3>2
  <2>6. aMarta' \in Seq(MensajesAMarta) /\ Len(aMarta') = Len(aMarta) - k
    BY <2>1, <2>2, RestoProps
  <2>7. aMarta' = <<>>
    BY <2>5, <2>6
  <2>. QED
    BY <2>7 DEF SinMezcla
<1>5. ASSUME EnvioManda, aMarta = <<>> \/ (Len(aMarta) = 1 /\ aMarta[1].tipo = "ok")
      PROVE  SinMezcla'
  <2>1. envio = "aux"
    BY <1>5 DEF EnvioManda
  <2>2. aMarta = <<>>
    <3>. SUFFICES ASSUME Len(aMarta) = 1, aMarta[1].tipo = "ok"
                  PROVE  FALSE
      BY <1>5
    <3>1. EnAMarta(1)
      BY DEF EnAMarta
    <3>. QED
      BY <2>1, <3>1 DEF SoloUno
  <2>3. CASE listaRMarta = <<>>
    BY <1>5, <2>2, <2>3 DEF EnvioManda, SinMezcla
  <2>4. CASE listaRMarta # <<>>
    <3>1. Head(listaRMarta) \in Tarea
      BY <2>4, HeadTailProperties
    <3>2. aMarta' = Append(aMarta, Mensaje("ok", Head(listaRMarta)))
          /\ Mensaje("ok", Head(listaRMarta)) \in MensajesAMarta
      BY <1>5, <2>4, <3>1, Mensajes DEF EnvioManda
    <3>3. Len(aMarta') = 1 /\ aMarta'[1] = Mensaje("ok", Head(listaRMarta))
      BY <2>2, <3>2
    <3>. QED
      BY <3>1, <3>3, Clave DEF SinMezcla
  <2>. QED
    BY <2>3, <2>4
<1>6. ASSUME NEW h \in Hilo, HiloNoConecta(h) \/ HiloAvisaError(h)
      PROVE  SinMezcla'
  BY <1>6 DEF HiloNoConecta, HiloAvisaError, Va, SinMezcla
<1>7. ASSUME NEW h \in Hilo, HiloAvisaFin(h)
      PROVE  SinMezcla'
  BY <1>2, <1>7, AvisaFinDelTotal
<1>. QED
  BY <1>1, <1>2, <1>3, <1>4, <1>5, <1>6, <1>7, PasosHaciaMarta DEF SinMezcla

-----------------------------------------------------------------------------

(* Which steps take MaRTA's thread anywhere but where it was.              *)
LEMMA MartaSigue ==
  ASSUME Camina, [Next]_vars
  PROVE  \/ UNCHANGED marta
         \/ marta \in {"planifica", "credito"} /\ marta' = "recibe"
         \/ marta = "recibe" /\ marta' = "credito"
         \/ MartaPierdeJob
         \/ MartaMuere
<1>1. ASSUME MartaRecibe
      PROVE  UNCHANGED marta \/ (marta = "recibe" /\ marta' = "credito")
  BY <1>1, MartaRecibeCasos DEF Responde, CierraJob, SinEfecto, Camina
<1>2. ASSUME MartaEnviaMas \/ MartaCredito
      PROVE  marta \in {"planifica", "credito"} /\ marta' = "recibe"
  BY <1>2 DEF MartaEnviaMas, MartaCredito
<1>3. UNCHANGED marta \/ MartaRecibe \/ MartaEnviaMas \/ MartaCredito \/ MartaPierdeJob \/ MartaMuere
  BY DEF Next, MartaPaso, EnvioPaso, HiloPaso, MartaEnviaMap,
       JobRecibe, JobPierdeMarta, JobDespacha,
       EnvioEsperaMarta, EnvioEsperaLista, EnvioManda, HiloCopia, HiloEncola,
       HiloNoConecta, HiloSaluda, HiloEntrega, NodoTermina, NodoFalla, HiloAvisaFin,
       HiloAvisaError, HiloDevuelve, HiloAborta, vars, martaVars
<1>. QED
  BY <1>1, <1>2, <1>3

(* A Job that ended stays so.                                              *)
LEMMA VivoBaja ==
  ASSUME [Next]_vars, vivo'
  PROVE  vivo
BY DEF Next, MartaPaso, EnvioPaso, HiloPaso, MartaEnviaMap, MartaEnviaMas, MartaRecibe,
       MartaCredito, MartaPierdeJob, MartaMuere,
       JobRecibe, JobPierdeMarta, JobDespacha,
       EnvioEsperaMarta, EnvioEsperaLista, EnvioManda, HiloCopia, HiloEncola,
       HiloNoConecta, HiloSaluda, HiloEntrega, NodoTermina, NodoFalla, HiloAvisaFin,
       HiloAvisaError, HiloDevuelve, HiloAborta, vars, Va

-----------------------------------------------------------------------------

(* What the credit of the Job needs to be found again after a step.        *)
LEMMA CreditoEnMarta ==
  ASSUME Pausa, Camina, SoloUno, Leidos, SinMezcla, MartaRecibe, [Next]_vars, HayCredito,
         \A h \in Hilo : hilo[h] # "aborta"
  PROVE  HayCredito'
<1>. USE DEF Camina
<1>1. UNCHANGED <<semaforoMarta, envio, hilo>>
  BY DEF MartaRecibe, colaVars, hiloVars
<1>2. ASSUME NEW t \in Tarea, Responde(t)
      PROVE  HayCredito'
  BY <1>2 DEF Responde, HayCredito, EnMarta
<1>3. ASSUME CierraJob \/ SinEfecto, ~EnAMarta(1)
      PROVE  HayCredito'
  <2>1. UNCHANGED <<marta, aJob>>
    BY <1>3 DEF CierraJob, SinEfecto
  <2>2. CASE \E h \in Hilo : hilo[h] = "retiene"
    BY <1>1, <2>2 DEF HayCredito, EnHilo
  <2>3. CASE totales > 0
    <3>1. \A i \in Nat : ~EnAMarta(i)
      <4>. SUFFICES ASSUME NEW i \in Nat, EnAMarta(i)
                    PROVE  FALSE
        OBVIOUS
      <4>. DEFINE t == aMarta[i].tarea
      <4>1. t \in Tarea
        BY Mensajes DEF EnAMarta, TypeInv, TypeOK
      <4>2. ConOk(t)
        BY DEF ConOk
      <4>3. t \in Listas
        BY <2>3, <4>1 DEF Cuenta
      <4>4. estadoCopia[t] >= IF Combiner THEN 2 ELSE 1
        BY <4>3 DEF Listas
      <4>5. estadoCopia[t] = 0 \/ (Combiner /\ estadoCopia[t] = 1)
        BY <4>1, <4>2 DEF Etapas
      <4>. QED
        BY <4>4, <4>5
    <3>. QED
      BY <1>1, <2>1, <3>1 DEF HayCredito, EnMarta, EnAJob, EnHilo
  <2>4. CASE aMarta = <<>> \/ (Len(aMarta) = 1 /\ aMarta[1].tipo = "ok")
    <3>1. 1 \in DOMAIN aMarta
      BY MartaRecibeCasos
    <3>2. aMarta # <<>>
      BY <3>1
    <3>. QED
      BY <1>3, <2>4, <3>1, <3>2 DEF EnAMarta
  <2>. QED
    BY <2>2, <2>3, <2>4 DEF SinMezcla
<1>4. CierraJob => ~EnAMarta(1)
  BY DEF CierraJob, Fin, EnAMarta
<1>. QED
  BY <1>2, <1>3, <1>4, MartaRecibeCasos

LEMMA CreditoEnJob ==
  ASSUME TypeInv, SoloUno, SoloUno', JobRecibe, HayCredito
  PROVE  HayCredito'
<1>. USE DEF TypeInv, TypeOK
<1>1. UNCHANGED <<marta, envio, hilo, aMarta>>
  BY DEF JobRecibe, martaVars, colaVars, hiloVars
<1>2. PICK k \in 1..Len(aJob) :
              /\ aJob' = Resto(aJob, k)
              /\ semaforoMarta' = semaforoMarta
                                    + (IF \E i \in 1..k : aJob[i] = Credito THEN 1 ELSE 0)
  BY DEF JobRecibe
<1>3. CASE \E i \in 1..k : aJob[i] = Credito
  BY <1>2, <1>3 DEF HayCredito, SoloUno
<1>4. CASE ~\E i \in 1..k : aJob[i] = Credito
  <2>1. UNCHANGED semaforoMarta
    BY <1>2, <1>4
  <2>2. ASSUME NEW i \in Nat, EnAJob(i)
        PROVE  \E j \in Nat : EnAJob(j)'
    <3>1. aJob \in Seq(MensajesAJob) /\ k \in Nat /\ i \in 1..Len(aJob)
      BY <2>2 DEF EnAJob
    <3>2. i > k
      BY <1>4, <2>2, <3>1 DEF EnAJob
    <3>3. /\ aJob' \in Seq(MensajesAJob) /\ Len(aJob') = Len(aJob) - k
          /\ \A j \in 1..Len(aJob') : aJob'[j] = aJob[j + k]
      BY <1>2, RestoProps
    <3>. DEFINE j == i - k
    <3>4. j \in Nat /\ j \in 1..Len(aJob') /\ j + k = i
      BY <3>1, <3>2, <3>3
    <3>5. j \in DOMAIN aJob' /\ aJob'[j] = aJob[i]
      BY <3>3, <3>4
    <3>. HIDE DEF j
    <3>. QED
      BY <2>2, <3>4, <3>5 DEF EnAJob
  <2>. QED
    BY <1>1, <2>1, <2>2 DEF HayCredito, EnMarta, EnHilo, EnAMarta
<1>. QED
  BY <1>3, <1>4

LEMMA OkSigue ==
  ASSUME TypeInv, [Next]_vars, ~MartaRecibe, NEW i \in Nat, EnAMarta(i)
  PROVE  EnAMarta(i)'
<1>. USE DEF TypeInv, TypeOK
<1>1. CASE UNCHANGED aMarta
  BY <1>1 DEF EnAMarta
<1>2. ASSUME NEW a \in MensajesAMarta, NEW b \in MensajesAMarta, aMarta' = aMarta \o <<a, b>>
      PROVE  EnAMarta(i)'
  BY <1>2, DosMensajes DEF EnAMarta
<1>3. ASSUME NEW m \in MensajesAMarta, aMarta' = Append(aMarta, m)
      PROVE  EnAMarta(i)'
  BY <1>3, EnviaAMarta DEF EnAMarta
<1>4. \A h \in Hilo : Mensaje("error", leido[h].tarea) \in MensajesAMarta
  BY Mensajes
<1>5. listaRMarta # <<>> => Mensaje("ok", Head(listaRMarta)) \in MensajesAMarta
  BY HeadTailProperties, Mensajes
<1>. QED
  BY <1>1, <1>2, <1>3, <1>4, <1>5, PasosHaciaMarta, Mensajes

(* The right to write to MaRTA is not lost, and neither process dies of    *)
(* what the other one sent.                                                *)
LEMMA SanaStep ==
  ASSUME Pausa, Camina, TypeInv', SoloUno, SoloUno', Leidos, SinMezcla, Sana, [Next]_vars
  PROVE  Sana'
<1>. USE DEF Camina
<1>1. vivo' => marta' \notin {"caida", "fin"}
  BY MartaSigue, VivoBaja DEF Sana, MartaPierdeJob, MartaMuere
<1>2. ASSUME vivo', marta' \notin {"caida", "muerta"}, \A h \in Hilo : hilo'[h] # "aborta"
      PROVE  HayCredito'
  <2>1. vivo /\ marta \notin {"caida", "muerta"}
    BY <1>2, MartaSigue, VivoBaja DEF MartaPierdeJob, MartaMuere
  <2>2. \A h \in Hilo : hilo[h] # "aborta"
    BY <1>2, Espera
  <2>3. HayCredito
    BY <2>1, <2>2 DEF Sana
  <2>4. CASE MartaRecibe
    BY <2>2, <2>3, <2>4, CreditoEnMarta
  <2>5. CASE JobRecibe
    BY <2>3, <2>5, CreditoEnJob
  <2>6. ASSUME MartaEnviaMas \/ MartaCredito
        PROVE  HayCredito'
    <3>1. aJob' = Append(aJob, Credito) /\ Credito \in MensajesAJob
      BY <2>6, Mensajes DEF MartaEnviaMas, MartaCredito
    <3>2. /\ aJob'[Len(aJob) + 1] = Credito
          /\ Len(aJob) + 1 \in Nat /\ Len(aJob) + 1 \in DOMAIN aJob'
      BY <3>1, EnviaAJob
    <3>. QED
      BY <3>2 DEF HayCredito, EnAJob
  <2>7. CASE EnvioManda
    <3>1. listaRMarta # <<>> /\ aMarta' = Append(aMarta, Mensaje("ok", Head(listaRMarta)))
      BY <1>2, <2>7 DEF EnvioManda
    <3>2. Head(listaRMarta) \in Tarea
      BY <3>1, HeadTailProperties DEF TypeInv, TypeOK
    <3>3. /\ Mensaje("ok", Head(listaRMarta)) \in MensajesAMarta
          /\ Mensaje("ok", Head(listaRMarta)).tipo = "ok"
      BY <3>2, Mensajes, Clave
    <3>. DEFINE j == Len(aMarta) + 1
    <3>4. j \in Nat /\ j \in DOMAIN aMarta' /\ aMarta'[j].tipo = "ok"
      BY <3>1, <3>3, EnviaAMarta
    <3>. HIDE DEF j
    <3>. QED
      BY <3>4 DEF HayCredito, EnAMarta
  <2>8. ASSUME EnvioEsperaMarta \/ EnvioEsperaLista
        PROVE  HayCredito'
    BY <2>8 DEF EnvioEsperaMarta, EnvioEsperaLista, HayCredito
  <2>9. ASSUME NEW h \in Hilo, HiloAvisaError(h)
        PROVE  HayCredito'
    BY <2>9 DEF HiloAvisaError, Va, HayCredito, EnHilo, TypeInv, TypeOK
  <2>10. ASSUME NEW h \in Hilo, HiloDevuelve(h)
         PROVE  HayCredito'
    BY <2>10 DEF HiloDevuelve, HayCredito, SoloUno
  <2>11. ASSUME UNCHANGED <<marta, aJob, semaforoMarta, envio>>, ~MartaRecibe,
                \A h \in Hilo : ~HiloDevuelve(h)
         PROVE  HayCredito'
    <3>1. \A h \in Hilo : EnHilo(h) => EnHilo(h)'
      BY <2>11, Espera DEF EnHilo
    <3>2. \A i \in Nat : EnAMarta(i) => EnAMarta(i)'
      BY <2>11, OkSigue
    <3>. QED
      BY <2>3, <2>11, <3>1, <3>2 DEF HayCredito, EnMarta, EnAJob
  <2>12. ASSUME NEW t \in Tarea, MartaEnviaMap(t)
         PROVE  HayCredito'
    BY <2>12 DEF MartaEnviaMap, HayCredito, EnMarta
  <2>13. ~MartaPierdeJob /\ ~MartaMuere
    BY <1>2, <2>1 DEF MartaPierdeJob, MartaMuere
  <2>14. \/ MartaRecibe \/ JobRecibe \/ MartaEnviaMas \/ MartaCredito \/ EnvioManda
         \/ EnvioEsperaMarta \/ EnvioEsperaLista
         \/ \E h \in Hilo : HiloAvisaError(h) \/ HiloDevuelve(h)
         \/ \E t \in Tarea : MartaEnviaMap(t)
         \/ UNCHANGED <<marta, aJob, semaforoMarta, envio>>
    BY <2>13 DEF Next, MartaPaso, EnvioPaso, HiloPaso, JobPierdeMarta, JobDespacha,
         HiloCopia, HiloEncola, HiloNoConecta, HiloSaluda, HiloEntrega, NodoTermina,
         NodoFalla, HiloAvisaFin, HiloAborta, vars, martaVars, colaVars
  <2>. QED
    BY <2>4, <2>5, <2>6, <2>7, <2>8, <2>9, <2>10, <2>11, <2>12, <2>14
<1>. QED
  BY <1>1, <1>2 DEF Sana

-----------------------------------------------------------------------------

(* What holds in every state when the sleeps last long enough.             *)
PromesaInv == Camina /\ SoloUno /\ MapInv /\ Leidos /\ SinMezcla /\ Sana

LEMMA PromesaInit == Init => PromesaInv
<1>. SUFFICES ASSUME Init
              PROVE  PromesaInv
  OBVIOUS
<1>. USE DEF Init
<1>1. TypeInv
  BY TypeInit
<1>2. MapInv
  BY Clases DEF MapInv, MapReal, Mapeado
<1>3. SoloUno
  BY DEF SoloUno, EnMarta, EnAJob, EnHilo, EnAMarta
<1>4. /\ \A i \in Nat : ~EnSocket(i)
      /\ \A h \in Hilo : ~Nace(h) /\ ~Activo(h)
      /\ \A m : ~EnCamino(m) /\ ~EnCurso(m)
  BY DEF EnSocket, Nace, Activo, EnCamino, EnCurso
<1>5. UnaEntrega /\ Leidos
  BY <1>4 DEF UnaEntrega, Leidos, Hilo, DeTarea, Vacio, Mensaje
<1>6. Pedidas
  BY <1>4 DEF Pedidas, Pedida, Vacio, Mensaje
<1>7. Etapas /\ UnTotal
  <2>1. /\ \A t \in Tarea : ~EnLista(t) /\ ~ConOk(t)
        /\ \A i \in Nat : ~Fin(i)
    BY DEF EnLista, ConOk, EnAMarta, Fin
  <2>. QED
    BY <1>4, <2>1, TareaAssumption DEF Etapas, UnTotal
<1>8. Cuenta
  <2>1. \A a : Cardinality(ListasDe(a)) >= 0
    BY ListasFinitas
  <2>. QED
    BY <2>1 DEF Cuenta
<1>9. SinMezcla /\ Sana
  BY DEF SinMezcla, Sana, HayCredito, EnMarta
<1>. QED
  BY <1>1, <1>2, <1>3, <1>5, <1>6, <1>7, <1>8, <1>9 DEF PromesaInv, Camina

LEMMA PromesaStep ==
  ASSUME Pausa
  PROVE  PromesaInv /\ [Next]_vars => PromesaInv'
<1>. SUFFICES ASSUME PromesaInv, [Next]_vars
              PROVE  PromesaInv'
  OBVIOUS
<1>1. Camina /\ SoloUno /\ MapInv /\ Leidos /\ SinMezcla /\ Sana
  BY DEF PromesaInv
<1>2. TypeInv'
  BY <1>1, TypeStep DEF Camina
<1>3. SoloUno' /\ MapInv'
  BY <1>1, <1>2, SoloUnoStep, MapStep DEF Camina
<1>4. UnaEntrega' /\ Leidos' /\ Pedidas'
  BY <1>1, <1>2, UnaEntregaStep, LeidosStep, PedidasStep
<1>5. Etapas' /\ Cuenta' /\ UnTotal'
  BY <1>1, <1>2, EtapasStep, CuentaStep, UnTotalStep
<1>6. SinMezcla' /\ Sana'
  BY <1>1, <1>2, <1>3, SinMezclaStep, SanaStep
<1>. QED
  BY <1>2, <1>3, <1>4, <1>5, <1>6 DEF PromesaInv, Camina

LEMMA PromesaSiempre ==
  ASSUME Pausa
  PROVE  Spec => []PromesaInv
<1>1. PromesaInv /\ [Next]_vars => PromesaInv'
  BY PromesaStep
<1>. QED
  BY <1>1, PromesaInit, PTL DEF Spec

(* MaRTA takes a task for mapped, or reduced by the combiner, only after   *)
(* its node ran it: no OK is counted for a stage it does not belong to.    *)
THEOREM EstadoSiempreReal ==
  ASSUME Pausa
  PROVE  Spec => []EstadoReal
<1>1. PromesaInv => EstadoReal
  BY DEF PromesaInv, Camina, Etapas, MapInv, MapReal, EstadoReal
<1>. QED
  BY <1>1, PromesaSiempre, PTL

(* Two threads of the Job never work on the same message, although they    *)
(* all read it from the buffer that main() overwrites.                     *)
THEOREM CadaMensajeUnHilo ==
  ASSUME Pausa
  PROVE  Spec => []CadaTareaUnaVez
<1>1. PromesaInv => CadaTareaUnaVez
  <2>. SUFFICES ASSUME PromesaInv, NEW h \in Hilo, NEW g \in Hilo, h # g, leido[h] = leido[g]
                PROVE  leido[h] = Vacio
    BY DEF CadaTareaUnaVez
  <2>1. ~DeTarea(leido[h])
    BY DEF PromesaInv, Leidos
  <2>. QED
    BY <2>1 DEF PromesaInv, Leidos
<1>. QED
  BY <1>1, PromesaSiempre, PTL

LEMMA TotalAlFinal == PromesaInv => TotalTrasTodo
<1>. SUFFICES ASSUME PromesaInv, totales > 0
              PROVE  mapHecho = Tarea /\ (Combiner => reduceHecho = Tarea)
  BY DEF TotalTrasTodo
<1>. USE DEF PromesaInv, Camina
<1>1. Listas = Tarea
  BY DEF Cuenta
<1>2. \A t \in Tarea : estadoCopia[t] >= IF Combiner THEN 2 ELSE 1
  BY <1>1 DEF Listas
<1>3. \A t \in Tarea : estadoCopia[t] \in 0..2
  BY DEF TypeInv, TypeOK
<1>4. \A t \in Tarea : t \in mapHecho
  BY <1>2, <1>3 DEF MapInv, MapReal
<1>5. Combiner => \A t \in Tarea : t \in reduceHecho
  BY <1>2, <1>3 DEF Etapas
<1>. QED
  BY <1>4, <1>5 DEF TypeInv, TypeOK

(* MaRTA asks for the total reduce only when every task was mapped and,    *)
(* with combiner, reduced: its counters, that it compares with the number  *)
(* of tasks, count no task twice and none early.                           *)
THEOREM TotalSiempreTrasTodo ==
  ASSUME Pausa
  PROVE  Spec => []TotalTrasTodo
<1>. QED
  BY TotalAlFinal, PromesaSiempre, PTL

(* The messages of a live Job never bring MaRTA down.                      *)
THEOREM MartaNuncaCae ==
  ASSUME Pausa
  PROVE  Spec => []MartaNoCae
<1>1. PromesaInv => MartaNoCae
  BY DEF PromesaInv, Sana, MartaNoCae
<1>. QED
  BY <1>1, PromesaSiempre, PTL

(* While both go on, the right to write to MaRTA is somewhere: no OK is    *)
(* lost behind another message, so the Job never waits for good.           *)
THEOREM CreditoNuncaSePierde ==
  ASSUME Pausa
  PROVE  Spec => []CreditoNoSePierde
<1>1. HayCredito => Ubicaciones # {}
  <2>1. EnMarta => <<"marta", 0>> \in Ubicaciones
    BY DEF EnMarta, Ubicaciones
  <2>2. \A i \in Nat : EnAJob(i) => <<"aJob", i>> \in Ubicaciones
    BY DEF EnAJob, Ubicaciones
  <2>3. semaforoMarta = 1 => <<"semaforo", 1>> \in Ubicaciones
    BY DEF Ubicaciones
  <2>4. envio # "marta" => <<"envio", 0>> \in Ubicaciones
    BY DEF Ubicaciones
  <2>5. \A h \in Hilo : EnHilo(h) => <<"hilo", h>> \in Ubicaciones
    BY DEF EnHilo, Ubicaciones
  <2>6. \A i \in Nat : EnAMarta(i) => <<"aMarta", i>> \in Ubicaciones
    BY DEF EnAMarta, Ubicaciones
  <2>. QED
    BY <2>1, <2>2, <2>3, <2>4, <2>5, <2>6 DEF HayCredito
<1>2. PromesaInv => CreditoNoSePierde
  BY <1>1 DEF PromesaInv, Sana, CreditoNoSePierde
<1>. QED
  BY <1>2, PromesaSiempre, PTL

-----------------------------------------------------------------------------

(* How far the total reduce is, as MapReduce sees it.                      *)
Avance == CASE archivos = {} -> "cerrado"
            [] archivos # {} /\ totalHecho -> "hecho"
            [] archivos # {} /\ ~totalHecho /\ totales > 0 -> "pedido"
            [] OTHER -> "no"

LEMMA Avances ==
  PromesaInv => /\ Avance = "no" <=> totales = 0
                /\ Avance = "pedido" <=> totales > 0 /\ ~totalHecho
                /\ Avance = "hecho" <=> totalHecho /\ archivos # {}
                /\ Avance = "cerrado" <=> archivos = {}
                /\ totalHecho => totales > 0
                /\ archivos = {} => totalHecho
<1>. SUFFICES ASSUME PromesaInv
              PROVE  /\ Avance = "no" <=> totales = 0
                     /\ Avance = "pedido" <=> totales > 0 /\ ~totalHecho
                     /\ Avance = "hecho" <=> totalHecho /\ archivos # {}
                     /\ Avance = "cerrado" <=> archivos = {}
                     /\ totalHecho => totales > 0
                     /\ archivos = {} => totalHecho
  OBVIOUS
<1>1. /\ totalHecho => totales > 0
      /\ archivos = {} => totalHecho
      /\ totales \in Nat /\ totalHecho \in BOOLEAN
  BY DEF PromesaInv, Camina, UnTotal, TypeInv, TypeOK
<1>2. CASE archivos = {}
  BY <1>1, <1>2 DEF Avance
<1>3. CASE archivos # {} /\ totalHecho
  BY <1>1, <1>3 DEF Avance
<1>4. CASE archivos # {} /\ ~totalHecho /\ totales > 0
  BY <1>1, <1>4 DEF Avance
<1>5. CASE archivos # {} /\ ~totalHecho /\ totales = 0
  BY <1>1, <1>5 DEF Avance
<1>. QED
  BY <1>1, <1>2, <1>3, <1>4, <1>5

(* A step of MaRTA, of the Job or of a node, seen from MapReduce.          *)
LEMMA PasoPromesa ==
  ASSUME PromesaInv, PromesaInv', [Next]_vars
  PROVE  \/ UNCHANGED <<mapHecho, reduceHecho, Avance>>
         \/ \E t \in Tarea :
              \/ /\ Avance = "no" /\ mapHecho' = mapHecho \cup {t}
                 /\ UNCHANGED <<reduceHecho, Avance>>
              \/ /\ Combiner /\ Avance = "no" /\ t \in mapHecho
                 /\ reduceHecho' = reduceHecho \cup {t}
                 /\ UNCHANGED <<mapHecho, Avance>>
         \/ /\ Avance = "no" /\ mapHecho = Tarea /\ (Combiner => reduceHecho = Tarea)
            /\ Avance' = "pedido"
            /\ UNCHANGED <<mapHecho, reduceHecho>>
         \/ /\ Avance = "pedido" /\ Avance' = "hecho"
            /\ UNCHANGED <<mapHecho, reduceHecho>>
         \/ /\ Avance = "hecho" /\ Avance' = "cerrado"
            /\ UNCHANGED <<mapHecho, reduceHecho>>
<1>. DEFINE Meta ==
         \/ UNCHANGED <<mapHecho, reduceHecho, Avance>>
         \/ \E t \in Tarea :
              \/ /\ Avance = "no" /\ mapHecho' = mapHecho \cup {t}
                 /\ UNCHANGED <<reduceHecho, Avance>>
              \/ /\ Combiner /\ Avance = "no" /\ t \in mapHecho
                 /\ reduceHecho' = reduceHecho \cup {t}
                 /\ UNCHANGED <<mapHecho, Avance>>
         \/ /\ Avance = "no" /\ mapHecho = Tarea /\ (Combiner => reduceHecho = Tarea)
            /\ Avance' = "pedido"
            /\ UNCHANGED <<mapHecho, reduceHecho>>
         \/ /\ Avance = "pedido" /\ Avance' = "hecho"
            /\ UNCHANGED <<mapHecho, reduceHecho>>
         \/ /\ Avance = "hecho" /\ Avance' = "cerrado"
            /\ UNCHANGED <<mapHecho, reduceHecho>>
<1>1. /\ Avance = "no" <=> totales = 0
      /\ Avance = "pedido" <=> totales > 0 /\ ~totalHecho
      /\ Avance = "hecho" <=> totalHecho /\ archivos # {}
      /\ Avance = "cerrado" <=> archivos = {}
      /\ totalHecho => totales > 0
      /\ archivos = {} => totalHecho
  BY Avances
<1>2. /\ Avance' = "no" <=> totales' = 0
      /\ Avance' = "pedido" <=> totales' > 0 /\ ~totalHecho'
      /\ Avance' = "hecho" <=> totalHecho' /\ archivos' # {}
      /\ Avance' = "cerrado" <=> archivos' = {}
  <2>1. (PromesaInv => /\ Avance = "no" <=> totales = 0
                       /\ Avance = "pedido" <=> totales > 0 /\ ~totalHecho
                       /\ Avance = "hecho" <=> totalHecho /\ archivos # {}
                       /\ Avance = "cerrado" <=> archivos = {}
                       /\ totalHecho => totales > 0
                       /\ archivos = {} => totalHecho)'
    BY Avances, PTL
  <2>. QED
    BY <2>1
<1>3. mapHecho \subseteq Tarea /\ reduceHecho \subseteq Tarea /\ totales \in Nat
      /\ totalHecho \in BOOLEAN
  BY DEF PromesaInv, Camina, TypeInv, TypeOK
<1>4. TotalTrasTodo
  BY TotalAlFinal
<1>5. ASSUME NEW h \in Hilo, NodoTermina(h)
      PROVE  Meta
  <2>. DEFINE m == leido[h]
  <2>1. /\ mapHecho' = IF m.tipo = "map" THEN mapHecho \cup {m.tarea} ELSE mapHecho
        /\ reduceHecho' = IF m.tipo = "reduce" THEN reduceHecho \cup {m.tarea} ELSE reduceHecho
        /\ totalHecho' = (totalHecho \/ m.tipo = "total")
        /\ UNCHANGED martaVars
    BY <1>5 DEF NodoTermina
  <2>2. /\ m \in MensajesAJob \cup {Vacio}
        /\ Pedida(m) /\ Mapeado(m)
        /\ \A t \in parcialReduce : Combiner
    BY DEF PromesaInv, Camina, Pedidas, MapInv, TypeInv, TypeOK
  <2>3. /\ m.tipo \in {"map", "reduce"} => m.tarea \in Tarea
        /\ m.tipo = "total" => m = Total
    BY <2>2, Clave
  <2>4. m = Total => archivos # {} /\ totales > 0
    <3>. SUFFICES ASSUME m = Total
                  PROVE  archivos # {} /\ totales > 0
      OBVIOUS
    <3>1. Activo(h)
      BY <1>5 DEF NodoTermina, Va, Activo
    <3>2. EnCurso(Total)
      BY <3>1 DEF EnCurso
    <3>. QED
      BY <2>2, <3>2, Clave DEF PromesaInv, Camina, UnTotal, Pedida
  <2>. HIDE DEF m
  <2>5. CASE m.tipo = "map"
    <3>1. UNCHANGED <<reduceHecho, totalHecho, archivos, totales>> /\ m.tarea \in Tarea
          /\ mapHecho' = mapHecho \cup {m.tarea}
      BY <1>3, <2>1, <2>3, <2>5 DEF martaVars
    <3>2. Avance' = Avance
      BY <3>1 DEF Avance
    <3>3. CASE totales = 0
      BY <1>1, <3>1, <3>2, <3>3
    <3>4. CASE totales > 0
      BY <1>4, <3>1, <3>2, <3>4 DEF TotalTrasTodo
    <3>. QED
      BY <1>3, <3>3, <3>4
  <2>6. CASE m.tipo = "reduce"
    <3>1. UNCHANGED <<mapHecho, totalHecho, archivos, totales>> /\ m.tarea \in Tarea
          /\ reduceHecho' = reduceHecho \cup {m.tarea}
      BY <1>3, <2>1, <2>3, <2>6 DEF martaVars
    <3>2. Avance' = Avance
      BY <3>1 DEF Avance
    <3>3. Combiner /\ m.tarea \in mapHecho
      BY <2>2, <2>6 DEF Pedida, Mapeado
    <3>4. CASE totales = 0
      BY <1>1, <3>1, <3>2, <3>3, <3>4
    <3>5. CASE totales > 0
      BY <1>4, <3>1, <3>2, <3>3, <3>5 DEF TotalTrasTodo
    <3>. QED
      BY <1>3, <3>4, <3>5
  <2>7. CASE m.tipo = "total"
    <3>1. UNCHANGED <<mapHecho, reduceHecho, archivos, totales>> /\ totalHecho'
      BY <2>1, <2>7 DEF martaVars
    <3>2. archivos # {} /\ totales > 0
      BY <2>3, <2>4, <2>7
    <3>3. Avance' = "hecho"
      BY <1>2, <3>1, <3>2
    <3>4. Avance = "hecho" \/ Avance = "pedido"
      BY <1>1, <1>3, <3>2
    <3>. QED
      BY <3>1, <3>3, <3>4
  <2>8. CASE m.tipo \notin {"map", "reduce", "total"}
    <3>1. UNCHANGED <<mapHecho, reduceHecho, totalHecho, archivos, totales>>
      BY <1>3, <2>1, <2>8 DEF martaVars
    <3>. QED
      BY <3>1 DEF Avance
  <2>. QED
    BY <2>5, <2>6, <2>7, <2>8
<1>6. ASSUME UNCHANGED nodoVars
      PROVE  Meta
  <2>1. CASE UNCHANGED <<archivos, totales>>
    BY <1>6, <2>1 DEF nodoVars, Avance
  <2>2. ASSUME NEW t \in Tarea, Responde(t), ~UNCHANGED <<archivos, totales>>
        PROVE  Meta
    <3>1. totales = 0 /\ totales' = 1
      BY <2>2 DEF Responde, PideTotal, PideLocal
    <3>2. Avance = "no" /\ Avance' = "pedido"
      BY <1>1, <1>2, <1>6, <3>1 DEF nodoVars
    <3>3. (PromesaInv => TotalTrasTodo)'
      BY TotalAlFinal, PTL
    <3>4. mapHecho = Tarea /\ (Combiner => reduceHecho = Tarea)
      BY <1>6, <3>1, <3>3 DEF TotalTrasTodo, nodoVars
    <3>. QED
      BY <1>6, <3>2, <3>4 DEF nodoVars
  <2>3. CASE CierraJob
    <3>1. archivos # {} /\ archivos' = {} /\ totalHecho
      BY <2>3 DEF CierraJob, PromesaInv, Camina, UnTotal
    <3>2. Avance = "hecho" /\ Avance' = "cerrado"
      BY <1>1, <1>2, <3>1
    <3>. QED
      BY <1>6, <3>2 DEF nodoVars
  <2>. HIDE DEF Meta
  <2>. QED
    BY <2>1, <2>2, <2>3, PasosDeMarta DEF PromesaInv, MartaEnviaMap
<1>. HIDE DEF Meta
<1>7. Meta
  BY <1>5, <1>6, PasosDelNodo
<1>. QED
  BY <1>7 DEF Meta

(* MaRTA, the Job and the nodes together do what MapReduce promises: the   *)
(* maps, then with combiner the local reduces, only then one total reduce, *)
(* and only then the end of the Job.                                       *)
THEOREM ImplementaMapReduce ==
  ASSUME Pausa
  PROVE  Spec => CumplePromesa
<1>1. Init => Promesa!Init
  <2>. SUFFICES ASSUME Init
                PROVE  Promesa!Init
    OBVIOUS
  <2>1. Avance = "no" /\ mapHecho = {} /\ reduceHecho = {}
    BY TareaAssumption DEF Init, Avance
  <2>. QED
    BY <2>1 DEF Promesa!Init, Avance
<1>2. PromesaInv /\ PromesaInv' /\ [Next]_vars => [Promesa!Next]_(Promesa!vars)
  <2>. SUFFICES ASSUME PromesaInv, PromesaInv', [Next]_vars
                PROVE  [Promesa!Next]_(Promesa!vars)
    OBVIOUS
  <2>. QED
    BY PasoPromesa, Zenon DEF Promesa!Next, Promesa!vars, Promesa!Mapea, Promesa!Reduce, Promesa!Pide,
         Promesa!Termina, Promesa!Cierra, Avance
<1>. QED
  BY <1>1, <1>2, PromesaSiempre, PTL DEF Spec, CumplePromesa, Promesa!Spec

============================================================================
