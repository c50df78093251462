----------------------------- MODULE Nodo_proofs -----------------------------
(***************************************************************************)
(* Proofs about Nodo for any requests, Jobs and blocks.                    *)
(*   BloqueSiempreEnSuLugar: the one position of the data file, which every*)
(*     thread moves, is never used by two at a time.                       *)
(*   PrimeraSubidaSiempre: the first upload is stored as it was sent.      *)
(*   TiposDelNodo: types, and how many answers may be unread.              *)
(*   SoloSeTrabanReduceYTotal: who can hold whose pipe.                    *)
(*   EnteroSiempreSinTotales: what is answered while semaforoMapper is     *)
(*     enough is whole.                                                    *)
(*   CadenaSiemprePropia: what is whole is of its Job and of its parts.    *)
(***************************************************************************)
EXTENDS Nodo, Secuencias_proofs

Rutinas == {"map", "reduce", "total", "set", "get"}

(* Every routine has steps, and the last one is "fin".                     *)
LEMMA CaminoTermina ==
  ASSUME NEW r \in Rutinas
  PROVE  /\ Len(Camino(r)) \in Nat \ {0}
         /\ DOMAIN Camino(r) = 1..Len(Camino(r))
         /\ Camino(r)[Len(Camino(r))] = "fin"
<1>1. CASE r = "map"
  BY <1>1 DEF Camino
<1>2. CASE r = "reduce"
  BY <1>2 DEF Camino
<1>3. CASE r = "total"
  BY <1>3 DEF Camino
<1>4. CASE r = "set"
  BY <1>4 DEF Camino
<1>5. CASE r = "get"
  BY <1>5 DEF Camino
<1>. QED
  BY <1>1, <1>2, <1>3, <1>4, <1>5 DEF Rutinas

(* The next step of a routine is one of its steps.                         *)
LEMMA SigueEnCamino ==
  ASSUME NEW h \in Hilo, Rutina(h) \in Rutinas,
         pc[h] \in ToSet(Camino(Rutina(h))), pc[h] # "fin"
  PROVE  Sigue(h) \in ToSet(Camino(Rutina(h)))
<1>. DEFINE c == Camino(Rutina(h))
            I == {i \in 1..Len(c) : c[i] = pc[h]}
<1>1. /\ Len(c) \in Nat \ {0}
      /\ DOMAIN c = 1..Len(c)
      /\ c[Len(c)] = "fin"
  BY CaminoTermina
<1>2. Min(I) \in I
  <2>1. I \in SUBSET Nat /\ I # {}
    BY <1>1 DEF ToSet
  <2>. QED
    BY <2>1, MinEs
<1>3. Sigue(h) = c[Min(I) + 1]
  BY <1>2 DEF Sigue, SelectInSeq
<1>4. Min(I) + 1 \in DOMAIN c
  BY <1>1, <1>2
<1>. QED
  BY <1>3, <1>4 DEF ToSet

(* The steps of setBloque, in their order.                                 *)
LEMMA CaminoDeSet ==
  ASSUME NEW h \in Hilo, Rutina(h) = "set"
  PROVE  /\ pc[h] = "pide" => Sigue(h) = "setBloque"
         /\ pc[h] = "setBloque" => Sigue(h) = "seek0"
         /\ pc[h] = "seek0" => Sigue(h) = "ceros"
         /\ pc[h] = "ceros" => Sigue(h) = "seek"
         /\ pc[h] = "seek" => Sigue(h) = "datos"
         /\ pc[h] = "datos" => Sigue(h) = "fin"
<1>. DEFINE c == Camino("set")
            I == {i \in 1..Len(c) : c[i] = pc[h]}
<1>1. c = <<"pide", "setBloque", "seek0", "ceros", "seek", "datos", "fin">>
  BY DEF Camino
<1>2. I # {} => Min(I) \in I
  <2>1. I \in SUBSET Nat
    BY <1>1
  <2>. QED
    BY <2>1, MinEs
<1>3. Sigue(h) = c[(IF I # {} THEN Min(I) ELSE 0) + 1]
  BY DEF Sigue, SelectInSeq
<1>4. ASSUME NEW i \in 1..6, pc[h] = c[i]
      PROVE  Sigue(h) = c[i + 1]
  <2>1. I = {i}
    BY <1>1, <1>4
  <2>. QED
    BY <2>1, <1>2, <1>3
<1>. QED
  BY <1>1, <1>4

(* No other routine has a step of setBloque.                               *)
LEMMA SoloSetLosTiene ==
  /\ ToSet(Camino("set")) = {"pide", "setBloque", "seek0", "ceros", "seek", "datos", "fin"}
  /\ \A r \in Rutinas \ {"set"} :
       ToSet(Camino(r)) \cap {"setBloque", "seek0", "ceros", "seek", "datos"} = {}
BY DEF Camino, Rutinas, ToSet
-----------------------------------------------------------------------------
(* The invariant.                                                          *)

Pasos == (UNION {ToSet(Camino(r)) : r \in Rutinas}) \cup {"cuelga"}

(* A thread walks the steps of its routine; one that waits for a command   *)
(* is at the step that started it.                                         *)
PasosInv ==
  /\ pedido \in [Hilo -> Pedido]
  /\ pc \in [Hilo -> Pasos]
  /\ \A h \in Hilo : pc[h] \in ToSet(Camino(Rutina(h))) \cup {"cuelga"}
  /\ lanzado \in [Hilo -> BOOLEAN]
  /\ \A h \in Hilo : lanzado[h] => pc[h] \in Comandos

(* A thread that is writing a block has semaforoSetBloque, and the position*)
(* is its own from each seek to the write after it.                        *)
EnSeccion(h) == Rutina(h) = "set" /\ pc[h] \in {"seek0", "ceros", "seek", "datos"}
Seccion ==
  /\ semaforo \in [{"mapper", "script", "setBloque"} -> Hilo \cup {Nada}]
  /\ datos \in [Bloque -> Dato \cup {Nada}]
  /\ \A h \in Hilo : EnSeccion(h) =>
       /\ semaforo["setBloque"] = h
       /\ pedido[h].bloque \in Bloque
       /\ pc[h] \in {"ceros", "datos"} => posicion = pedido[h].bloque

IInv == PasosInv /\ Seccion /\ BloqueEnSuLugar

(* The property, for one block.                                            *)
Suyos(b) == {h \in Hilo : Rutina(h) = "set" /\ pedido[h].bloque = b}
EnSuLugar(b) ==
  (\A h \in Suyos(b) : pc[h] \in {"pide", "setBloque", "fin"}) =>
    datos[b] \in IF {h \in Suyos(b) : pc[h] = "fin"} = {} THEN {Inicial[b]}
                 ELSE {pedido[h].dato : h \in {g \in Suyos(b) : pc[g] = "fin"}}

(* BloqueEnSuLugar says it of every block.                                 *)
LEMMA BloqueEnSuLugarEs ==
  /\ BloqueEnSuLugar <=> \A b \in Bloque : EnSuLugar(b)
  /\ BloqueEnSuLugar' <=> \A b \in Bloque : EnSuLugar(b)'
<1>1. \A b : {h \in Hacen({"set"}) : pedido[h].bloque = b} = Suyos(b)
  BY DEF Suyos, Hacen
<1>2. \A b : {h \in Hacen({"set"})' : pedido'[h].bloque = b} = Suyos(b)'
  BY DEF Suyos, Hacen
<1>3. BloqueEnSuLugar <=> \A b \in Bloque : EnSuLugar(b)
  BY <1>1 DEF BloqueEnSuLugar, EnSuLugar
<1>4. BloqueEnSuLugar' <=> \A b \in Bloque : EnSuLugar(b)'
  BY <1>2 DEF BloqueEnSuLugar, EnSuLugar
<1>. QED
  BY <1>3, <1>4

(* A request is for one of the five routines.                              *)
LEMMA RutinaEs == pedido \in [Hilo -> Pedido] => \A h \in Hilo : Rutina(h) \in Rutinas
BY DEF Rutina, Pedido, Rutinas

(* At the start nobody has a semaphore and every block holds what it held. *)
LEMMA IInit == Init => IInv
<1>. SUFFICES ASSUME Init
              PROVE  IInv
  OBVIOUS
<1>1. pedido \in [Hilo -> Pedido]
  BY NodoAssumption DEF Init
<1>2. \A r \in Rutinas : "pide" \in ToSet(Camino(r))
  <2>1. \A r \in Rutinas : Camino(r)[1] = "pide" /\ 1 \in DOMAIN Camino(r)
    BY DEF Rutinas, Camino
  <2>. QED
    BY <2>1 DEF ToSet
<1>3. PasosInv
  BY <1>1, <1>2, RutinaEs DEF Init, PasosInv, Pasos, Rutinas
<1>4. Seccion
  BY NodoAssumption DEF Init, Seccion, EnSeccion
<1>5. BloqueEnSuLugar
  BY DEF Init, BloqueEnSuLugar, Hacen
<1>. QED
  BY <1>3, <1>4, <1>5 DEF IInv

(* A step that moves no thread, no block and no semaphore.                 *)
LEMMA SinMover ==
  ASSUME IInv, UNCHANGED <<pedido, pc, semaforo, datos, posicion>>,
         lanzado' \in [Hilo -> BOOLEAN],
         \A h \in Hilo : lanzado'[h] => lanzado[h] \/ pc[h] \in Comandos
  PROVE  IInv'
BY DEF IInv, PasosInv, Seccion, EnSeccion, BloqueEnSuLugar, Hacen, Rutina

(* A thread that goes to the next step of its routine.                     *)
LEMMA PasoBien ==
  ASSUME IInv, NEW h \in Hilo, NEW p, Paso(h, p), p \notin {"fin", "cuelga"},
         pedido' = pedido, lanzado' \in [Hilo -> BOOLEAN], ~lanzado'[h],
         \A g \in Hilo \ {h} : lanzado'[g] = lanzado[g]
  PROVE  PasosInv' /\ pc' = [pc EXCEPT ![h] = Sigue(h)] /\ pc[h] = p
<1>1. pc[h] = p /\ pc' = [pc EXCEPT ![h] = Sigue(h)]
  BY DEF Paso, Listo
<1>2. Rutina(h) \in Rutinas
  BY RutinaEs DEF IInv, PasosInv
<1>3. Sigue(h) \in ToSet(Camino(Rutina(h)))
  BY <1>1, <1>2, SigueEnCamino DEF IInv, PasosInv
<1>4. Sigue(h) \in Pasos
  BY <1>2, <1>3 DEF Pasos
<1>. QED
  BY <1>1, <1>3, <1>4 DEF IInv, PasosInv, Rutina

DeSet == {"setBloque", "seek0", "ceros", "seek", "datos"}

(* The threads that write blocks stay where they are, or ask.              *)
LEMMA Ajeno ==
  ASSUME IInv, PasosInv', UNCHANGED <<pedido, datos, posicion>>,
         semaforo' \in [{"mapper", "script", "setBloque"} -> Hilo \cup {Nada}],
         semaforo'["setBloque"] = semaforo["setBloque"],
         \A g \in Hilo : Rutina(g) = "set" =>
           pc'[g] = pc[g] \/ (pc[g] = "pide" /\ pc'[g] = "setBloque")
  PROVE  IInv'
<1>1. Seccion'
  BY DEF IInv, Seccion, EnSeccion, Rutina
<1>2. BloqueEnSuLugar'
  <2>1. \A h \in Hilo : Rutina(h) = "set" =>
          /\ pc'[h] = "fin" <=> pc[h] = "fin"
          /\ pc'[h] \in {"pide", "setBloque", "fin"} <=> pc[h] \in {"pide", "setBloque", "fin"}
    OBVIOUS
  <2>2. ASSUME NEW b \in Bloque
        PROVE  /\ Suyos(b)' = Suyos(b)
               /\ {h \in Suyos(b) : pc'[h] = "fin"} = {h \in Suyos(b) : pc[h] = "fin"}
    BY <2>1 DEF Suyos, Rutina
  <2>3. ASSUME NEW b \in Bloque
        PROVE  EnSuLugar(b)'
    <3>1. EnSuLugar(b)
      BY BloqueEnSuLugarEs DEF IInv
    <3>2. (\A h \in Suyos(b) : pc'[h] \in {"pide", "setBloque", "fin"})
            <=> \A h \in Suyos(b) : pc[h] \in {"pide", "setBloque", "fin"}
      BY <2>1 DEF Suyos
    <3>. QED
      BY <2>2, <3>1, <3>2 DEF EnSuLugar
  <2>. QED
    BY <2>3, BloqueEnSuLugarEs
<1>. QED
  BY <1>1, <1>2 DEF IInv

(* A step of a thread that is not writing a block.                         *)
LEMMA PasoAjeno ==
  ASSUME IInv, NEW h \in Hilo, NEW p, Paso(h, p),
         p \notin DeSet \cup Comandos \cup {"fin", "cuelga"},
         UNCHANGED <<pedido, lanzado, datos, posicion>>,
         semaforo' \in [{"mapper", "script", "setBloque"} -> Hilo \cup {Nada}],
         semaforo'["setBloque"] = semaforo["setBloque"]
  PROVE  IInv'
<1>1. pc[h] = p
  BY DEF Paso, Listo
<1>2. ~lanzado[h]
  BY <1>1 DEF IInv, PasosInv
<1>3. PasosInv' /\ pc' = [pc EXCEPT ![h] = Sigue(h)]
  BY <1>1, <1>2, PasoBien DEF IInv, PasosInv
<1>4. Rutina(h) = "set" => p = "pide"
  BY <1>1, SoloSetLosTiene DEF IInv, PasosInv, DeSet
<1>5. Rutina(h) = "set" => pc'[h] = "setBloque"
  BY <1>1, <1>3, <1>4, CaminoDeSet DEF IInv, PasosInv
<1>. QED
  BY <1>1, <1>3, <1>4, <1>5, Ajeno DEF IInv, PasosInv
-----------------------------------------------------------------------------
(* The steps of setBloque.                                                 *)

(* A thread that writes, or is about to, disturbs no block but its own.    *)
LEMMA SuBloque ==
  ASSUME IInv, NEW h \in Hilo, Rutina(h) = "set", pedido' = pedido,
         pc[h] \in DeSet, pc' = [pc EXCEPT ![h] = Sigue(h)],
         \A b \in Bloque \ {pedido[h].bloque} : datos'[b] = datos[b],
         pc[h] = "datos" /\ pedido[h].bloque \in Bloque =>
           datos'[pedido[h].bloque] = pedido[h].dato
  PROVE  BloqueEnSuLugar'
<1>1. IF pc[h] = "datos" THEN pc'[h] = "fin" ELSE pc'[h] \in {"seek0", "ceros", "seek", "datos"}
  BY CaminoDeSet DEF IInv, PasosInv, DeSet
<1>2. \A b : Suyos(b)' = Suyos(b)
  BY DEF Suyos, Rutina
<1>3. ASSUME NEW b \in Bloque
      PROVE  EnSuLugar(b)'
  <2>1. CASE b = pedido[h].bloque
    <3>1. h \in Suyos(b)
      BY <2>1 DEF Suyos
    <3>2. CASE pc[h] = "datos"
      <4>1. h \in {g \in Suyos(b) : pc'[g] = "fin"} /\ datos'[b] = pedido[h].dato
        BY <1>1, <2>1, <3>1, <3>2
      <4>. QED
        BY <1>2, <4>1 DEF EnSuLugar
    <3>3. CASE pc[h] # "datos"
      BY <1>1, <1>2, <3>1, <3>3 DEF EnSuLugar
    <3>. QED
      BY <3>2, <3>3
  <2>2. CASE b # pedido[h].bloque
    <3>1. EnSuLugar(b)
      BY BloqueEnSuLugarEs DEF IInv
    <3>2. h \notin Suyos(b)
      BY <2>2 DEF Suyos
    <3>3. \A g \in Suyos(b) : pc'[g] = pc[g]
      BY <3>2 DEF Suyos
    <3>. QED
      BY <1>2, <2>2, <3>1, <3>3 DEF EnSuLugar
  <2>. QED
    BY <2>1, <2>2
<1>. QED
  BY <1>3, BloqueEnSuLugarEs

(* Where a thread at a step of setBloque comes from and goes.              *)
LEMMA PasoDeSet ==
  ASSUME IInv, NEW h \in Hilo, NEW p \in DeSet, Paso(h, p), UNCHANGED <<pedido, lanzado>>
  PROVE  /\ PasosInv' /\ pc' = [pc EXCEPT ![h] = Sigue(h)] /\ pc[h] = p
         /\ Rutina(h) = "set"
<1>1. pc[h] = p
  BY DEF Paso, Listo
<1>2. ~lanzado[h]
  BY <1>1 DEF IInv, PasosInv, DeSet, Comandos
<1>3. PasosInv' /\ pc' = [pc EXCEPT ![h] = Sigue(h)]
  BY <1>1, <1>2, PasoBien DEF IInv, PasosInv, DeSet
<1>4. Rutina(h) = "set"
  BY <1>1, SoloSetLosTiene, RutinaEs DEF IInv, PasosInv, DeSet
<1>. QED
  BY <1>1, <1>3, <1>4

(* The steps of a thread that writes a block keep the invariant.            *)
LEMMA PasosDeSet ==
  ASSUME IInv, NEW h \in Hilo,
         TomaSetBloque(h) \/ Posiciona(h) \/ EscribeCeros(h) \/ EscribeDatos(h)
  PROVE  IInv'
<1>1. CASE TomaSetBloque(h) /\ pedido[h].bloque \notin Bloque
  <2>1. UNCHANGED <<pedido, pc, semaforo, lanzado, datos, posicion>>
    BY <1>1 DEF TomaSetBloque, bloques
  <2>. QED
    BY <2>1, SinMover DEF IInv, PasosInv
<1>2. CASE TomaSetBloque(h) /\ pedido[h].bloque \in Bloque
  <2>1. /\ Paso(h, "setBloque") /\ Toma(h, "setBloque")
        /\ UNCHANGED <<pedido, lanzado, datos, posicion>>
    BY <1>2 DEF TomaSetBloque, bloques
  <2>2. /\ PasosInv' /\ pc' = [pc EXCEPT ![h] = Sigue(h)] /\ pc[h] = "setBloque"
        /\ Rutina(h) = "set"
    BY <2>1, PasoDeSet DEF DeSet
  <2>3. pc' = [pc EXCEPT ![h] = "seek0"]
    BY <2>2, CaminoDeSet
  <2>4. semaforo["setBloque"] = Nada /\ semaforo' = [semaforo EXCEPT !["setBloque"] = h]
    BY <2>1 DEF Toma, SinEsperar
  <2>5. \A g \in Hilo : ~EnSeccion(g)
    BY <2>4, NodoAssumption DEF IInv, Seccion
  <2>6. Seccion'
    BY <1>2, <2>1, <2>3, <2>4, <2>5 DEF IInv, Seccion, EnSeccion, PasosInv, Rutina
  <2>7. BloqueEnSuLugar'
    BY <2>1, <2>2, SuBloque DEF DeSet
  <2>. QED
    BY <2>2, <2>6, <2>7 DEF IInv
<1>3. CASE Posiciona(h)
  <2>1. PICK p \in {"seek0", "seek"} : Paso(h, p)
    BY <1>3 DEF Posiciona
  <2>2. posicion' = pedido[h].bloque /\ UNCHANGED <<pedido, lanzado, semaforo, datos>>
    BY <1>3 DEF Posiciona
  <2>3. /\ PasosInv' /\ pc' = [pc EXCEPT ![h] = Sigue(h)] /\ pc[h] = p
        /\ Rutina(h) = "set"
    BY <2>1, <2>2, PasoDeSet DEF DeSet
  <2>4. Sigue(h) \in {"ceros", "datos"}
    BY <2>3, CaminoDeSet
  <2>5. EnSeccion(h) /\ \A g \in Hilo \ {h} : ~EnSeccion(g)
    BY <2>3 DEF IInv, Seccion, EnSeccion
  <2>6. Seccion'
    BY <2>2, <2>3, <2>4, <2>5 DEF IInv, Seccion, EnSeccion, PasosInv, Rutina
  <2>7. BloqueEnSuLugar'
    BY <2>2, <2>3, SuBloque DEF DeSet
  <2>. QED
    BY <2>3, <2>6, <2>7 DEF IInv
<1>4. CASE EscribeCeros(h)
  <2>1. /\ Paso(h, "ceros") /\ EscribeEn(posicion, Nada)
        /\ UNCHANGED <<pedido, lanzado, semaforo>>
    BY <1>4 DEF EscribeCeros
  <2>2. /\ PasosInv' /\ pc' = [pc EXCEPT ![h] = Sigue(h)] /\ pc[h] = "ceros"
        /\ Rutina(h) = "set"
    BY <2>1, PasoDeSet DEF DeSet
  <2>3. Sigue(h) = "seek"
    BY <2>2, CaminoDeSet
  <2>4. EnSeccion(h) /\ \A g \in Hilo \ {h} : ~EnSeccion(g)
    BY <2>2 DEF IInv, Seccion, EnSeccion
  <2>5. /\ posicion = pedido[h].bloque
        /\ \A b \in Bloque \ {pedido[h].bloque} : datos'[b] = datos[b]
        /\ datos' \in [Bloque -> Dato \cup {Nada}]
    BY <2>1, <2>2, <2>4 DEF IInv, Seccion, EscribeEn
  <2>6. Seccion'
    BY <2>1, <2>2, <2>3, <2>4, <2>5 DEF IInv, Seccion, EnSeccion, PasosInv, Rutina
  <2>7. BloqueEnSuLugar'
    BY <2>1, <2>2, <2>5, SuBloque DEF DeSet
  <2>. QED
    BY <2>2, <2>6, <2>7 DEF IInv
<1>5. CASE EscribeDatos(h)
  <2>1. /\ Paso(h, "datos") /\ EscribeEn(posicion, pedido[h].dato)
        /\ Suelta(h, "setBloque") /\ UNCHANGED <<pedido, lanzado>>
    BY <1>5 DEF EscribeDatos
  <2>2. /\ PasosInv' /\ pc' = [pc EXCEPT ![h] = Sigue(h)] /\ pc[h] = "datos"
        /\ Rutina(h) = "set"
    BY <2>1, PasoDeSet DEF DeSet
  <2>3. Sigue(h) = "fin"
    BY <2>2, CaminoDeSet
  <2>4. EnSeccion(h) /\ \A g \in Hilo \ {h} : ~EnSeccion(g)
    BY <2>2 DEF IInv, Seccion, EnSeccion
  <2>5. pedido[h].dato \in Dato \cup {Nada}
    BY DEF IInv, PasosInv, Pedido
  <2>6. /\ posicion = pedido[h].bloque
        /\ \A b \in Bloque \ {pedido[h].bloque} : datos'[b] = datos[b]
        /\ datos' \in [Bloque -> Dato \cup {Nada}]
        /\ pedido[h].bloque \in Bloque => datos'[pedido[h].bloque] = pedido[h].dato
    BY <2>1, <2>2, <2>4, <2>5 DEF IInv, Seccion, EscribeEn
  <2>7. Seccion'
    BY <2>1, <2>2, <2>3, <2>4, <2>6 DEF IInv, Seccion, EnSeccion, PasosInv, Rutina, Suelta
  <2>8. BloqueEnSuLugar'
    BY <2>1, <2>2, <2>6, SuBloque DEF DeSet
  <2>. QED
    BY <2>2, <2>7, <2>8 DEF IInv
<1>. QED
  BY <1>1, <1>2, <1>3, <1>4, <1>5
-----------------------------------------------------------------------------
(* The other steps.                                                        *)

(* They take and release the other two semaphores.                         *)
LEMMA OtroSemaforo ==
  ASSUME IInv, NEW h \in Hilo, NEW s \in {"mapper", "script"},
         Toma(h, s) \/ Suelta(h, s)
  PROVE  /\ semaforo' \in [{"mapper", "script", "setBloque"} -> Hilo \cup {Nada}]
         /\ semaforo'["setBloque"] = semaforo["setBloque"]
BY DEF IInv, Seccion, Toma, Suelta, SinEsperar

(* A thread that waited for its command goes on.                           *)
LEMMA TrasComando ==
  ASSUME IInv, NEW h \in Hilo, EsperaComando(h)
  PROVE  IInv'
<1>1. /\ lanzado[h] /\ lanzado' = [lanzado EXCEPT ![h] = FALSE]
      /\ pc' = [pc EXCEPT ![h] = Sigue(h)] /\ ~caido
      /\ UNCHANGED <<pedido, semaforo, datos, posicion>>
  BY DEF EsperaComando, bloques
<1>2. pc[h] \in Comandos
  BY <1>1 DEF IInv, PasosInv
<1>3. PasosInv'
  <2>1. Paso(h, pc[h])
    BY <1>1 DEF Paso, Listo
  <2>. QED
    BY <1>1, <1>2, <2>1, PasoBien DEF IInv, PasosInv, Comandos
<1>4. Rutina(h) # "set"
  BY <1>2, SoloSetLosTiene DEF IInv, PasosInv, Comandos
<1>. QED
  BY <1>1, <1>3, <1>4, Ajeno DEF IInv, PasosInv, Seccion

(* So do those of a thread that does anything else.                        *)
LEMMA PasosDeHilo ==
  ASSUME IInv, NEW h \in Hilo, Atiende(h) \/ Pide(h)
  PROVE  IInv'
<1>. USE DEF bloques, DeSet, Comandos
<1>1. CASE Pide(h)
  BY <1>1, PasoAjeno DEF Pide, IInv, Seccion
<1>2. CASE TomaMapper(h)
  BY <1>2, OtroSemaforo, PasoAjeno DEF TomaMapper
<1>3. CASE TomaScript(h)
  BY <1>3, OtroSemaforo, PasoAjeno DEF TomaScript
<1>4. CASE SueltaScript(h)
  BY <1>4, OtroSemaforo, PasoAjeno DEF SueltaScript
<1>5. CASE AbreGuion(h)
  BY <1>5, PasoAjeno DEF AbreGuion, IInv, Seccion
<1>6. CASE GrabaGuion(h)
  BY <1>6, PasoAjeno DEF GrabaGuion, IInv, Seccion
<1>7. CASE LanzaComando(h)
  <2>1. /\ pc[h] \in Comandos /\ lanzado' = [lanzado EXCEPT ![h] = TRUE]
        /\ UNCHANGED <<pedido, pc, semaforo, datos, posicion>>
    BY <1>7 DEF LanzaComando
  <2>2. lanzado' \in [Hilo -> BOOLEAN]
    BY <2>1 DEF IInv, PasosInv
  <2>. QED
    BY <2>1, <2>2, SinMover DEF IInv, PasosInv
<1>8. CASE EsperaComando(h)
  BY <1>8, TrasComando
<1>9. CASE LeeEntrada(h)
  <2>1. CASE Paso(h, "lee")
    BY <1>9, <2>1, PasoAjeno DEF LeeEntrada, IInv, Seccion
  <2>2. CASE UNCHANGED pc
    BY <1>9, <2>2, SinMover DEF LeeEntrada, IInv, PasosInv
  <2>. QED
    BY <1>9, <2>1, <2>2 DEF LeeEntrada
<1>10. CASE Junta(h)
  <2>1. CASE Paso(h, "junta")
    BY <1>10, <2>1, PasoAjeno DEF Junta, IInv, Seccion
  <2>2. CASE UNCHANGED pc
    BY <1>10, <2>2, SinMover DEF Junta, IInv, PasosInv
  <2>3. CASE pc[h] = "junta" /\ pc' = [pc EXCEPT ![h] = "cuelga"]
    <3>1. UNCHANGED <<pedido, lanzado, semaforo, datos, posicion>>
      BY <1>10 DEF Junta
    <3>2. PasosInv'
      <4>1. "cuelga" \in Pasos /\ "junta" \notin Comandos /\ ~lanzado[h]
        BY <2>3 DEF Pasos, Comandos, IInv, PasosInv
      <4>2. pc' \in [Hilo -> Pasos]
        BY <2>3, <4>1 DEF IInv, PasosInv
      <4>3. \A g \in Hilo \ {h} : pc'[g] = pc[g] /\ Rutina(g)' = Rutina(g)
        BY <2>3, <3>1 DEF IInv, PasosInv, Rutina
      <4>4. pc'[h] = "cuelga" /\ Rutina(h)' = Rutina(h)
        BY <2>3, <3>1 DEF IInv, PasosInv, Rutina
      <4>. QED
        BY <3>1, <4>1, <4>2, <4>3, <4>4 DEF IInv, PasosInv
    <3>3. Rutina(h) # "set"
      BY <2>3, SoloSetLosTiene DEF IInv, PasosInv
    <3>. QED
      BY <2>3, <3>1, <3>2, <3>3, Ajeno DEF IInv, PasosInv, Seccion
  <2>. QED
    BY <1>10, <2>1, <2>2, <2>3 DEF Junta, Listo
<1>11. CASE Entuba(h)
  BY <1>11, PasoAjeno DEF Entuba, IInv, Seccion
<1>12. CASE Bifurca(h)
  BY <1>12, PasoAjeno DEF Bifurca, IInv, Seccion
<1>13. CASE Escribe(h)
  <2>1. CASE Paso(h, "escribe")
    BY <1>13, <2>1, PasoAjeno DEF Escribe, IInv, Seccion
  <2>2. CASE UNCHANGED pc
    BY <1>13, <2>2, SinMover DEF Escribe, IInv, PasosInv
  <2>. QED
    BY <1>13, <2>1, <2>2 DEF Escribe
<1>14. CASE Espera(h)
  BY <1>14, PasoAjeno DEF Espera, IInv, Seccion
<1>15. CASE Responde(h)
  BY <1>15, OtroSemaforo, PasoAjeno DEF Responde
<1>16. CASE Sube(h)
  BY <1>16, PasoAjeno DEF Sube, IInv, Seccion
<1>17. CASE MandaCuerpo(h)
  BY <1>17, PasoAjeno DEF MandaCuerpo, IInv, Seccion
<1>18. CASE LeeOk(h)
  BY <1>18, PasoAjeno DEF LeeOk, IInv, Seccion
<1>19. CASE TomaSetBloque(h) \/ Posiciona(h) \/ EscribeCeros(h) \/ EscribeDatos(h)
  BY <1>19, PasosDeSet
<1>20. CASE AnunciaBloque(h)
  BY <1>20, PasoAjeno DEF AnunciaBloque, IInv, Seccion
<1>21. CASE MandaBloque(h)
  BY <1>21, PasoAjeno DEF MandaBloque, IInv, Seccion
<1>. QED
  BY <1>1, <1>2, <1>3, <1>4, <1>5, <1>6, <1>7, <1>8, <1>9, <1>10, <1>11, <1>12, <1>13,
     <1>14, <1>15, <1>16, <1>17, <1>18, <1>19, <1>20, <1>21 DEF Atiende

(* Children and the Filesystem touch neither the blocks nor the threads.   *)
LEMMA PasosAjenos ==
  ASSUME IInv,
         \/ \E c \in hijos : TerminaComando(c) \/ TerminaGuion(c)
         \/ FsCabecera \/ FsCuerpo \/ FsGuarda
  PROVE  IInv'
<1>1. UNCHANGED <<pedido, pc, lanzado, semaforo, datos, posicion>>
  BY DEF TerminaComando, TerminaGuion, FsCabecera, FsCuerpo, FsGuarda, bloques
<1>. QED
  BY <1>1, SinMover DEF IInv, PasosInv

(* Every step keeps the invariant.                                         *)
LEMMA IStep == IInv /\ [Next]_vars => IInv'
<1>. SUFFICES ASSUME IInv, [Next]_vars
              PROVE  IInv'
  OBVIOUS
<1>1. ASSUME NEW h \in Hilo, Atiende(h) \/ Pide(h)
      PROVE  IInv'
  BY <1>1, PasosDeHilo
<1>2. CASE \/ \E c \in hijos : TerminaComando(c) \/ TerminaGuion(c)
           \/ FsCabecera \/ FsCuerpo \/ FsGuarda
  BY <1>2, PasosAjenos
<1>3. CASE UNCHANGED vars
  BY <1>3, SinMover DEF vars, IInv, PasosInv
<1>. QED
  BY <1>1, <1>2, <1>3 DEF Next, Avanza

(* setBloque seeks and writes twice on the one FILE that all the threads   *)
(* share; semaforoSetBloque makes that one operation: whatever is asked of *)
(* a node, by any number of threads, a block that nobody is writing holds  *)
(* what was put there last, or what it held at the start.                  *)
THEOREM BloqueSiempreEnSuLugar == Spec => []BloqueEnSuLugar
<1>1. IInv => BloqueEnSuLugar
  BY DEF IInv
<1>. QED
  BY <1>1, IInit, IStep, PTL DEF Spec
-----------------------------------------------------------------------------
(* The steps that each step of a routine leads to.                         *)

(* The step after one that the routine has only once.                      *)
LEMMA SigueEs ==
  ASSUME NEW h \in Hilo, NEW c, c = Camino(Rutina(h)), Len(c) \in Nat, NEW i \in 1..Len(c),
         pc[h] = c[i], \A j \in 1..Len(c) : c[j] = c[i] => j = i
  PROVE  Sigue(h) = c[i + 1]
<1>. DEFINE I == {j \in 1..Len(c) : c[j] = pc[h]}
<1>1. I = {i}
  OBVIOUS
<1>2. Min(I) = i
  <2>1. I \in SUBSET Nat /\ I # {}
    BY <1>1
  <2>. QED
    BY <1>1, <2>1, MinEs
<1>. QED
  BY <1>1, <1>2 DEF Sigue, SelectInSeq

(* Every step of a map, of a reduce and of a total reduce.                 *)
OrdenMap(p) ==
  CASE p = "pide" -> 1 [] p = "mapper" -> 2 [] p = "abre" -> 3 [] p = "graba" -> 4
       [] p = "chmod" -> 5 [] p = "script" -> 6 [] p = "tubo" -> 7 [] p = "fork" -> 8
       [] p = "escribe" -> 9 [] p = "espera" -> 10 [] p = "suelta" -> 11
       [] p = "sort" -> 12 [] p = "rmTmp" -> 13 [] p = "rmGuion" -> 14
       [] p = "responde" -> 15 [] p = "fin" -> 16
OrdenReduce(p) ==
  CASE p = "pide" -> 1 [] p = "mapper" -> 2 [] p = "abre" -> 3 [] p = "graba" -> 4
       [] p = "chmod" -> 5 [] p = "lee" -> 6 [] p = "tubo" -> 7 [] p = "fork" -> 8
       [] p = "escribe" -> 9 [] p = "espera" -> 10 [] p = "rmGuion" -> 11
       [] p = "rmEntrada" -> 12 [] p = "responde" -> 13 [] p = "fin" -> 14

OrdenTotal(p) ==
  CASE p = "pide" -> 1 [] p = "abre" -> 2 [] p = "graba" -> 3 [] p = "chmod" -> 4
    [] p = "junta" -> 5 [] p = "script" -> 6 [] p = "tubo" -> 7 [] p = "fork" -> 8
    [] p = "escribe" -> 9 [] p = "espera" -> 10 [] p = "suelta" -> 11 [] p = "sube" -> 12
    [] p = "cuerpo" -> 13 [] p = "ok" -> 14 [] p = "fin" -> 15

(* Of a map.                                                               *)
LEMMA SigueMap ==
  ASSUME NEW h \in Hilo, Rutina(h) = "map"
  PROVE  /\ pc[h] = "pide" => Sigue(h) = "mapper"
         /\ pc[h] = "mapper" => Sigue(h) = "abre"
         /\ pc[h] = "abre" => Sigue(h) = "graba"
         /\ pc[h] = "graba" => Sigue(h) = "chmod"
         /\ pc[h] = "chmod" => Sigue(h) = "script"
         /\ pc[h] = "script" => Sigue(h) = "tubo"
         /\ pc[h] = "tubo" => Sigue(h) = "fork"
         /\ pc[h] = "fork" => Sigue(h) = "escribe"
         /\ pc[h] = "escribe" => Sigue(h) = "espera"
         /\ pc[h] = "espera" => Sigue(h) = "suelta"
         /\ pc[h] = "suelta" => Sigue(h) = "sort"
         /\ pc[h] = "sort" => Sigue(h) = "rmTmp"
         /\ pc[h] = "rmTmp" => Sigue(h) = "rmGuion"
         /\ pc[h] = "rmGuion" => Sigue(h) = "responde"
         /\ pc[h] = "responde" => Sigue(h) = "fin"
<1>. DEFINE c == Camino("map")
<1>0. c = Camino(Rutina(h))
  OBVIOUS
<1>1. c = <<"pide", "mapper", "abre", "graba", "chmod", "script", "tubo", "fork",
            "escribe", "espera", "suelta", "sort", "rmTmp", "rmGuion", "responde",
            "fin">>
  BY DEF Camino
<1>2. Len(c) = 16 /\ \A j \in 1..16 : OrdenMap(c[j]) = j
  <2>1. Len(c) = 16 /\ \A j \in 1..8 : OrdenMap(c[j]) = j
    BY <1>1 DEF OrdenMap
  <2>2. \A j \in 9..16 : OrdenMap(c[j]) = j
    BY <1>1 DEF OrdenMap
  <2>. HIDE DEF c
  <2>. QED
    BY <2>1, <2>2
<1>3. ASSUME NEW i \in 1..15, pc[h] = c[i]
      PROVE  Sigue(h) = c[i + 1]
  <2>. HIDE DEF c
  <2>1. \A j \in 1..Len(c) : c[j] = c[i] => j = i
    BY <1>2
  <2>2. Len(c) \in Nat /\ i \in 1..Len(c)
    BY <1>2
  <2>. QED
    BY <1>0, <1>3, <2>1, <2>2, SigueEs
<1>. QED
  BY <1>1, <1>3

(* Of a reduce.                                                            *)
LEMMA SigueReduce ==
  ASSUME NEW h \in Hilo, Rutina(h) = "reduce"
  PROVE  /\ pc[h] = "pide" => Sigue(h) = "mapper"
         /\ pc[h] = "mapper" => Sigue(h) = "abre"
         /\ pc[h] = "abre" => Sigue(h) = "graba"
         /\ pc[h] = "graba" => Sigue(h) = "chmod"
         /\ pc[h] = "chmod" => Sigue(h) = "lee"
         /\ pc[h] = "lee" => Sigue(h) = "tubo"
         /\ pc[h] = "tubo" => Sigue(h) = "fork"
         /\ pc[h] = "fork" => Sigue(h) = "escribe"
         /\ pc[h] = "escribe" => Sigue(h) = "espera"
         /\ pc[h] = "espera" => Sigue(h) = "rmGuion"
         /\ pc[h] = "rmGuion" => Sigue(h) = "rmEntrada"
         /\ pc[h] = "rmEntrada" => Sigue(h) = "responde"
         /\ pc[h] = "responde" => Sigue(h) = "fin"
<1>. DEFINE c == Camino("reduce")
<1>0. c = Camino(Rutina(h))
  OBVIOUS
<1>1. c = <<"pide", "mapper", "abre", "graba", "chmod", "lee", "tubo", "fork",
            "escribe", "espera", "rmGuion", "rmEntrada", "responde", "fin">>
  BY DEF Camino
<1>2. Len(c) = 14 /\ \A j \in 1..14 : OrdenReduce(c[j]) = j
  <2>1. Len(c) = 14 /\ \A j \in 1..8 : OrdenReduce(c[j]) = j
    BY <1>1 DEF OrdenReduce
  <2>2. \A j \in 9..14 : OrdenReduce(c[j]) = j
    BY <1>1 DEF OrdenReduce
  <2>. HIDE DEF c
  <2>. QED
    BY <2>1, <2>2
<1>3. ASSUME NEW i \in 1..13, pc[h] = c[i]
      PROVE  Sigue(h) = c[i + 1]
  <2>. HIDE DEF c
  <2>1. \A j \in 1..Len(c) : c[j] = c[i] => j = i
    BY <1>2
  <2>2. Len(c) \in Nat /\ i \in 1..Len(c)
    BY <1>2
  <2>. QED
    BY <1>0, <1>3, <2>1, <2>2, SigueEs
<1>. QED
  BY <1>1, <1>3

(* Of a total reduce.                                                      *)
LEMMA SigueTotal ==
  ASSUME NEW h \in Hilo, Rutina(h) = "total"
  PROVE  /\ pc[h] = "pide" => Sigue(h) = "abre"
         /\ pc[h] = "abre" => Sigue(h) = "graba"
         /\ pc[h] = "graba" => Sigue(h) = "chmod"
         /\ pc[h] = "chmod" => Sigue(h) = "junta"
         /\ pc[h] = "junta" => Sigue(h) = "script"
         /\ pc[h] = "script" => Sigue(h) = "tubo"
         /\ pc[h] = "tubo" => Sigue(h) = "fork"
         /\ pc[h] = "fork" => Sigue(h) = "escribe"
         /\ pc[h] = "escribe" => Sigue(h) = "espera"
         /\ pc[h] = "espera" => Sigue(h) = "suelta"
         /\ pc[h] = "suelta" => Sigue(h) = "sube"
         /\ pc[h] = "sube" => Sigue(h) = "cuerpo"
         /\ pc[h] = "cuerpo" => Sigue(h) = "ok"
         /\ pc[h] = "ok" => Sigue(h) = "fin"
<1>. DEFINE c == Camino("total")
<1>0. c = Camino(Rutina(h))
  OBVIOUS
<1>1. c = <<"pide", "abre", "graba", "chmod", "junta", "script", "tubo", "fork",
            "escribe", "espera", "suelta", "sube", "cuerpo", "ok", "fin">>
  BY DEF Camino
<1>2. Len(c) = 15 /\ \A j \in 1..15 : OrdenTotal(c[j]) = j
  <2>1. Len(c) = 15 /\ \A j \in 1..8 : OrdenTotal(c[j]) = j
    BY <1>1 DEF OrdenTotal
  <2>2. \A j \in 9..15 : OrdenTotal(c[j]) = j
    BY <1>1 DEF OrdenTotal
  <2>. HIDE DEF c
  <2>. QED
    BY <2>1, <2>2
<1>3. ASSUME NEW i \in 1..14, pc[h] = c[i]
      PROVE  Sigue(h) = c[i + 1]
  <2>. HIDE DEF c
  <2>1. \A j \in 1..Len(c) : c[j] = c[i] => j = i
    BY <1>2
  <2>2. Len(c) \in Nat /\ i \in 1..Len(c)
    BY <1>2
  <2>. QED
    BY <1>0, <1>3, <2>1, <2>2, SigueEs
<1>. QED
  BY <1>1, <1>3

(* Of a get.                                                               *)
LEMMA SigueGet ==
  ASSUME NEW h \in Hilo, Rutina(h) = "get"
  PROVE  /\ pc[h] = "pide" => Sigue(h) = "anuncia"
         /\ pc[h] = "anuncia" => Sigue(h) = "manda"
         /\ pc[h] = "manda" => Sigue(h) = "fin"
<1>. DEFINE c == Camino("get")
<1>0. c = Camino(Rutina(h))
  OBVIOUS
<1>1. c = <<"pide", "anuncia", "manda", "fin">>
  BY DEF Camino
<1>2. Len(c) = 4
  BY <1>1
<1>3. ASSUME NEW i \in 1..3, pc[h] = c[i]
      PROVE  Sigue(h) = c[i + 1]
  <2>1. \A j \in 1..Len(c) : c[j] = c[i] => j = i
    BY <1>1
  <2>. HIDE DEF c
  <2>2. Len(c) \in Nat /\ i \in 1..Len(c)
    BY <1>2
  <2>. QED
    BY <1>0, <1>3, <2>1, <2>2, SigueEs
<1>. QED
  BY <1>1, <1>3
-----------------------------------------------------------------------------
(* The upload of the result of a total reduce while no second one was      *)
(* asked for.  Of what the node and the Filesystem say to each other over  *)
(* socket_Fs the answer that is left over does no harm yet.                *)
Totales == Pedidos({"total"})

(* The steps of a total reduce up to its upload.                           *)
Antes == {"pide", "abre", "graba", "chmod", "junta", "script", "tubo", "fork", "escribe",
          "espera", "suelta", "sube", "cuelga"}
DeSubir == {"sube", "cuerpo", "ok", "fin", "cuelga"}

(* Nothing was said yet over socket_Fs.                                    *)
Vacia == alFs = <<>> /\ delFs = 0 /\ fs.estado = "libre"
Recibe(h) == fs = [estado |-> "cuerpo", de |-> h]

(* Where the only upload is.                                               *)
EnCabecera(h) ==
  \/ alFs = <<Cabecera(h)>> /\ delFs = 0 /\ fs.estado = "libre"
  \/ alFs = <<>> /\ delFs = 1 /\ Recibe(h)
EnCuerpo(h) ==
  \/ alFs = <<Cuerpo(h)>> /\ delFs = 0 /\ Recibe(h)
  \/ alFs = <<>> /\ delFs = 1 /\ fs.estado = "guarda" /\ guardado[h] = salio[h]
  \/ alFs = <<>> /\ delFs = 2 /\ fs.estado = "libre" /\ guardado[h] = salio[h]
Guardada(h) == alFs = <<>> /\ fs.estado \in {"guarda", "libre"} /\ guardado[h] = salio[h]

Subida(h) ==
  /\ pc[h] \in Antes => Vacia
  /\ pc[h] = "cuerpo" => EnCabecera(h)
  /\ pc[h] = "ok" => EnCuerpo(h)
  /\ pc[h] = "fin" => Guardada(h)

SubidaInv ==
  /\ guardado = [h \in Hilo |-> guardado[h]] /\ salio = [h \in Hilo |-> salio[h]]
  /\ Totales = {} => Vacia
  /\ \A h \in Hilo : Totales = {h} => Subida(h)

(* What comes after each.                                                  *)
LEMMA CaminoDeTotal ==
  ASSUME NEW h \in Hilo, Rutina(h) = "total"
  PROVE  /\ pc[h] \in Antes \ {"sube", "cuelga"} => Sigue(h) \in Antes \ {"pide", "cuelga"}
         /\ pc[h] = "sube" => Sigue(h) = "cuerpo"
         /\ pc[h] = "cuerpo" => Sigue(h) = "ok"
         /\ pc[h] = "ok" => Sigue(h) = "fin"
BY SigueTotal DEF Antes

(* A total reduce that is not uploading is at a step before.               *)
LEMMA AntesDeSubir ==
  ASSUME PasosInv, NEW h \in Hilo, Rutina(h) = "total"
  PROVE  /\ pc[h] \notin DeSubir => pc[h] \in Antes \ {"sube", "cuelga"}
         /\ pc[h] \notin {"responde", "manda", "rmEntrada"}
<1>1. ToSet(Camino("total")) =
        {"pide", "abre", "graba", "chmod", "junta", "script", "tubo", "fork",
         "escribe", "espera", "suelta", "sube", "cuerpo", "ok", "fin"}
  BY DEF Camino, ToSet
<1>. QED
  BY <1>1 DEF PasosInv, DeSubir, Antes

(* At the start nobody asked.                                              *)
LEMMA SubidaInit == Init => SubidaInv
<1>. SUFFICES ASSUME Init
              PROVE  SubidaInv
  OBVIOUS
<1>1. Totales = {}
  BY DEF Init, Totales, Pedidos, Hacen
<1>. QED
  BY <1>1 DEF Init, SubidaInv, Vacia

(* Steps of any thread that is not uploading.                              *)
LEMMA Aparte ==
  ASSUME IInv, SubidaInv, NEW g \in Hilo, pc[g] \notin DeSubir,
         UNCHANGED <<pedido, conexion>>,
         \/ pc' = pc \/ pc' = [pc EXCEPT ![g] = Sigue(g)]
         \/ pc[g] = "junta" /\ pc' = [pc EXCEPT ![g] = "cuelga"],
         \/ salio' = salio
         \/ pc[g] \in {"responde", "manda"} /\ \E x : salio' = [salio EXCEPT ![g] = x]
  PROVE  SubidaInv'
<1>1. /\ pc \in [Hilo -> Pasos]
      /\ \A h \in Hilo \ {g} : pc'[h] = pc[h]
      /\ \A h \in Hilo : Rutina(h)' = Rutina(h)
  BY DEF IInv, PasosInv, Rutina
<1>2. ASSUME Rutina(g) = "total"
      PROVE  pc[g] \in Antes /\ pc'[g] \in Antes /\ salio' = salio /\ (pc[g] # "pide" => pc'[g] # "pide")
  <2>1. pc[g] \in Antes \ {"sube", "cuelga"} /\ pc[g] \notin {"responde", "manda"}
    BY <1>2, AntesDeSubir DEF IInv
  <2>2. Sigue(g) \in Antes \ {"pide", "cuelga"}
    BY <1>2, <2>1, CaminoDeTotal
  <2>. QED
    BY <1>1, <2>1, <2>2 DEF Antes
<1>3. Totales \subseteq Totales' /\ Totales' \subseteq Totales \cup {g}
  BY <1>1, <1>2 DEF Totales, Pedidos, Hacen
<1>4. ASSUME NEW h \in Hilo, Rutina(h) = "total", h # g
      PROVE  salio'[h] = salio[h]
  BY <1>4 DEF SubidaInv
<1>5. salio' = [h \in Hilo |-> salio'[h]] /\ guardado' = guardado
  BY DEF SubidaInv, conexion
<1>6. Vacia' <=> Vacia
  BY DEF Vacia, conexion
<1>7. Totales' = {} => Vacia'
  BY <1>3, <1>6 DEF SubidaInv
<1>8. ASSUME NEW h \in Hilo, Totales' = {h}
      PROVE  Subida(h)'
  <2>1. Rutina(h) = "total" /\ pc'[h] # "pide"
    BY <1>1, <1>8 DEF Totales, Pedidos, Hacen
  <2>2. CASE h = g
    <3>1. Vacia
      BY <1>2, <1>3, <1>8, <2>1, <2>2 DEF SubidaInv, Subida
    <3>. QED
      BY <1>2, <1>6, <2>1, <2>2, <3>1 DEF Subida, Antes
  <2>3. CASE h # g
    <3>1. pc'[h] = pc[h] /\ salio'[h] = salio[h] /\ h \in Totales
      BY <1>1, <1>4, <1>8, <2>1, <2>3 DEF Totales, Pedidos, Hacen
    <3>2. Totales = {h}
      BY <1>3, <1>8, <3>1
    <3>3. Subida(h)
      BY <3>2 DEF SubidaInv
    <3>. QED
      BY <1>6, <3>1, <3>3 DEF Subida, EnCabecera, EnCuerpo, Guardada, Recibe, Cabecera, Cuerpo,
                             conexion
  <2>. QED
    BY <2>2, <2>3
<1>. QED
  BY <1>5, <1>7, <1>8 DEF SubidaInv
-----------------------------------------------------------------------------
(* The steps of the upload.                                                *)

(* The node's side: only the total reduce h has one of these steps, and it *)
(* is the only one that was asked for.                                     *)
LEMMA PasoDeSubida ==
  ASSUME IInv, SubidaInv, NEW g \in Hilo, Sube(g) \/ MandaCuerpo(g) \/ LeeOk(g)
  PROVE  SubidaInv'
<1>1. /\ pc \in [Hilo -> Pasos]
      /\ pc[g] \in {"sube", "cuerpo", "ok"} /\ pc' = [pc EXCEPT ![g] = Sigue(g)]
      /\ UNCHANGED <<pedido, fs, guardado>>
  BY DEF IInv, PasosInv, Sube, MandaCuerpo, LeeOk, Paso, Listo
<1>2. Rutina(g) = "total"
  <2>1. \A r \in Rutinas \ {"total"} : ToSet(Camino(r)) \cap {"sube", "cuerpo", "ok"} = {}
    BY DEF Rutinas, Camino, ToSet
  <2>2. Rutina(g) \in Rutinas
    BY RutinaEs DEF IInv, PasosInv
  <2>. QED
    BY <1>1, <2>1, <2>2 DEF IInv, PasosInv
<1>3. \A h \in Hilo : Rutina(h)' = Rutina(h)
  BY <1>1 DEF Rutina
<1>4. /\ pc[g] = "sube" => pc'[g] = "cuerpo"
      /\ pc[g] = "cuerpo" => pc'[g] = "ok"
      /\ pc[g] = "ok" => pc'[g] = "fin"
  BY <1>1, <1>2, CaminoDeTotal
<1>5. Totales' = Totales /\ g \in Totales
  BY <1>1, <1>2, <1>3, <1>4 DEF Totales, Pedidos, Hacen
<1>6. salio' = [h \in Hilo |-> salio'[h]] /\ guardado' = [h \in Hilo |-> guardado'[h]]
  BY <1>1 DEF SubidaInv, Sube, MandaCuerpo, LeeOk
<1>7. ASSUME Totales = {g}
      PROVE  Subida(g)'
  <2>1. Subida(g)
    BY <1>7 DEF SubidaInv
  <2>2. CASE Sube(g)
    <3>1. pc[g] = "sube" /\ alFs' = Append(alFs, Cabecera(g)) /\ delFs' = delFs
      BY <2>2 DEF Sube, Paso, Listo
    <3>2. Vacia
      BY <2>1, <3>1 DEF Subida, Antes
    <3>3. EnCabecera(g)'
      BY <1>1, <3>1, <3>2 DEF EnCabecera, Vacia, Cabecera
    <3>. QED
      BY <1>4, <3>1, <3>3 DEF Subida, Antes
  <2>3. CASE MandaCuerpo(g)
    <3>1. /\ pc[g] = "cuerpo" /\ alFs' = Append(alFs, Cuerpo(g)) /\ salio' = salio
          /\ \E k \in 1..delFs : delFs' = delFs - k
      BY <2>3 DEF MandaCuerpo, Paso, Listo, Respuestas, Lee
    <3>2. EnCabecera(g)
      BY <2>1, <3>1 DEF Subida
    <3>3. alFs = <<>> /\ delFs = 1 /\ Recibe(g)
      BY <3>1, <3>2 DEF EnCabecera
    <3>4. alFs' = <<Cuerpo(g)>> /\ delFs' = 0 /\ Recibe(g)' /\ Cuerpo(g)' = Cuerpo(g)
      BY <1>1, <3>1, <3>3 DEF Recibe, Cuerpo
    <3>5. EnCuerpo(g)'
      BY <3>4 DEF EnCuerpo
    <3>. QED
      BY <1>4, <3>1, <3>5 DEF Subida, Antes
  <2>4. CASE LeeOk(g)
    <3>1. pc[g] = "ok" /\ delFs > 0 /\ UNCHANGED <<alFs, salio>>
      BY <2>4 DEF LeeOk, Paso, Listo
    <3>2. EnCuerpo(g)
      BY <2>1, <3>1 DEF Subida
    <3>3. Guardada(g)
      BY <3>1, <3>2 DEF EnCuerpo, Guardada
    <3>4. Guardada(g)'
      BY <1>1, <3>1, <3>3 DEF Guardada
    <3>. QED
      BY <1>4, <3>1, <3>4 DEF Subida, Antes
  <2>. QED
    BY <2>2, <2>3, <2>4
<1>. QED
  BY <1>5, <1>6, <1>7 DEF SubidaInv

(* The Filesystem's side: while there is one upload it reads a first burst *)
(* where there is one, and the content after it.                           *)
LEMMA PasoDelFs ==
  ASSUME IInv, SubidaInv, FsCabecera \/ FsCuerpo \/ FsGuarda
  PROVE  SubidaInv'
<1>1. UNCHANGED <<pedido, pc, salio>>
  BY DEF FsCabecera, FsCuerpo, FsGuarda
<1>2. Totales' = Totales
  BY <1>1 DEF Totales, Pedidos, Hacen, Rutina
<1>3. guardado' = [h \in Hilo |-> guardado'[h]]
  BY DEF SubidaInv, FsCabecera, FsCuerpo, FsGuarda
<1>4. ~Vacia
  BY DEF Vacia, FsCabecera, FsCuerpo, FsGuarda
<1>5. ASSUME NEW h \in Hilo, Totales = {h}
      PROVE  Subida(h)'
  <2>1. Subida(h) /\ pc[h] \notin Antes
    BY <1>4, <1>5 DEF SubidaInv, Subida
  <2>2. CASE pc[h] = "cuerpo"
    <3>1. EnCabecera(h)
      BY <2>1, <2>2 DEF Subida
    <3>2. alFs = <<Cabecera(h)>> /\ delFs = 0 /\ fs.estado = "libre" /\ FsCabecera
      BY <3>1 DEF EnCabecera, Recibe, FsCabecera, FsCuerpo, FsGuarda
    <3>3. Head(alFs) = Cabecera(h) /\ Tail(alFs) = <<>>
      BY <3>2
    <3>4. alFs' = <<>> /\ delFs' = 1 /\ Recibe(h)'
      BY <3>2, <3>3 DEF FsCabecera, Cabecera, Recibe
    <3>. QED
      BY <1>1, <2>1, <2>2, <3>4 DEF Subida, EnCabecera, Antes
  <2>3. CASE pc[h] = "ok"
    <3>1. EnCuerpo(h)
      BY <2>1, <2>3 DEF Subida
    <3>2. CASE alFs = <<Cuerpo(h)>> /\ delFs = 0 /\ Recibe(h)
      <4>1. FsCuerpo /\ fs.estado = "cuerpo" /\ fs.de = h
        BY <3>2 DEF Recibe, FsCabecera, FsCuerpo, FsGuarda
      <4>2. Head(alFs) = Cuerpo(h) /\ Tail(alFs) = <<>>
        BY <3>2
      <4>3. /\ alFs' = <<>> /\ delFs' = 1 /\ fs'.estado = "guarda"
            /\ guardado' = [guardado EXCEPT ![h] = salio[h]]
        BY <3>2, <4>1, <4>2 DEF FsCuerpo, Cuerpo, Recibe
      <4>4. guardado'[h] = salio'[h]
        BY <1>1, <4>3 DEF SubidaInv
      <4>. QED
        BY <1>1, <2>3, <4>3, <4>4 DEF Subida, EnCuerpo, Antes
    <3>3. CASE alFs = <<>> /\ delFs = 1 /\ fs.estado = "guarda" /\ guardado[h] = salio[h]
      <4>1. alFs' = <<>> /\ delFs' = 2 /\ fs'.estado = "libre" /\ guardado' = guardado
        BY <3>3 DEF FsCabecera, FsCuerpo, FsGuarda
      <4>. QED
        BY <1>1, <2>3, <3>3, <4>1 DEF Subida, EnCuerpo, Antes
    <3>4. ~ (alFs = <<>> /\ fs.estado = "libre")
      BY DEF FsCabecera, FsCuerpo, FsGuarda
    <3>. QED
      BY <3>1, <3>2, <3>3, <3>4 DEF EnCuerpo
  <2>4. CASE pc[h] = "fin"
    <3>1. Guardada(h)
      BY <2>1, <2>4 DEF Subida
    <3>2. alFs' = <<>> /\ fs'.estado = "libre" /\ guardado' = guardado
      BY <3>1 DEF Guardada, FsCabecera, FsCuerpo, FsGuarda
    <3>. QED
      BY <1>1, <2>4, <3>1, <3>2 DEF Subida, Guardada, Antes
  <2>5. CASE pc[h] \notin {"cuerpo", "ok", "fin"}
    BY <1>1, <2>1, <2>5 DEF Subida
  <2>. QED
    BY <2>2, <2>3, <2>4, <2>5
<1>6. Totales # {}
  BY <1>4 DEF SubidaInv
<1>. QED
  BY <1>1, <1>2, <1>3, <1>5, <1>6 DEF SubidaInv
-----------------------------------------------------------------------------
(* Every other step.                                                       *)

(* Any step of a thread: those of the upload, and the others, which leave  *)
(* the connection alone.                                                   *)
LEMMA SubidaAtiende ==
  ASSUME IInv, SubidaInv, NEW g \in Hilo, Atiende(g) \/ Pide(g)
  PROVE  SubidaInv'
<1>. USE DEF DeSubir, Paso, Listo
<1>1. CASE Pide(g) \/ TomaMapper(g) \/ TomaScript(g) \/ SueltaScript(g)
  BY <1>1, Aparte DEF Pide, TomaMapper, TomaScript, SueltaScript
<1>2. CASE AbreGuion(g) \/ GrabaGuion(g)
  BY <1>2, Aparte DEF AbreGuion, GrabaGuion
<1>3. CASE LanzaComando(g)
  BY <1>3, Aparte DEF LanzaComando, Comandos
<1>4. CASE EsperaComando(g)
  <2>1. pc[g] \in Comandos
    BY <1>4 DEF EsperaComando, IInv, PasosInv
  <2>. QED
    BY <1>4, <2>1, Aparte DEF EsperaComando, Comandos
<1>5. CASE LeeEntrada(g)
  BY <1>5, Aparte DEF LeeEntrada
<1>6. CASE Junta(g)
  BY <1>6, Aparte DEF Junta
<1>7. CASE Entuba(g) \/ Bifurca(g)
  BY <1>7, Aparte DEF Entuba, Bifurca
<1>8. CASE Escribe(g) \/ Espera(g)
  BY <1>8, Aparte DEF Escribe, Espera
<1>9. CASE Responde(g) \/ MandaBloque(g) \/ AnunciaBloque(g)
  BY <1>9, Aparte DEF Responde, MandaBloque, AnunciaBloque
<1>10. CASE Sube(g) \/ MandaCuerpo(g) \/ LeeOk(g)
  BY <1>10, PasoDeSubida
<1>11. CASE TomaSetBloque(g) \/ Posiciona(g) \/ EscribeCeros(g) \/ EscribeDatos(g)
  BY <1>11, Aparte DEF TomaSetBloque, Posiciona, EscribeCeros, EscribeDatos
<1>. QED
  BY <1>1, <1>2, <1>3, <1>4, <1>5, <1>6, <1>7, <1>8, <1>9, <1>10, <1>11 DEF Atiende

(* Every step of the node and of the Filesystem keeps the invariant.       *)
LEMMA SubidaStep == IInv /\ SubidaInv /\ [Next]_vars => SubidaInv'
<1>. SUFFICES ASSUME IInv, SubidaInv, [Next]_vars
              PROVE  SubidaInv'
  OBVIOUS
<1>1. ASSUME NEW g \in Hilo, Atiende(g) \/ Pide(g)
      PROVE  SubidaInv'
  BY <1>1, SubidaAtiende
<1>2. ASSUME UNCHANGED <<pedido, pc, conexion, salio>>
      PROVE  SubidaInv'
  BY <1>2 DEF SubidaInv, Totales, Pedidos, Hacen, Rutina, Vacia, Subida, EnCabecera, EnCuerpo,
              Guardada, Recibe, Cabecera, Cuerpo, conexion
<1>3. CASE \E c \in hijos : TerminaComando(c) \/ TerminaGuion(c)
  BY <1>2, <1>3 DEF TerminaComando, TerminaGuion
<1>4. CASE FsCabecera \/ FsCuerpo \/ FsGuarda
  BY <1>4, PasoDelFs
<1>5. CASE UNCHANGED vars
  BY <1>2, <1>5 DEF vars, conexion
<1>. QED
  BY <1>1, <1>3, <1>4, <1>5 DEF Next, Avanza

(* subirArchivoAFilesystem takes whatever the Filesystem says for its own  *)
(* answer, and one answer more than it reads is sent; with one total       *)
(* reduce that is enough: when its thread ends the Filesystem has stored   *)
(* the result that was sent, whatever else the node is doing.              *)
THEOREM PrimeraSubidaSiempre == Spec => []PrimeraSubida
<1>1. SubidaInv => PrimeraSubida
  <2>. SUFFICES ASSUME SubidaInv, NEW h \in Totales, pc[h] = "fin", Totales = {h}
                PROVE  guardado[h] = salio[h]
    BY DEF PrimeraSubida, Totales
  <2>. QED
    BY DEF SubidaInv, Subida, Guardada, Totales, Pedidos, Hacen
<1>. QED
  BY <1>1, IInit, IStep, SubidaInit, SubidaStep, PTL DEF Spec
-----------------------------------------------------------------------------
(* Types, of what the other parts do not say.                              *)
Descriptores == Hilo \X (Guion \cup Nombre \cup {"tubo"})
Hijos == [padre : Hilo, que : Comandos \cup {"guion"}, por : Job \cup {Nada},
          vivo : BOOLEAN, abiertos : SUBSET Descriptores]
Tipos ==
  /\ pedido \in Casos
  /\ arch \in [Nombre -> Contenido \cup {Nada}] /\ tmp \in [Nombre -> Contenido \cup {Nada}]
  /\ guion \in [Guion \cup Nombre -> Job \cup {Nada}]
  /\ abiertos \in SUBSET Descriptores /\ hijos \in SUBSET Hijos
  /\ leido \in [Hilo -> Contenido] /\ salio \in [Hilo -> Contenido \cup {Nada}]
  /\ posicion \in Nat /\ caido \in BOOLEAN
TiposFs ==
  /\ alFs \in Seq(Mensaje) /\ delFs \in Nat
  /\ fs \in [estado : {"libre", "cuerpo", "falta", "guarda", "perdido"}, de : Hilo \cup {Nada}]
  /\ fs.estado \in {"cuerpo", "falta"} => fs.de \in Hilo
  /\ guardado \in [Hilo -> Contenido \cup {Nada}]
-----------------------------------------------------------------------------
(* The steps of each routine, as a set.                                    *)
LEMMA PasosDeCadaRutina ==
  /\ ToSet(Camino("map")) =
       {"pide", "mapper", "abre", "graba", "chmod", "script", "tubo", "fork", "escribe",
        "espera", "suelta", "sort", "rmTmp", "rmGuion", "responde", "fin"}
  /\ ToSet(Camino("reduce")) =
       {"pide", "mapper", "abre", "graba", "chmod", "lee", "tubo", "fork", "escribe",
        "espera", "rmGuion", "rmEntrada", "responde", "fin"}
  /\ ToSet(Camino("total")) =
       {"pide", "abre", "graba", "chmod", "junta", "script", "tubo", "fork", "escribe",
        "espera", "suelta", "sube", "cuerpo", "ok", "fin"}
  /\ ToSet(Camino("set")) =
       {"pide", "setBloque", "seek0", "ceros", "seek", "datos", "fin"}
  /\ ToSet(Camino("get")) = {"pide", "anuncia", "manda", "fin"}
<1>1. ToSet(Camino("map")) =
       {"pide", "mapper", "abre", "graba", "chmod", "script", "tubo", "fork", "escribe",
        "espera", "suelta", "sort", "rmTmp", "rmGuion", "responde", "fin"}
  BY DEF Camino, ToSet
<1>2. ToSet(Camino("reduce")) =
       {"pide", "mapper", "abre", "graba", "chmod", "lee", "tubo", "fork", "escribe",
        "espera", "rmGuion", "rmEntrada", "responde", "fin"}
  BY DEF Camino, ToSet
<1>3. ToSet(Camino("total")) =
       {"pide", "abre", "graba", "chmod", "junta", "script", "tubo", "fork", "escribe",
        "espera", "suelta", "sube", "cuerpo", "ok", "fin"}
  BY DEF Camino, ToSet
<1>4. ToSet(Camino("set")) =
       {"pide", "setBloque", "seek0", "ceros", "seek", "datos", "fin"}
  BY DEF Camino, ToSet
<1>5. ToSet(Camino("get")) = {"pide", "anuncia", "manda", "fin"}
  BY DEF Camino, ToSet
<1>. QED
  BY <1>1, <1>2, <1>3, <1>4, <1>5

(* Which routine a thread at a step is serving.                            *)
LEMMA RutinaDelPaso ==
  ASSUME PasosInv, NEW h \in Hilo
  PROVE  /\ Rutina(h) \in Rutinas
         /\ pc[h] = "mapper" => Rutina(h) \in {"map", "reduce"}
         /\ pc[h] \in {"abre", "graba", "chmod", "tubo", "fork", "escribe", "espera"} =>
              Rutina(h) \in {"map", "reduce", "total"}
         /\ pc[h] \in {"script", "suelta"} => Rutina(h) \in {"map", "total"}
         /\ pc[h] \in {"lee", "rmEntrada"} => Rutina(h) = "reduce"
         /\ pc[h] \in {"junta", "sube", "cuerpo", "ok"} => Rutina(h) = "total"
         /\ pc[h] \in {"sort", "rmTmp"} => Rutina(h) = "map"
         /\ pc[h] \in {"rmGuion", "responde"} => Rutina(h) \in {"map", "reduce"}
         /\ pc[h] \in DeSet => Rutina(h) = "set"
         /\ pc[h] \in {"anuncia", "manda"} => Rutina(h) = "get"
<1>1. Rutina(h) \in Rutinas
  BY RutinaEs DEF PasosInv
<1>2. pc[h] \in ToSet(Camino(Rutina(h))) \cup {"cuelga"}
  BY DEF PasosInv
<1>. QED
  BY <1>1, <1>2, PasosDeCadaRutina DEF Rutinas, DeSet

(* What a request has.                                                     *)
LEMMA PedidoBien ==
  ASSUME pedido \in Casos, NEW h \in Hilo
  PROVE  /\ pedido[h] \in Pedido
         /\ Rutina(h) \in {"map", "reduce", "total"} =>
              /\ pedido[h].job \in Job /\ pedido[h].salida \in Nombre
              /\ GuionDe(h) \in Guion \cup Nombre
         /\ Rutina(h) = "reduce" =>
              LaEntrada(h) \in Nombre /\ pedido[h].entradas = {LaEntrada(h)}
         /\ Rutina(h) \in {"map", "get"} => pedido[h].bloque \in Bloque
         /\ pedido[h].entradas \subseteq Nombre
<1>1. /\ pedido[h] \in Pedido
      /\ Rutina(h) = "reduce" => \E n \in Nombre : pedido[h].entradas = {n}
      /\ Rutina(h) \in {"map", "reduce", "total"} =>
           pedido[h].job \in Job /\ pedido[h].salida \in Nombre
      /\ Rutina(h) \in {"map", "total"} => pedido[h].guion \in Guion
      /\ Rutina(h) \in {"map", "get"} => pedido[h].bloque \in Bloque
  BY NodoAssumption DEF Rutina
<1>2. pedido[h].entradas \subseteq Nombre
  BY <1>1 DEF Pedido
<1>3. ASSUME Rutina(h) = "reduce"
      PROVE  LaEntrada(h) \in Nombre /\ pedido[h].entradas = {LaEntrada(h)}
  <2>1. PICK n \in Nombre : pedido[h].entradas = {n}
    BY <1>1, <1>3
  <2>. QED
    BY <2>1 DEF LaEntrada
<1>. QED
  BY <1>1, <1>2, <1>3 DEF GuionDe
-----------------------------------------------------------------------------
(* Types.                                                                  *)
LEMMA TiposInit == Init => Tipos /\ TiposFs
<1>. SUFFICES ASSUME Init
              PROVE  Tipos /\ TiposFs
  OBVIOUS
<1>1. \A h \in Hilo : AMedias(h) \in Contenido
  BY DEF AMedias, Contenido
<1>2. Tipos
  BY <1>1 DEF Init, Tipos
<1>3. TiposFs
  BY DEF Init, TiposFs
<1>. QED
  BY <1>2, <1>3

(* What a thread may read.                                                 *)
LEMMA ContenidoBien ==
  ASSUME IInv, Tipos
  PROVE  /\ \A h \in Hilo : AMedias(h) \in Contenido
         /\ \A b \in Bloque : EnBloque(b) \in Contenido
         /\ \A c \in hijos : Escrito(c) \in Contenido
<1>1. \A h \in Hilo : AMedias(h) \in Contenido
  BY DEF AMedias, Contenido
<1>2. \A b \in Bloque : EnBloque(b) \in Contenido
  BY DEF EnBloque, Contenido, IInv, Seccion
<1>3. \A c \in hijos : Escrito(c) \in Contenido
  BY DEF Escrito, Contenido, Tipos, Hijos
<1>. QED
  BY <1>1, <1>2, <1>3

(* A child of thread h.                                                    *)
LEMMA HijoBien ==
  ASSUME Tipos, NEW h \in Hilo, NEW que \in Comandos \cup {"guion"}, NEW por \in Job \cup {Nada}
  PROVE  hijos \cup {Hijo(h, que, por)} \in SUBSET Hijos
<1>1. abiertos \ {<<h, "tubo">>} \in SUBSET Descriptores
  BY DEF Tipos
<1>2. Hijo(h, que, por) \in Hijos
  BY <1>1 DEF Hijo, Hijos
<1>. QED
  BY <1>2 DEF Tipos

(* A child that ends.                                                      *)
LEMMA TerminaBien ==
  ASSUME Tipos, NEW c \in hijos, Termina(c)
  PROVE  hijos' \in SUBSET Hijos
BY DEF Tipos, Termina, Hijos, Descriptores

(* A thread's steps keep the types.                                        *)
LEMMA TiposAtiende ==
  ASSUME IInv, Tipos, NEW h \in Hilo, Atiende(h) \/ Pide(h)
  PROVE  Tipos'
<1>. USE DEF archivos, proceso, bloques
<1>0. /\ PasosInv /\ pedido \in Casos
      /\ pedido[h].salida \in Nombre \/ Rutina(h) \notin {"map", "reduce", "total"}
  BY PedidoBien DEF IInv, Tipos
<1>1. CASE Pide(h) \/ TomaMapper(h) \/ TomaScript(h) \/ SueltaScript(h)
  BY <1>1 DEF Pide, TomaMapper, TomaScript, SueltaScript, Tipos
<1>2. CASE AbreGuion(h)
  <2>1. GuionDe(h) \in Guion \cup Nombre
    BY <1>0, <1>2, RutinaDelPaso, PedidoBien DEF AbreGuion, Paso, Listo
  <2>. QED
    BY <1>2, <2>1 DEF AbreGuion, Tipos, Descriptores
<1>3. CASE GrabaGuion(h)
  <2>1. pedido[h].job \in Job
    BY <1>0, <1>3, RutinaDelPaso, PedidoBien DEF GrabaGuion, Paso, Listo
  <2>. QED
    BY <1>3, <2>1 DEF GrabaGuion, Tipos
<1>4. CASE LanzaComando(h)
  BY <1>4, HijoBien DEF LanzaComando, Tipos
<1>5. CASE EsperaComando(h)
  BY <1>5 DEF EsperaComando, Tipos
<1>6. CASE LeeEntrada(h)
  <2>1. CASE UNCHANGED leido
    BY <1>6, <2>1 DEF LeeEntrada, Tipos
  <2>2. CASE Paso(h, "lee") /\ arch[LaEntrada(h)] # Nada
    <3>1. LaEntrada(h) \in Nombre
      BY <1>0, <2>2, RutinaDelPaso, PedidoBien DEF Paso, Listo
    <3>2. arch[LaEntrada(h)] \in Contenido
      BY <2>2, <3>1 DEF Tipos
    <3>3. leido' = [leido EXCEPT ![h] = arch[LaEntrada(h)]] \/ UNCHANGED leido
      BY <1>6, <2>2 DEF LeeEntrada
    <3>. QED
      BY <1>6, <3>2, <3>3 DEF LeeEntrada, Tipos
  <2>. QED
    BY <1>6, <2>1, <2>2 DEF LeeEntrada
<1>7. CASE Junta(h)
  <2>. DEFINE hay == Partes(h) \ {Nada}
              x == [de |-> UNION {p.de : p \in hay}, por |-> Nada, hilo |-> Nada,
                    entero |-> Nada \notin Partes(h) /\ \A p \in hay : p.entero]
  <2>1. pedido[h].entradas \subseteq Nombre
    BY <1>0, PedidoBien
  <2>2. hay \subseteq Contenido
    BY <2>1 DEF Partes, Tipos
  <2>3. x.entero \in BOOLEAN /\ x.de \in SUBSET Dato
    BY <2>2 DEF Contenido
  <2>4. x \in Contenido
    BY <2>3 DEF Contenido
  <2>5. leido' = leido \/ leido' = [leido EXCEPT ![h] = x]
    BY <1>7 DEF Junta
  <2>6. leido' \in [Hilo -> Contenido]
    BY <2>4, <2>5 DEF Tipos
  <2>7. caido' \in BOOLEAN
    BY <1>7 DEF Junta, Tipos
  <2>. QED
    BY <1>7, <2>6, <2>7 DEF Junta, Tipos
<1>8. CASE Entuba(h)
  BY <1>8 DEF Entuba, Tipos, Descriptores
<1>9. CASE Bifurca(h)
  <2>1. GuionDe(h) \in Guion \cup Nombre
    BY <1>0, <1>9, RutinaDelPaso, PedidoBien DEF Bifurca, Paso, Listo
  <2>2. Ejecutable(h) \in Job \cup {Nada}
    BY <2>1 DEF Ejecutable, Tipos
  <2>3. hijos' \in SUBSET Hijos
    BY <1>9, <2>2, HijoBien DEF Bifurca
  <2>4. tmp' \in [Nombre -> Contenido \cup {Nada}] /\ arch' \in [Nombre -> Contenido \cup {Nada}]
    BY <1>9, ContenidoBien DEF Bifurca, Tipos
  <2>. QED
    BY <1>9, <2>3, <2>4 DEF Bifurca, Tipos
<1>10. CASE Escribe(h)
  <2>1. CASE Paso(h, "escribe")
    <3>1. Rutina(h) = "map" => pedido[h].bloque \in Bloque
      BY <1>0, PedidoBien
    <3>2. leido' \in [Hilo -> Contenido]
      BY <1>10, <3>1, ContenidoBien DEF Escribe, Tipos
    <3>3. abiertos' \in SUBSET Descriptores /\ caido' \in BOOLEAN
      BY <1>10 DEF Escribe, Tipos
    <3>. QED
      BY <1>10, <3>2, <3>3 DEF Escribe, Tipos
  <2>2. CASE UNCHANGED <<leido, abiertos>>
    BY <1>10, <2>2 DEF Escribe, Tipos
  <2>. QED
    BY <1>10, <2>1, <2>2 DEF Escribe
<1>11. CASE Espera(h)
  BY <1>11 DEF Espera, Tipos
<1>12. CASE Responde(h)
  <2>1. pedido[h].salida \in Nombre
    BY <1>0, <1>12, RutinaDelPaso DEF Responde, Paso, Listo
  <2>. QED
    BY <1>12, <2>1 DEF Responde, Tipos
<1>13. CASE Sube(h)
  <2>1. pedido[h].salida \in Nombre
    BY <1>0, <1>13, RutinaDelPaso DEF Sube, Paso, Listo
  <2>. QED
    BY <1>13, <2>1 DEF Sube, Tipos
<1>14. CASE MandaCuerpo(h) \/ LeeOk(h)
  BY <1>14 DEF MandaCuerpo, LeeOk, Tipos
<1>15. CASE TomaSetBloque(h)
  BY <1>15 DEF TomaSetBloque, Tipos
<1>16. CASE Posiciona(h)
  <2>1. EnSeccion(h)
    BY <1>0, <1>16, RutinaDelPaso DEF Posiciona, Paso, Listo, EnSeccion, DeSet
  <2>2. pedido[h].bloque \in Nat
    BY <2>1, NodoAssumption DEF IInv, Seccion
  <2>. QED
    BY <1>16, <2>2 DEF Posiciona, Tipos
<1>17. CASE EscribeCeros(h) \/ EscribeDatos(h)
  BY <1>17 DEF EscribeCeros, EscribeDatos, Tipos
<1>18. CASE AnunciaBloque(h)
  <2>1. pedido[h].bloque \in Bloque
    BY <1>0, <1>18, RutinaDelPaso, PedidoBien DEF AnunciaBloque, Paso, Listo
  <2>. QED
    BY <1>18, <2>1, ContenidoBien DEF AnunciaBloque, Tipos
<1>19. CASE MandaBloque(h)
  <2>1. pedido[h].bloque \in Bloque
    BY <1>0, <1>19, RutinaDelPaso, PedidoBien DEF MandaBloque, Paso, Listo
  <2>. QED
    BY <1>19, <2>1, ContenidoBien DEF MandaBloque, Tipos
<1>. QED
  BY <1>1, <1>2, <1>3, <1>4, <1>5, <1>6, <1>7, <1>8, <1>9, <1>10, <1>11, <1>12, <1>13,
     <1>14, <1>15, <1>16, <1>17, <1>18, <1>19 DEF Atiende

(* So do the children.                                                     *)
LEMMA TiposHijos ==
  ASSUME IInv, Tipos, NEW c \in hijos, TerminaComando(c) \/ TerminaGuion(c)
  PROVE  Tipos'
<1>1. hijos' \in SUBSET Hijos
  BY TerminaBien DEF TerminaComando, TerminaGuion
<1>2. CASE TerminaComando(c)
  <2>1. Ejecuta(c.que, c.padre) /\ UNCHANGED <<pedido, abiertos, leido, salio, posicion, caido>>
    BY <1>2 DEF TerminaComando, bloques
  <2>2. arch' \in [Nombre -> Contenido \cup {Nada}] /\ tmp' \in [Nombre -> Contenido \cup {Nada}]
    BY <2>1 DEF Ejecuta, Tipos
  <2>3. guion' \in [Guion \cup Nombre -> Job \cup {Nada}]
    BY <2>1 DEF Ejecuta, Tipos
  <2>. QED
    BY <1>1, <2>1, <2>2, <2>3 DEF Tipos
<1>3. CASE TerminaGuion(c)
  <2>1. Deja(arch, c) \in [Nombre -> Contenido \cup {Nada}]
    BY ContenidoBien DEF Deja, Tipos
  <2>2. Deja(tmp, c) \in [Nombre -> Contenido \cup {Nada}]
    BY ContenidoBien DEF Deja, Tipos
  <2>3. arch' \in {arch, Deja(arch, c)} /\ tmp' \in {tmp, Deja(tmp, c)}
        /\ UNCHANGED <<pedido, guion, abiertos, leido, salio, posicion, caido>>
    BY <1>3 DEF TerminaGuion, bloques
  <2>. QED
    BY <1>1, <2>1, <2>2, <2>3 DEF Tipos
<1>. QED
  BY <1>2, <1>3

LEMMA TiposStep == IInv /\ Tipos /\ [Next]_vars => Tipos'
<1>. SUFFICES ASSUME IInv, Tipos, [Next]_vars
              PROVE  Tipos'
  OBVIOUS
<1>1. ASSUME NEW h \in Hilo, Atiende(h) \/ Pide(h)
      PROVE  Tipos'
  BY <1>1, TiposAtiende
<1>2. ASSUME NEW c \in hijos, TerminaComando(c) \/ TerminaGuion(c)
      PROVE  Tipos'
  BY <1>2, TiposHijos
<1>3. CASE FsCabecera \/ FsCuerpo \/ FsGuarda
  BY <1>3 DEF FsCabecera, FsCuerpo, FsGuarda, Tipos, archivos, proceso, bloques
<1>4. CASE UNCHANGED vars
  BY <1>4 DEF vars, Tipos
<1>. QED
  BY <1>1, <1>2, <1>3, <1>4 DEF Next, Avanza
-----------------------------------------------------------------------------
(* The answers of the Filesystem, those that it still has to give with     *)
(* those that nobody read, are three for each first burst it took.         *)
Enviaron == {h \in Hacen({"total"}) : pc[h] \in {"cuerpo", "ok", "fin"}}
EnCamino ==
  {h \in Hilo : \E i \in 1..Len(alFs) : alFs[i].que = "cabecera" /\ alFs[i].de = h}
Debe == IF fs.estado \in {"cuerpo", "falta"} THEN 2 ELSE IF fs.estado = "guarda" THEN 1 ELSE 0
Cuenta ==
  /\ \A i, j \in 1..Len(alFs) :
       alFs[i].que = "cabecera" /\ alFs[j].que = "cabecera" /\ alFs[i].de = alFs[j].de => i = j
  /\ EnCamino \subseteq Enviaron
  /\ delFs + Debe <= 3 * Cardinality(Enviaron \ EnCamino)

(* A thread's step keeps who sent a first burst, but for the one that sends *)
(* it.                                                                     *)
LEMMA QuienEnvio ==
  ASSUME IInv, NEW h \in Hilo, pc[h] \notin {"sube", "fin", "cuelga"}, pedido' = pedido,
         \/ pc' = pc \/ pc' = [pc EXCEPT ![h] = Sigue(h)]
         \/ pc[h] = "junta" /\ pc' = [pc EXCEPT ![h] = "cuelga"]
  PROVE  Enviaron' = Enviaron
<1>1. PasosInv /\ pc \in [Hilo -> Pasos]
  BY DEF IInv, PasosInv
<1>2. \A g \in Hilo \ {h} : pc'[g] = pc[g] /\ Rutina(g)' = Rutina(g)
  BY <1>1 DEF Rutina
<1>3. Rutina(h)' = Rutina(h)
  BY DEF Rutina
<1>4. Rutina(h) = "total" => (pc[h] \in {"cuerpo", "ok", "fin"} <=> pc'[h] \in {"cuerpo", "ok", "fin"})
  <2>. SUFFICES ASSUME Rutina(h) = "total"
                PROVE  pc[h] \in {"cuerpo", "ok", "fin"} <=> pc'[h] \in {"cuerpo", "ok", "fin"}
    OBVIOUS
  <2>1. CASE pc[h] \in {"cuerpo", "ok"}
    BY <1>1, <2>1, CaminoDeTotal
  <2>2. CASE pc[h] \notin {"cuerpo", "ok"}
    <3>1. pc[h] \in Antes \ {"sube", "cuelga"}
      BY <1>1, <2>2, AntesDeSubir DEF DeSubir, Antes
    <3>2. Sigue(h) \in Antes
      BY <3>1, CaminoDeTotal
    <3>. QED
      BY <1>1, <2>2, <3>1, <3>2 DEF Antes
  <2>. QED
    BY <2>1, <2>2
<1>. QED
  BY <1>2, <1>3, <1>4 DEF Enviaron, Hacen

LEMMA CuentaInit == Init => Cuenta
<1>. SUFFICES ASSUME Init
              PROVE  Cuenta
  OBVIOUS
<1>1. Len(alFs) = 0 /\ Debe = 0 /\ delFs = 0 /\ EnCamino = {} /\ Enviaron = {}
  BY DEF Init, Debe, EnCamino, Enviaron, Hacen
<1>2. Cardinality({}) = 0
  BY FS_EmptySet
<1>3. Enviaron \ EnCamino = {}
  BY <1>1
<1>. QED
  BY <1>1, <1>2, <1>3 DEF Cuenta

(* The connection is as it was, or one answer fewer is unread.             *)
LEMMA CuentaSinHablar ==
  ASSUME TiposFs, Cuenta, Enviaron' = Enviaron, UNCHANGED <<alFs, fs, guardado>>,
         delFs' \in Nat, delFs' <= delFs
  PROVE  TiposFs' /\ Cuenta'
<1>1. TiposFs'
  BY DEF TiposFs
<1>2. EnCamino' = EnCamino /\ Debe' = Debe /\ Debe \in Nat
  BY DEF EnCamino, Debe
<1>3. delFs' + Debe' <= 3 * Cardinality(Enviaron \ EnCamino)
  <2>1. IsFiniteSet(Enviaron \ EnCamino)
    BY NodoAssumption, FS_Subset DEF Enviaron, Hacen
  <2>2. Cardinality(Enviaron \ EnCamino) \in Nat
    BY <2>1, FS_CardinalityType
  <2>. QED
    BY <1>2, <2>2 DEF Cuenta, TiposFs
<1>. QED
  BY <1>1, <1>2, <1>3 DEF Cuenta

(* Less on its way and no more answered than that allows.                  *)
LEMMA CuentaSube ==
  ASSUME TiposFs', Cuenta, Enviaron \subseteq Enviaron', EnCamino' \subseteq Enviaron',
         Enviaron \ EnCamino \subseteq Enviaron' \ EnCamino',
         \A i, j \in 1..Len(alFs') :
           alFs'[i].que = "cabecera" /\ alFs'[j].que = "cabecera" /\ alFs'[i].de = alFs'[j].de
             => i = j,
         delFs' + Debe' <= delFs + Debe, delFs \in Nat, Debe \in Nat
  PROVE  Cuenta'
<1>1. IsFiniteSet(Enviaron' \ EnCamino')
  BY NodoAssumption, FS_Subset DEF Enviaron, Hacen
<1>2. /\ Cardinality(Enviaron \ EnCamino) \in Nat /\ Cardinality(Enviaron' \ EnCamino') \in Nat
      /\ Cardinality(Enviaron \ EnCamino) <= Cardinality(Enviaron' \ EnCamino')
  BY <1>1, FS_Subset, FS_CardinalityType
<1>3. delFs' \in Nat /\ Debe' \in Nat /\ delFs + Debe <= 3 * Cardinality(Enviaron \ EnCamino)
  BY DEF Cuenta, TiposFs, Debe
<1>4. delFs' + Debe' <= 3 * Cardinality(Enviaron' \ EnCamino')
  BY <1>2, <1>3
<1>. QED
  BY <1>4 DEF Cuenta

(* The node's side.                                                        *)
LEMMA CuentaAtiende ==
  ASSUME IInv, Tipos, TiposFs, Cuenta, NEW h \in Hilo, Atiende(h) \/ Pide(h)
  PROVE  TiposFs' /\ Cuenta'
<1>. USE DEF Paso, Listo, conexion
<1>0. /\ PasosInv /\ pc \in [Hilo -> Pasos] /\ alFs \in Seq(Mensaje) /\ delFs \in Nat
      /\ salio \in [Hilo -> Contenido \cup {Nada}]
  BY DEF IInv, PasosInv, TiposFs, Tipos
<1>a. ASSUME UNCHANGED <<pedido, conexion>>, pc[h] \notin {"sube", "fin", "cuelga"},
             \/ pc' = pc \/ pc' = [pc EXCEPT ![h] = Sigue(h)]
             \/ pc[h] = "junta" /\ pc' = [pc EXCEPT ![h] = "cuelga"]
      PROVE  TiposFs' /\ Cuenta'
  <2>1. Enviaron' = Enviaron
    BY <1>a, QuienEnvio
  <2>. QED
    BY <1>0, <1>a, <2>1, CuentaSinHablar
<1>1. CASE Pide(h) \/ TomaMapper(h) \/ TomaScript(h) \/ SueltaScript(h)
  BY <1>1, <1>a DEF Pide, TomaMapper, TomaScript, SueltaScript
<1>2. CASE AbreGuion(h) \/ GrabaGuion(h)
  BY <1>2, <1>a DEF AbreGuion, GrabaGuion
<1>3. CASE LanzaComando(h)
  BY <1>3, <1>a DEF LanzaComando, Comandos
<1>4. CASE EsperaComando(h)
  <2>1. pc[h] \in Comandos
    BY <1>4 DEF EsperaComando, IInv, PasosInv
  <2>. QED
    BY <1>4, <2>1, <1>a DEF EsperaComando, Comandos
<1>5. CASE LeeEntrada(h)
  BY <1>5, <1>a DEF LeeEntrada
<1>6. CASE Junta(h)
  BY <1>6, <1>a DEF Junta
<1>7. CASE Entuba(h) \/ Bifurca(h)
  BY <1>7, <1>a DEF Entuba, Bifurca
<1>8. CASE Escribe(h) \/ Espera(h)
  BY <1>8, <1>a DEF Escribe, Espera
<1>9. CASE Responde(h) \/ MandaBloque(h) \/ AnunciaBloque(h)
  BY <1>9, <1>a DEF Responde, MandaBloque, AnunciaBloque
<1>10. CASE TomaSetBloque(h) \/ Posiciona(h) \/ EscribeCeros(h) \/ EscribeDatos(h)
  BY <1>10, <1>a DEF TomaSetBloque, Posiciona, EscribeCeros, EscribeDatos
<1>11. CASE Sube(h)
  <2>1. Rutina(h) = "total" /\ pc[h] = "sube" /\ Sigue(h) = "cuerpo"
    BY <1>0, <1>11, RutinaDelPaso, CaminoDeTotal DEF Sube
  <2>2. pc' = [pc EXCEPT ![h] = "cuerpo"] /\ UNCHANGED <<pedido, delFs, fs, guardado>>
        /\ alFs' = Append(alFs, Cabecera(h))
    BY <1>11, <2>1 DEF Sube
  <2>3. h \notin Enviaron /\ Enviaron' = Enviaron \cup {h}
    BY <1>0, <2>1, <2>2 DEF Enviaron, Hacen, Rutina
  <2>4. Cabecera(h) \in Mensaje
    BY DEF Cabecera, Mensaje
  <2>5. TiposFs'
    BY <2>2, <2>4 DEF TiposFs
  <2>6. /\ Len(alFs') = Len(alFs) + 1 /\ alFs'[Len(alFs) + 1] = Cabecera(h)
        /\ \A i \in 1..Len(alFs) : alFs'[i] = alFs[i]
    BY <1>0, <2>2, <2>4
  <2>7. EnCamino' = EnCamino \cup {h}
    BY <1>0, <2>6 DEF EnCamino, Cabecera
  <2>8. \A i \in 1..Len(alFs) : alFs[i].que = "cabecera" => alFs[i].de # h
    <3>1. h \notin EnCamino
      BY <2>3 DEF Cuenta
    <3>. QED
      BY <3>1 DEF EnCamino
  <2>9. \A i, j \in 1..Len(alFs') :
          alFs'[i].que = "cabecera" /\ alFs'[j].que = "cabecera" /\ alFs'[i].de = alFs'[j].de
             => i = j
    BY <1>0, <2>6, <2>8 DEF Cuenta, Cabecera
  <2>10. Debe' = Debe /\ Debe \in Nat
    BY <2>2 DEF Debe
  <2>. QED
    BY <1>0, <2>2, <2>3, <2>5, <2>7, <2>9, <2>10, CuentaSube DEF Cuenta
<1>12. CASE MandaCuerpo(h)
  <2>1. pc[h] = "cuerpo" /\ pc' = [pc EXCEPT ![h] = Sigue(h)]
        /\ UNCHANGED <<pedido, fs, guardado, salio>> /\ alFs' = Append(alFs, Cuerpo(h))
    BY <1>12 DEF MandaCuerpo
  <2>2. Enviaron' = Enviaron
    BY <2>1, QuienEnvio
  <2>3. PICK k \in 1..delFs : delFs' = delFs - k
    BY <1>12 DEF MandaCuerpo, Respuestas, Lee
  <2>4. Cuerpo(h) \in Mensaje
    BY <1>0 DEF Cuerpo, Mensaje
  <2>5. TiposFs'
    BY <1>0, <2>1, <2>3, <2>4 DEF TiposFs
  <2>6. /\ Len(alFs') = Len(alFs) + 1 /\ alFs'[Len(alFs) + 1] = Cuerpo(h)
        /\ \A i \in 1..Len(alFs) : alFs'[i] = alFs[i]
    BY <1>0, <2>1, <2>4
  <2>7. EnCamino' = EnCamino
    BY <1>0, <2>6 DEF EnCamino, Cuerpo
  <2>8. \A i, j \in 1..Len(alFs') :
          alFs'[i].que = "cabecera" /\ alFs'[j].que = "cabecera" /\ alFs'[i].de = alFs'[j].de
             => i = j
    BY <1>0, <2>6 DEF Cuenta, Cuerpo
  <2>9. Debe' = Debe /\ Debe \in Nat
    BY <2>1 DEF Debe
  <2>. QED
    BY <1>0, <2>2, <2>3, <2>5, <2>7, <2>8, <2>9, CuentaSube DEF Cuenta
<1>13. CASE LeeOk(h)
  <2>1. pc[h] = "ok" /\ pc' = [pc EXCEPT ![h] = Sigue(h)]
        /\ UNCHANGED <<pedido, alFs, fs, guardado>> /\ delFs > 0 /\ delFs' = delFs - 1
    BY <1>13 DEF LeeOk, Lee
  <2>2. Enviaron' = Enviaron
    BY <2>1, QuienEnvio
  <2>. QED
    BY <1>0, <2>1, <2>2, CuentaSinHablar
<1>. QED
  BY <1>1, <1>2, <1>3, <1>4, <1>5, <1>6, <1>7, <1>8, <1>9, <1>10, <1>11, <1>12, <1>13
     DEF Atiende

(* The Filesystem's side.                                                  *)
LEMMA CuentaFs ==
  ASSUME IInv, TiposFs, Cuenta, FsCabecera \/ FsCuerpo \/ FsGuarda
  PROVE  TiposFs' /\ Cuenta'
<1>0. /\ alFs \in Seq(Mensaje) /\ delFs \in Nat /\ Enviaron' = Enviaron
      /\ IsFiniteSet(Enviaron) /\ Debe \in Nat
  <2>1. UNCHANGED <<pedido, pc>>
    BY DEF FsCabecera, FsCuerpo, FsGuarda
  <2>2. IsFiniteSet(Enviaron)
    BY NodoAssumption, FS_Subset DEF Enviaron, Hacen
  <2>. QED
    BY <2>1, <2>2 DEF TiposFs, Enviaron, Hacen, Rutina, Debe
<1>1. CASE FsGuarda
  <2>1. TiposFs'
    BY <1>0, <1>1 DEF FsGuarda, TiposFs
  <2>2. EnCamino' = EnCamino /\ Debe' = 0 /\ Debe = 1 /\ delFs' = delFs + 1 /\ alFs' = alFs
    BY <1>1 DEF FsGuarda, EnCamino, Debe
  <2>. QED
    BY <1>0, <2>1, <2>2, CuentaSube DEF Cuenta
<1>2. ASSUME alFs # <<>>
      PROVE  /\ Tail(alFs) \in Seq(Mensaje) /\ Head(alFs) = alFs[1] /\ Head(alFs) \in Mensaje
             /\ Len(Tail(alFs)) = Len(alFs) - 1 /\ Len(alFs) \in Nat \ {0}
             /\ \A i \in 1..(Len(alFs) - 1) : Tail(alFs)[i] = alFs[i + 1]
  BY <1>0, <1>2
<1>3. CASE FsCuerpo
  <2>1. alFs # <<>> /\ alFs' = Tail(alFs) /\ fs.estado \in {"cuerpo", "falta"} /\ Debe = 2
    BY <1>3 DEF FsCuerpo, Debe
  <2>2. /\ \A i \in 1..Len(alFs') : i + 1 \in 1..Len(alFs) /\ alFs'[i] = alFs[i + 1]
        /\ Len(alFs') \in Nat
    BY <1>2, <2>1
  <2>3. EnCamino' \subseteq EnCamino
    BY <2>2 DEF EnCamino
  <2>4. \A i, j \in 1..Len(alFs') :
          alFs'[i].que = "cabecera" /\ alFs'[j].que = "cabecera" /\ alFs'[i].de = alFs'[j].de
             => i = j
    <3>. TAKE i, j \in 1..Len(alFs')
    <3>. HAVE alFs'[i].que = "cabecera" /\ alFs'[j].que = "cabecera" /\ alFs'[i].de = alFs'[j].de
    <3>1. i + 1 = j + 1
      BY <2>2 DEF Cuenta
    <3>. QED
      BY <2>2, <3>1
  <2>5. \/ fs'.estado = "falta" /\ delFs' = delFs
        \/ fs'.estado = "guarda" /\ delFs' = delFs + 1
    BY <1>3 DEF FsCuerpo, TiposFs
  <2>6. delFs' + Debe' = delFs + Debe /\ delFs' \in Nat
    BY <1>0, <2>1, <2>5 DEF Debe
  <2>7. fs' = [fs EXCEPT !.estado = fs'.estado]
    BY <1>3, <2>5 DEF FsCuerpo, TiposFs
  <2>8. guardado' \in [Hilo -> Contenido \cup {Nada}]
    <3>1. Head(alFs).dato \in Contenido \cup {Nada}
      BY <1>2, <2>1 DEF Mensaje
    <3>2. AMedias(fs.de) \in Contenido
      BY <2>1 DEF TiposFs, AMedias, Contenido
    <3>. QED
      BY <1>3, <3>1, <3>2 DEF FsCuerpo, TiposFs
  <2>9. TiposFs'
    BY <1>2, <2>1, <2>5, <2>6, <2>7, <2>8 DEF TiposFs
  <2>. QED
    BY <1>0, <2>3, <2>4, <2>6, <2>9, CuentaSube DEF Cuenta
<1>4. CASE FsCabecera /\ Head(alFs).que # "cabecera"
  <2>1. alFs' = alFs /\ delFs' = delFs /\ fs' = [fs EXCEPT !.estado = "perdido"]
        /\ fs.estado = "libre" /\ guardado' = guardado
    BY <1>4 DEF FsCabecera
  <2>2. TiposFs'
    BY <2>1 DEF TiposFs
  <2>3. EnCamino' = EnCamino /\ Debe' = Debe
    BY <2>1, <2>2 DEF EnCamino, Debe, TiposFs
  <2>. QED
    BY <1>0, <2>1, <2>2, <2>3, CuentaSube DEF Cuenta
<1>5. CASE FsCabecera /\ Head(alFs).que = "cabecera"
  <2>. DEFINE d == Head(alFs).de
              resto == Tail(alFs)
  <2>1. /\ alFs # <<>> /\ delFs' = delFs + 1 /\ fs' = [estado |-> "cuerpo", de |-> d]
        /\ guardado' = guardado /\ fs.estado = "libre"
        /\ \/ alFs' = resto
           \/ resto # <<>> /\ alFs' = <<[resto[1] EXCEPT !.que = "cortado"]>> \o Tail(resto)
    BY <1>5 DEF FsCabecera
  <2>2. d \in Hilo /\ Debe = 0 /\ Debe' = 2
    BY <1>2, <2>1 DEF Mensaje, Debe
  <2>3. /\ Len(alFs') = Len(alFs) - 1 /\ alFs' \in Seq(Mensaje)
        /\ \A i \in 1..(Len(alFs) - 1) :
             alFs'[i] = alFs[i + 1] \/ alFs'[i].que = "cortado"
    <3>1. CASE alFs' = resto
      BY <1>2, <2>1, <3>1
    <3>2. CASE resto # <<>> /\ alFs' = <<[resto[1] EXCEPT !.que = "cortado"]>> \o Tail(resto)
      <4>. DEFINE y == [resto[1] EXCEPT !.que = "cortado"]
      <4>1. resto \in Seq(Mensaje) /\ Len(resto) \in Nat \ {0} /\ Tail(resto) \in Seq(Mensaje)
            /\ Len(Tail(resto)) = Len(resto) - 1 /\ resto[1] \in Mensaje
            /\ \A i \in 1..(Len(resto) - 1) : Tail(resto)[i] = resto[i + 1]
        <5>1. resto \in Seq(Mensaje) /\ resto # <<>>
          BY <1>2, <2>1, <3>2
        <5>. HIDE DEF resto
        <5>2. Len(resto) \in Nat \ {0} /\ resto[1] \in Mensaje
          BY <5>1
        <5>. QED
          BY <5>1, <5>2, HeadTailProperties
      <4>2. y \in Mensaje /\ y.que = "cortado"
        BY <4>1 DEF Mensaje
      <4>. HIDE DEF y, resto
      <4>3. alFs' \in Seq(Mensaje) /\ Len(alFs') = Len(resto) /\ alFs'[1] = y
        BY <3>2, <4>1, <4>2 DEF y
      <4>4. \A i \in 2..Len(resto) : alFs'[i] = Tail(resto)[i - 1]
        BY <3>2, <4>1, <4>2 DEF y
      <4>5. \A i \in 2..Len(resto) : alFs'[i] = resto[i]
        BY <4>1, <4>4
      <4>6. Len(resto) = Len(alFs) - 1 /\ Len(alFs) \in Nat
            /\ \A i \in 1..(Len(alFs) - 1) : resto[i] = alFs[i + 1]
        BY <1>2, <2>1 DEF resto
      <4>. QED
        BY <4>2, <4>3, <4>5, <4>6
    <3>. QED
      BY <2>1, <3>1, <3>2
  <2>4. TiposFs'
    BY <1>0, <2>1, <2>2, <2>3 DEF TiposFs
  <2>5. ASSUME NEW i \in 1..Len(alFs'), alFs'[i].que = "cabecera"
        PROVE  /\ i + 1 \in 2..Len(alFs) /\ i + 1 \in 1..Len(alFs)
               /\ alFs[i + 1] = alFs'[i]
    <3>1. Len(alFs) \in Nat \ {0} /\ i \in 1..(Len(alFs) - 1)
      BY <1>2, <2>1, <2>3
    <3>2. alFs'[i] = alFs[i + 1]
      BY <2>3, <2>5, <3>1
    <3>. QED
      BY <3>1, <3>2
  <2>6. EnCamino' \subseteq EnCamino \ {d}
    <3>0. Len(alFs) \in Nat /\ 1 \in 1..Len(alFs) /\ alFs[1].que = "cabecera" /\ alFs[1].de = d
      BY <1>2, <1>5, <2>1
    <3>1. \A i \in 2..Len(alFs) : alFs[i].que = "cabecera" => alFs[i].de # d
      <4>. TAKE i \in 2..Len(alFs)
      <4>. HAVE alFs[i].que = "cabecera"
      <4>1. i \in 1..Len(alFs) /\ i # 1
        BY <3>0
      <4>. QED
        BY <3>0, <4>1 DEF Cuenta
    <3>2. ASSUME NEW h \in Hilo, NEW i \in 1..Len(alFs'),
                 alFs'[i].que = "cabecera", alFs'[i].de = h
          PROVE  h \in EnCamino /\ h # d
      <4>1. /\ i + 1 \in 2..Len(alFs) /\ i + 1 \in 1..Len(alFs)
            /\ alFs[i + 1] = alFs'[i]
        BY <2>5, <3>2
      <4>2. alFs[i + 1].que = "cabecera" /\ alFs[i + 1].de = h
        BY <3>2, <4>1
      <4>. QED
        BY <3>1, <4>1, <4>2 DEF EnCamino
    <3>. QED
      BY <3>2 DEF EnCamino
  <2>7. d \in EnCamino
    BY <1>2, <1>5, <2>1, <2>2 DEF EnCamino
  <2>8. \A i, j \in 1..Len(alFs') :
          alFs'[i].que = "cabecera" /\ alFs'[j].que = "cabecera" /\ alFs'[i].de = alFs'[j].de
             => i = j
    <3>. TAKE i, j \in 1..Len(alFs')
    <3>. HAVE alFs'[i].que = "cabecera" /\ alFs'[j].que = "cabecera" /\ alFs'[i].de = alFs'[j].de
    <3>1. /\ i + 1 \in 1..Len(alFs) /\ j + 1 \in 1..Len(alFs)
          /\ alFs[i + 1] = alFs'[i] /\ alFs[j + 1] = alFs'[j]
      BY <2>5
    <3>2. i + 1 = j + 1
      BY <3>1 DEF Cuenta
    <3>. QED
      BY <1>2, <2>1, <2>3, <3>2
  <2>9. d \in Enviaron
    BY <2>7 DEF Cuenta
  <2>10. delFs' + Debe' <= 3 * Cardinality(Enviaron \ EnCamino')
    <3>. DEFINE A == Enviaron \ EnCamino
                B == Enviaron \ EnCamino'
    <3>1. IsFiniteSet(A) /\ IsFiniteSet(B) /\ A \cup {d} \subseteq B /\ d \notin A
      BY <1>0, <2>6, <2>7, <2>9, FS_Subset
    <3>2. Cardinality(A \cup {d}) = Cardinality(A) + 1 /\ Cardinality(A) \in Nat
      BY <3>1, FS_AddElement, FS_CardinalityType
    <3>3. Cardinality(A \cup {d}) <= Cardinality(B) /\ Cardinality(B) \in Nat
      BY <3>1, FS_Subset, FS_CardinalityType
    <3>4. delFs + Debe <= 3 * Cardinality(A)
      BY DEF Cuenta
    <3>. HIDE DEF A
    <3>5. delFs' + Debe' = delFs + Debe + 3
      BY <1>0, <2>1, <2>2
    <3>. QED
      BY <1>0, <3>2, <3>3, <3>4, <3>5
  <2>. QED
    BY <1>0, <2>4, <2>6, <2>8, <2>10 DEF Cuenta
<1>. QED
  BY <1>1, <1>3, <1>4, <1>5 DEF FsCabecera

LEMMA CuentaStep ==
  IInv /\ Tipos /\ TiposFs /\ Cuenta /\ [Next]_vars => TiposFs' /\ Cuenta'
<1>. SUFFICES ASSUME IInv, Tipos, TiposFs, Cuenta, [Next]_vars
              PROVE  TiposFs' /\ Cuenta'
  OBVIOUS
<1>1. ASSUME NEW h \in Hilo, Atiende(h) \/ Pide(h)
      PROVE  TiposFs' /\ Cuenta'
  BY <1>1, CuentaAtiende
<1>2. ASSUME UNCHANGED <<pedido, pc, conexion>>
      PROVE  TiposFs' /\ Cuenta'
  <2>1. Enviaron' = Enviaron
    BY <1>2 DEF Enviaron, Hacen, Rutina
  <2>. QED
    BY <1>2, <2>1, CuentaSinHablar DEF TiposFs, conexion
<1>3. CASE \E c \in hijos : TerminaComando(c) \/ TerminaGuion(c)
  BY <1>2, <1>3 DEF TerminaComando, TerminaGuion
<1>4. CASE FsCabecera \/ FsCuerpo \/ FsGuarda
  BY <1>4, CuentaFs
<1>5. CASE UNCHANGED vars
  BY <1>2, <1>5 DEF vars, conexion
<1>. QED
  BY <1>1, <1>3, <1>4, <1>5 DEF Next, Avanza

(* Types, with the bound on the answers that nobody read.                  *)
THEOREM TiposDelNodo == Spec => []TypeOK
<1>1. IInv /\ Tipos /\ TiposFs /\ Cuenta => TypeOK
  <2>. SUFFICES ASSUME IInv, Tipos, TiposFs, Cuenta
                PROVE  TypeOK
    OBVIOUS
  <2>1. delFs \in 0..(3 * Cardinality(Hacen({"total"})))
    <3>1. IsFiniteSet(Hacen({"total"})) /\ Enviaron \ EnCamino \subseteq Hacen({"total"})
      BY NodoAssumption, FS_Subset DEF Enviaron, Hacen
    <3>2. /\ Cardinality(Enviaron \ EnCamino) \in Nat /\ Cardinality(Hacen({"total"})) \in Nat
          /\ Cardinality(Enviaron \ EnCamino) <= Cardinality(Hacen({"total"}))
      BY <3>1, FS_Subset, FS_CardinalityType
    <3>3. delFs \in Nat /\ Debe \in Nat /\ delFs + Debe <= 3 * Cardinality(Enviaron \ EnCamino)
      BY DEF Cuenta, TiposFs, Debe
    <3>. QED
      BY <3>2, <3>3
  <2>. QED
    BY <2>1 DEF TypeOK, IInv, PasosInv, Seccion, Tipos, TiposFs, Descriptores, Hijos
<1>. QED
  BY <1>1, IInit, IStep, TiposInit, TiposStep, CuentaInit, CuentaStep, PTL DEF Spec
-----------------------------------------------------------------------------
(* Who has the semaphores.                                                 *)
Ocupa(h) == Rutina(h) \in {"map", "reduce"} /\ pc[h] \notin {"pide", "mapper", "fin"}
ConScript(h) ==
  Rutina(h) \in {"map", "total"} /\ pc[h] \in {"tubo", "fork", "escribe", "espera", "suelta"}
Turnos ==
  \A h \in Hilo : /\ Ocupa(h) => semaforo["mapper"] = h
                  /\ ConScript(h) => semaforo["script"] = h

(* A pipe is open while its thread forks and writes.                       *)
Tubos ==
  /\ \A h \in Hilo : <<h, "tubo">> \in abiertos <=> pc[h] \in {"fork", "escribe"}
  /\ \A c \in hijos, g \in Hilo : c.que = "guion" /\ <<g, "tubo">> \in c.abiertos =>
       {Rutina(g), Rutina(c.padre)} = {"reduce", "total"}

TurnosInv == Turnos /\ Tubos

(* Where a thread may be after a step.                                     *)
LEMMA SigueTurno ==
  ASSUME PasosInv, NEW h \in Hilo, pc[h] \notin {"fin", "cuelga"}
  PROVE  /\ Sigue(h) \in ToSet(Camino(Rutina(h))) /\ Sigue(h) # "pide" /\ Sigue(h) # "cuelga"
         /\ Rutina(h) \in {"map", "reduce"} /\ pc[h] = "pide" => Sigue(h) = "mapper"
         /\ pc[h] = "responde" => Sigue(h) = "fin"
         /\ Rutina(h) \in {"map", "total"} /\ pc[h] # "script" /\
              Sigue(h) \in {"tubo", "fork", "escribe", "espera", "suelta"} =>
              pc[h] \in {"tubo", "fork", "escribe", "espera"}
         /\ pc[h] = "script" => Sigue(h) = "tubo"
         /\ Sigue(h) \in {"fork", "escribe"} <=> pc[h] \in {"tubo", "fork"}
<1>1. /\ Rutina(h) \in Rutinas /\ pc[h] \in ToSet(Camino(Rutina(h)))
      /\ Sigue(h) \in ToSet(Camino(Rutina(h)))
  BY SigueEnCamino, RutinaDelPaso DEF PasosInv
<1>2. CASE Rutina(h) = "map"
  BY <1>1, <1>2, SigueMap, PasosDeCadaRutina
<1>3. CASE Rutina(h) = "reduce"
  BY <1>1, <1>3, SigueReduce, PasosDeCadaRutina
<1>4. CASE Rutina(h) = "total"
  BY <1>1, <1>4, SigueTotal, PasosDeCadaRutina
<1>5. CASE Rutina(h) = "set"
  BY <1>1, <1>5, CaminoDeSet, PasosDeCadaRutina
<1>6. CASE Rutina(h) = "get"
  <2>1. pc[h] = "pide" => Sigue(h) = "anuncia"
    BY <1>6, SigueGet
  <2>2. pc[h] = "anuncia" => Sigue(h) = "manda"
    BY <1>6, SigueGet
  <2>3. pc[h] = "manda" => Sigue(h) = "fin"
    BY <1>6, SigueGet
  <2>. QED
    BY <1>1, <1>6, <2>1, <2>2, <2>3, PasosDeCadaRutina
<1>. QED
  BY <1>1, <1>2, <1>3, <1>4, <1>5, <1>6 DEF Rutinas

(* A step of a thread: it goes on, it stays or it hangs.                   *)
Camina(g) ==
  /\ pedido' = pedido /\ pc[g] \notin {"fin", "cuelga"}
  /\ \/ pc' = pc
     \/ pc' = [pc EXCEPT ![g] = Sigue(g)]
     \/ pc[g] = "junta" /\ pc' = [pc EXCEPT ![g] = "cuelga"]

(* What each step of a thread does to its program counter.                 *)
LEMMA AtiendeCamina ==
  ASSUME IInv, NEW g \in Hilo, Atiende(g) \/ Pide(g)
  PROVE  Camina(g)
<1>. USE DEF Paso, Listo, Camina
<1>1. CASE Pide(g) \/ TomaMapper(g) \/ TomaScript(g) \/ SueltaScript(g)
  BY <1>1 DEF Pide, TomaMapper, TomaScript, SueltaScript
<1>2. CASE AbreGuion(g) \/ GrabaGuion(g)
  BY <1>2 DEF AbreGuion, GrabaGuion
<1>3. CASE LanzaComando(g)
  BY <1>3 DEF LanzaComando, Comandos
<1>4. CASE EsperaComando(g)
  <2>1. pc[g] \in Comandos
    BY <1>4 DEF EsperaComando, IInv, PasosInv
  <2>. QED
    BY <1>4, <2>1 DEF EsperaComando, Comandos
<1>5. CASE LeeEntrada(g) \/ Junta(g)
  BY <1>5 DEF LeeEntrada, Junta
<1>6. CASE Entuba(g) \/ Bifurca(g) \/ Escribe(g) \/ Espera(g)
  BY <1>6 DEF Entuba, Bifurca, Escribe, Espera
<1>7. CASE Responde(g) \/ MandaBloque(g) \/ AnunciaBloque(g)
  BY <1>7 DEF Responde, MandaBloque, AnunciaBloque
<1>8. CASE Sube(g) \/ MandaCuerpo(g) \/ LeeOk(g)
  BY <1>8 DEF Sube, MandaCuerpo, LeeOk
<1>9. CASE TomaSetBloque(g) \/ Posiciona(g) \/ EscribeCeros(g) \/ EscribeDatos(g)
  BY <1>9 DEF TomaSetBloque, Posiciona, EscribeCeros, EscribeDatos
<1>. QED
  BY <1>1, <1>2, <1>3, <1>4, <1>5, <1>6, <1>7, <1>8, <1>9 DEF Atiende

(* The semaphores.                                                         *)
LEMMA TurnosPaso ==
  ASSUME IInv, Turnos, NEW g \in Hilo, Camina(g),
         \A s \in {"mapper", "script"}, h \in Hilo \ {g} :
           semaforo[s] = h => semaforo'[s] = h,
         semaforo["mapper"] = g => semaforo'["mapper"] = g \/ (pc[g] = "responde" /\ pc' # pc),
         semaforo["script"] = g => semaforo'["script"] = g \/ (pc[g] = "suelta" /\ pc' # pc),
         pc[g] = "mapper" /\ pc' # pc => semaforo'["mapper"] = g,
         pc[g] = "script" /\ pc' # pc => semaforo'["script"] = g
  PROVE  Turnos'
<1>1. PasosInv /\ pc \in [Hilo -> Pasos] /\ pc[g] \notin {"fin", "cuelga"}
  BY DEF IInv, PasosInv, Camina
<1>2. \A h \in Hilo : Rutina(h)' = Rutina(h)
  BY DEF Rutina, Camina
<1>3. ASSUME NEW h \in Hilo \ {g}
      PROVE  (Ocupa(h)' => semaforo'["mapper"] = h) /\ (ConScript(h)' => semaforo'["script"] = h)
  BY <1>1, <1>2, <1>3 DEF Turnos, Ocupa, ConScript, Camina
<1>4. CASE pc' = pc
  BY <1>2, <1>3, <1>4 DEF Turnos, Ocupa, ConScript
<1>5. CASE pc' = [pc EXCEPT ![g] = Sigue(g)] /\ pc' # pc
  <2>1. Ocupa(g)' => semaforo'["mapper"] = g
    BY <1>1, <1>2, <1>5, SigueTurno DEF Turnos, Ocupa
  <2>2. ConScript(g)' => semaforo'["script"] = g
    BY <1>1, <1>2, <1>5, SigueTurno DEF Turnos, ConScript
  <2>. QED
    BY <1>3, <2>1, <2>2 DEF Turnos
<1>6. CASE pc[g] = "junta" /\ pc' = [pc EXCEPT ![g] = "cuelga"]
  <2>1. Rutina(g) = "total" /\ pc'[g] = "cuelga"
    BY <1>1, <1>6, RutinaDelPaso
  <2>. QED
    BY <1>2, <1>3, <2>1 DEF Turnos, Ocupa, ConScript
<1>. QED
  BY <1>4, <1>5, <1>6 DEF Camina

(* Pipes, when the thread opens and closes none.                           *)
LEMMA TubosPaso ==
  ASSUME IInv, Tubos, NEW g \in Hilo, Camina(g), pc[g] \notin {"tubo", "escribe"} \/ pc' = pc,
         \A h \in Hilo : <<h, "tubo">> \in abiertos' <=> <<h, "tubo">> \in abiertos
  PROVE  \A h \in Hilo : <<h, "tubo">> \in abiertos' <=> pc'[h] \in {"fork", "escribe"}
<1>1. PasosInv /\ pc \in [Hilo -> Pasos] /\ pc[g] \notin {"fin", "cuelga"}
  BY DEF IInv, PasosInv, Camina
<1>2. \A h \in Hilo \ {g} : pc'[h] = pc[h]
  BY <1>1 DEF Camina
<1>3. pc'[g] \in {"fork", "escribe"} <=> pc[g] \in {"fork", "escribe"}
  BY <1>1, SigueTurno DEF Camina
<1>. QED
  BY <1>2, <1>3 DEF Tubos

(* Children, when no script was started.                                   *)
LEMMA TubosHijos ==
  ASSUME Tubos, pedido' = pedido, \A c \in hijos' : c.que = "guion" =>
           \E d \in hijos : d.que = "guion" /\ d.padre = c.padre /\ c.abiertos \subseteq d.abiertos
  PROVE  \A c \in hijos', g \in Hilo : c.que = "guion" /\ <<g, "tubo">> \in c.abiertos =>
           {Rutina(g)', Rutina(c.padre)'} = {"reduce", "total"}
<1>1. \A x : Rutina(x)' = Rutina(x)
  BY DEF Rutina
<1>. SUFFICES ASSUME NEW c \in hijos', NEW g \in Hilo, c.que = "guion",
                     <<g, "tubo">> \in c.abiertos
              PROVE  {Rutina(g), Rutina(c.padre)} = {"reduce", "total"}
  BY <1>1
<1>2. PICK d \in hijos : d.que = "guion" /\ d.padre = c.padre /\ c.abiertos \subseteq d.abiertos
  OBVIOUS
<1>. QED
  BY <1>2 DEF Tubos

(* A thread's steps.                                                       *)
LEMMA TurnosAtiende ==
  ASSUME IInv, Tipos, TurnosInv, NEW g \in Hilo, Atiende(g) \/ Pide(g)
  PROVE  TurnosInv'
<1>. USE DEF archivos, proceso, Paso, Listo
<1>0. /\ PasosInv /\ pedido \in Casos /\ Camina(g) /\ Turnos /\ Tubos /\ Nada \notin Hilo
      /\ semaforo \in [{"mapper", "script", "setBloque"} -> Hilo \cup {Nada}]
  BY AtiendeCamina, NodoAssumption DEF IInv, Tipos, TurnosInv, Seccion
<1>a. ASSUME UNCHANGED <<abiertos, hijos>>, pc[g] \notin {"tubo", "escribe"} \/ pc' = pc
      PROVE  Tubos'
  <2>1. \A h \in Hilo : <<h, "tubo">> \in abiertos' <=> pc'[h] \in {"fork", "escribe"}
    BY <1>0, <1>a, TubosPaso
  <2>2. \A c \in hijos', h \in Hilo : c.que = "guion" /\ <<h, "tubo">> \in c.abiertos =>
           {Rutina(h)', Rutina(c.padre)'} = {"reduce", "total"}
    BY <1>0, <1>a, TubosHijos DEF Camina
  <2>. QED
    BY <2>1, <2>2 DEF Tubos
<1>b. ASSUME UNCHANGED semaforo, pc[g] \notin {"mapper", "script"} \/ pc' = pc
      PROVE  Turnos'
  BY <1>0, <1>b, TurnosPaso
<1>1. CASE Pide(g)
  BY <1>1, <1>a, <1>b DEF Pide, TurnosInv
<1>2. CASE TomaMapper(g)
  <2>1. semaforo["mapper"] = Nada /\ semaforo' = [semaforo EXCEPT !["mapper"] = g]
    BY <1>2 DEF TomaMapper, Toma, SinEsperar
  <2>2. Turnos'
    BY <1>0, <1>2, <2>1, TurnosPaso DEF TomaMapper
  <2>. QED
    BY <1>2, <1>a, <2>2 DEF TomaMapper, TurnosInv
<1>3. CASE TomaScript(g)
  <2>1. semaforo["script"] = Nada /\ semaforo' = [semaforo EXCEPT !["script"] = g]
    BY <1>3 DEF TomaScript, Toma, SinEsperar
  <2>2. Turnos'
    BY <1>0, <1>3, <2>1, TurnosPaso DEF TomaScript
  <2>. QED
    BY <1>3, <1>a, <2>2 DEF TomaScript, TurnosInv
<1>4. CASE SueltaScript(g)
  <2>1. /\ semaforo' = [semaforo EXCEPT !["script"] = IF @ = g THEN Nada ELSE @]
        /\ pc[g] = "suelta" /\ pc' = [pc EXCEPT ![g] = Sigue(g)]
    BY <1>4 DEF SueltaScript, Suelta
  <2>2. pc' # pc
    <3>1. Sigue(g) # "suelta"
      BY <1>0, <2>1, RutinaDelPaso, SigueMap, SigueTotal
    <3>. QED
      BY <1>0, <2>1, <3>1 DEF PasosInv
  <2>3. Turnos'
    BY <1>0, <2>1, <2>2, TurnosPaso
  <2>. QED
    BY <1>4, <1>a, <2>3 DEF SueltaScript, TurnosInv
<1>5. CASE AbreGuion(g) \/ GrabaGuion(g)
  <2>1. GuionDe(g) # "tubo"
    BY <1>0, <1>5, RutinaDelPaso, PedidoBien, NodoAssumption DEF AbreGuion, GrabaGuion
  <2>2. \A h \in Hilo : <<h, "tubo">> \in abiertos' <=> <<h, "tubo">> \in abiertos
    BY <1>5, <2>1 DEF AbreGuion, GrabaGuion
  <2>3. \A h \in Hilo : <<h, "tubo">> \in abiertos' <=> pc'[h] \in {"fork", "escribe"}
    BY <1>0, <1>5, <2>2, TubosPaso DEF AbreGuion, GrabaGuion
  <2>4. hijos' = hijos /\ pedido' = pedido
    BY <1>5 DEF AbreGuion, GrabaGuion
  <2>5. Tubos'
    BY <1>0, <2>3, <2>4, TubosHijos DEF Tubos
  <2>6. Turnos'
    BY <1>5, <1>b DEF AbreGuion, GrabaGuion
  <2>. QED
    BY <2>5, <2>6 DEF TurnosInv
<1>6. CASE LanzaComando(g)
  <2>1. hijos' = hijos \cup {Hijo(g, pc[g], Nada)} /\ pc[g] \in Comandos
        /\ UNCHANGED <<pedido, pc, abiertos, semaforo>>
    BY <1>6 DEF LanzaComando
  <2>2. \A c \in hijos' : c.que = "guion" => c \in hijos
    BY <2>1 DEF Hijo, Comandos
  <2>3. Tubos'
    BY <1>0, <2>1, <2>2, TubosHijos DEF Tubos
  <2>. QED
    BY <1>b, <2>1, <2>3 DEF TurnosInv
<1>7. CASE EsperaComando(g) \/ Espera(g)
  <2>1. hijos' \subseteq hijos /\ UNCHANGED <<pedido, abiertos, semaforo>>
    BY <1>7 DEF EsperaComando, Espera
  <2>2. pc[g] \in Comandos \cup {"espera"}
    BY <1>0, <1>7 DEF EsperaComando, Espera, PasosInv
  <2>3. \A h \in Hilo : <<h, "tubo">> \in abiertos' <=> pc'[h] \in {"fork", "escribe"}
    BY <1>0, <2>1, <2>2, TubosPaso DEF Comandos
  <2>4. Tubos'
    BY <1>0, <2>1, <2>3, TubosHijos DEF Tubos
  <2>5. Turnos'
    BY <1>b, <2>1, <2>2 DEF Comandos
  <2>. QED
    BY <2>4, <2>5 DEF TurnosInv
<1>8. CASE LeeEntrada(g) \/ Junta(g)
  BY <1>8, <1>a, <1>b DEF LeeEntrada, Junta, TurnosInv
<1>9. CASE Entuba(g)
  <2>1. pc[g] = "tubo" /\ pc' = [pc EXCEPT ![g] = "fork"]
        /\ abiertos' = abiertos \cup {<<g, "tubo">>} /\ UNCHANGED <<pedido, hijos, semaforo>>
    <3>1. pc[g] = "tubo" /\ Rutina(g) \in {"map", "reduce", "total"}
      BY <1>0, <1>9, RutinaDelPaso DEF Entuba
    <3>2. Sigue(g) = "fork"
      BY <3>1, SigueMap, SigueReduce, SigueTotal
    <3>. QED
      BY <1>9, <3>1, <3>2 DEF Entuba
  <2>2. \A h \in Hilo : <<h, "tubo">> \in abiertos' <=> pc'[h] \in {"fork", "escribe"}
    BY <1>0, <2>1 DEF Tubos, PasosInv
  <2>3. Tubos'
    BY <1>0, <2>1, <2>2, TubosHijos DEF Tubos
  <2>. QED
    BY <1>b, <2>1, <2>3 DEF TurnosInv
<1>10. CASE Bifurca(g)
  <2>. DEFINE c == Hijo(g, "guion", Ejecutable(g))
  <2>1. pc[g] = "fork" /\ hijos' = hijos \cup {c} /\ UNCHANGED <<pedido, abiertos, semaforo>>
    BY <1>10 DEF Bifurca
  <2>2. \A h \in Hilo : <<h, "tubo">> \in abiertos' <=> pc'[h] \in {"fork", "escribe"}
    BY <1>0, <2>1, TubosPaso
  <2>3. ASSUME NEW h \in Hilo, <<h, "tubo">> \in c.abiertos
        PROVE  {Rutina(h), Rutina(g)} = {"reduce", "total"}
    <3>1. h # g /\ <<h, "tubo">> \in abiertos
      BY <2>3 DEF Hijo
    <3>2. pc[h] \in {"fork", "escribe"}
      BY <1>0, <3>1 DEF Tubos
    <3>3. Rutina(h) \in {"map", "reduce", "total"} /\ Rutina(g) \in {"map", "reduce", "total"}
      BY <1>0, <2>1, <3>2, RutinaDelPaso
    <3>4. ~(Rutina(h) \in {"map", "reduce"} /\ Rutina(g) \in {"map", "reduce"})
      BY <1>0, <2>1, <3>1, <3>2 DEF Turnos, Ocupa
    <3>5. ~(Rutina(h) \in {"map", "total"} /\ Rutina(g) \in {"map", "total"})
      BY <1>0, <2>1, <3>1, <3>2 DEF Turnos, ConScript
    <3>. QED
      BY <3>3, <3>4, <3>5
  <2>4. \A d \in hijos', h \in Hilo : d.que = "guion" /\ <<h, "tubo">> \in d.abiertos =>
           {Rutina(h), Rutina(d.padre)} = {"reduce", "total"}
    <3>1. c.padre = g
      BY DEF Hijo
    <3>. QED
      BY <1>0, <2>1, <2>3, <3>1 DEF Tubos
  <2>5. Tubos'
    <3>1. \A x : Rutina(x)' = Rutina(x)
      BY <2>1 DEF Rutina
    <3>. QED
      BY <2>2, <2>4, <3>1 DEF Tubos
  <2>6. Turnos'
    BY <1>b, <2>1
  <2>. QED
    BY <2>5, <2>6 DEF TurnosInv
<1>11. CASE Escribe(g)
  <2>1. CASE Paso(g, "escribe")
    <3>1. pc[g] = "escribe" /\ Rutina(g) \in {"map", "reduce", "total"}
      BY <1>0, <2>1, RutinaDelPaso
    <3>2. Sigue(g) = "espera"
      BY <3>1, SigueMap, SigueReduce, SigueTotal
    <3>3. UNCHANGED <<pedido, hijos, semaforo>>
      BY <1>11 DEF Escribe
    <3>4. pc' = [pc EXCEPT ![g] = "espera"]
      BY <2>1, <3>2
    <3>5. abiertos' = abiertos \ {<<g, "tubo">>}
      BY <1>0, <1>11, <3>1, <3>4 DEF Escribe, PasosInv
    <3>6. \A h \in Hilo : <<h, "tubo">> \in abiertos' <=> pc'[h] \in {"fork", "escribe"}
      BY <1>0, <3>4, <3>5 DEF Tubos, PasosInv
    <3>7. Tubos'
      BY <1>0, <3>3, <3>6, TubosHijos DEF Tubos
    <3>. QED
      BY <1>b, <3>1, <3>3, <3>7 DEF TurnosInv
  <2>2. CASE UNCHANGED <<pc, abiertos>>
    BY <1>11, <1>a, <1>b, <2>2 DEF Escribe, TurnosInv
  <2>. QED
    BY <1>11, <2>1, <2>2 DEF Escribe
<1>12. CASE Responde(g)
  <2>1. /\ semaforo' = [semaforo EXCEPT !["mapper"] = IF @ = g THEN Nada ELSE @]
        /\ pc[g] = "responde" /\ pc' = [pc EXCEPT ![g] = Sigue(g)]
    BY <1>12 DEF Responde, Suelta
  <2>2. pc' # pc
    BY <1>0, <2>1, SigueTurno DEF PasosInv
  <2>3. Turnos'
    BY <1>0, <2>1, <2>2, TurnosPaso
  <2>. QED
    BY <1>12, <1>a, <2>3 DEF Responde, TurnosInv
<1>13. CASE Sube(g) \/ MandaCuerpo(g) \/ LeeOk(g) \/ AnunciaBloque(g) \/ MandaBloque(g)
  BY <1>13, <1>a, <1>b DEF Sube, MandaCuerpo, LeeOk, AnunciaBloque, MandaBloque, TurnosInv
<1>14. CASE TomaSetBloque(g) \/ Posiciona(g) \/ EscribeCeros(g) \/ EscribeDatos(g)
  <2>1. UNCHANGED <<abiertos, hijos>> /\ pc[g] \in DeSet
    BY <1>14 DEF TomaSetBloque, Posiciona, EscribeCeros, EscribeDatos, DeSet
  <2>2. \A s \in {"mapper", "script"} : semaforo'[s] = semaforo[s]
    BY <1>0, <1>14 DEF TomaSetBloque, Posiciona, EscribeCeros, EscribeDatos, Toma, Suelta, SinEsperar
  <2>3. Turnos'
    BY <1>0, <2>1, <2>2, TurnosPaso DEF DeSet
  <2>. QED
    BY <1>a, <2>1, <2>3 DEF TurnosInv, DeSet
<1>. QED
  BY <1>1, <1>2, <1>3, <1>4, <1>5, <1>6, <1>7, <1>8, <1>9, <1>10, <1>11, <1>12, <1>13, <1>14
     DEF Atiende

(* Any step.                                                               *)
LEMMA TurnosStep == IInv /\ Tipos /\ TurnosInv /\ [Next]_vars => TurnosInv'
<1>. SUFFICES ASSUME IInv, Tipos, TurnosInv, [Next]_vars
              PROVE  TurnosInv'
  OBVIOUS
<1>1. ASSUME NEW g \in Hilo, Atiende(g) \/ Pide(g)
      PROVE  TurnosInv'
  BY <1>1, TurnosAtiende
<1>2. ASSUME NEW c \in hijos, TerminaComando(c) \/ TerminaGuion(c)
      PROVE  TurnosInv'
  <2>1. UNCHANGED <<pedido, pc, semaforo, abiertos>> /\ Termina(c)
    BY <1>2 DEF TerminaComando, TerminaGuion
  <2>2. hijos' = (hijos \ {c}) \cup {[c EXCEPT !.vivo = FALSE, !.abiertos = {}]}
        /\ c \in Hijos
    BY <2>1 DEF Termina, Tipos
  <2>3. \A d \in hijos' : d.que = "guion" =>
           \E e \in hijos : e.que = "guion" /\ e.padre = d.padre /\ d.abiertos \subseteq e.abiertos
    BY <2>2 DEF Hijos
  <2>4. Tubos'
    BY <2>1, <2>3, TubosHijos DEF Tubos, TurnosInv
  <2>5. Turnos'
    BY <2>1 DEF Turnos, TurnosInv, Ocupa, ConScript, Rutina
  <2>. QED
    BY <2>4, <2>5 DEF TurnosInv
<1>3. ASSUME UNCHANGED <<pedido, pc, semaforo, proceso>>
      PROVE  TurnosInv'
  BY <1>3 DEF TurnosInv, Turnos, Tubos, Ocupa, ConScript, Rutina, proceso
<1>4. CASE FsCabecera \/ FsCuerpo \/ FsGuarda
  BY <1>3, <1>4 DEF FsCabecera, FsCuerpo, FsGuarda
<1>5. CASE UNCHANGED vars
  BY <1>3, <1>5 DEF vars, proceso
<1>. QED
  BY <1>1, <1>2, <1>4, <1>5 DEF Next, Avanza

LEMMA TurnosInit == Init => TurnosInv
BY DEF Init, TurnosInv, Turnos, Tubos, Ocupa, ConScript

(* A child keeps the write end of every pipe that was open when it was     *)
(* forked.  semaforoMapper and semaforoScript are what keeps two scripts   *)
(* from holding each other's, except the script of a local reduce and that *)
(* of a total reduce, which hold one semaphore each.                       *)
THEOREM SoloSeTrabanReduceYTotal == Spec => []SeTrabanReduceYTotal
<1>1. Tipos /\ TurnosInv => SeTrabanReduceYTotal
  <2>. SUFFICES ASSUME Tipos, Tubos
                PROVE  SeTrabanReduceYTotal
    BY DEF TurnosInv
  <2>. DEFINE r == {Rutina(c.padre) : c \in Trabados}
  <2>1. ASSUME NEW c \in Trabados
        PROVE  \E d \in Trabados : {Rutina(c.padre), Rutina(d.padre)} = {"reduce", "total"}
    <3>. DEFINE vivos == {x \in hijos : x.vivo /\ x.que = "guion" /\ x.por # Nada}
    <3>1. PICK S \in SUBSET vivos : c \in S /\ \A x \in S : \E y \in S : EsperaA(x, y)
      BY <2>1 DEF Trabados
    <3>2. PICK d \in S : EsperaA(c, d)
      BY <3>1
    <3>3. d \in Trabados
      BY <3>1, <3>2 DEF Trabados
    <3>4. c \in hijos /\ d \in hijos /\ d.que = "guion" /\ c.padre \in Hilo
      BY <3>1, <3>2 DEF Tipos, Hijos
    <3>5. {Rutina(c.padre), Rutina(d.padre)} = {"reduce", "total"}
      BY <3>2, <3>4 DEF EsperaA, Tubos
    <3>. QED
      BY <3>3, <3>5
  <2>2. ASSUME r # {}
        PROVE  r = {"reduce", "total"}
    <3>1. PICK c \in Trabados : TRUE
      BY <2>2
    <3>2. PICK d \in Trabados : {Rutina(c.padre), Rutina(d.padre)} = {"reduce", "total"}
      BY <2>1
    <3>3. "reduce" \in r /\ "total" \in r
      BY <3>2
    <3>4. r \subseteq {"reduce", "total"}
      BY <2>1
    <3>. QED
      BY <3>3, <3>4
  <2>. QED
    BY <2>2 DEF SeTrabanReduceYTotal
<1>. QED
  BY <1>1, IInit, IStep, TiposInit, TiposStep, TurnosInit, TurnosStep, PTL DEF Spec
-----------------------------------------------------------------------------
(* While no total reduce was asked for: the only children are those of the *)
(* thread with semaforoMapper.                                             *)
Bueno(x, h) == x # Nada /\ x.entero /\ x.por = pedido[h].job
Suya(h) == IF Rutina(h) = "map" THEN tmp[pedido[h].salida] ELSE arch[pedido[h].salida]
EnCurso(h) ==
  /\ pc[h] \in Comandos =>
       IF lanzado[h] THEN \E c \in hijos : hijos = {c} /\ c.que = pc[h] ELSE hijos = {}
  /\ pc[h] \in {"escribe", "espera"} =>
       \E c \in hijos :
         /\ hijos = {c} /\ c.que = "guion" /\ c.por = pedido[h].job
         /\ pc[h] = "escribe" => c.vivo
         /\ IF c.vivo THEN Suya(h) = AMedias(h) ELSE Bueno(Suya(h), h)
  /\ pc[h] \notin Comandos \cup {"escribe", "espera"} => hijos = {}
  /\ pc[h] \in {"chmod", "script", "lee", "tubo", "fork"} => guion[GuionDe(h)] = pedido[h].job
  /\ pc[h] = "espera" \/ (Rutina(h) = "reduce" /\ pc[h] \in {"tubo", "fork", "escribe"}) =>
       leido[h].entero
  /\ pc[h] \in {"suelta", "sort"} => Bueno(tmp[pedido[h].salida], h)
  /\ pc[h] = "sort" /\ lanzado[h] /\ (\A c \in hijos : ~c.vivo) =>
       Bueno(arch[pedido[h].salida], h)
  /\ pc[h] \in {"rmTmp", "rmGuion", "rmEntrada", "responde"} =>
       arch[pedido[h].salida] = Nada \/ Bueno(arch[pedido[h].salida], h)
Escribiendo(h) == Ocupa(h) /\ Rutina(h) = "reduce" /\ pc[h] \in {"escribe", "espera"}
Enteros ==
  /\ \A c \in hijos : Ocupa(c.padre)
  /\ \A d \in abiertos :
       Ocupa(d[1]) /\ (d[2] = "tubo" \/ (pc[d[1]] = "graba" /\ d[2] = GuionDe(d[1])))
  /\ \A n \in Nombre : arch[n] # Nada =>
       \/ arch[n].entero
       \/ \E h \in Hilo : Escribiendo(h) /\ n = pedido[h].salida
  /\ \A h \in Hilo : Ocupa(h) => EnCurso(h)
  /\ \A h \in Hacen({"map", "reduce"}) : Respondio(h) => Bueno(salio[h], h)
EnterosInv == Pedidos({"total"}) = {} => Enteros

(* Once a total reduce was asked for it stays so.                          *)
LEMMA TotalesCrece ==
  ASSUME IInv, NEW g \in Hilo, Camina(g)
  PROVE  Totales \subseteq Totales'
<1>1. PasosInv /\ pc \in [Hilo -> Pasos] /\ pc[g] \notin {"fin", "cuelga"}
  BY DEF IInv, PasosInv, Camina
<1>2. pc[g] # "pide" => pc'[g] # "pide"
  BY <1>1, SigueTurno DEF Camina
<1>3. \A h \in Hilo \ {g} : pc'[h] = pc[h]
  BY <1>1 DEF Camina
<1>. QED
  BY <1>2, <1>3 DEF Totales, Pedidos, Hacen, Rutina, Camina

(* Nothing that the invariant is about changes.                            *)
LEMMA EnterosQuieto ==
  ASSUME Enteros, UNCHANGED <<pedido, pc, lanzado, arch, tmp, guion, abiertos, hijos, leido, salio>>
  PROVE  Enteros'
<1>1. \A h : /\ Rutina(h)' = Rutina(h) /\ GuionDe(h)' = GuionDe(h)
             /\ AMedias(h)' = AMedias(h)
  BY DEF Rutina, GuionDe, LaEntrada, AMedias
<1>2. \A h : (Ocupa(h)' <=> Ocupa(h)) /\ (EnCurso(h) => EnCurso(h)')
  BY <1>1 DEF Ocupa, EnCurso, Suya, Bueno
<1>2a. \A h : Escribiendo(h)' <=> Escribiendo(h)
  BY <1>1, <1>2 DEF Escribiendo
<1>3. Hacen({"map", "reduce"})' = Hacen({"map", "reduce"})
  BY <1>1 DEF Hacen
<1>4. \A h \in Hacen({"map", "reduce"}) : Respondio(h)' => Bueno(salio[h], h)'
  BY DEF Enteros, Respondio, Bueno
<1>. QED
  BY <1>1, <1>2, <1>2a, <1>3, <1>4 DEF Enteros

(* A thread without semaforoMapper moves: it serves a block, or asks.      *)
LEMMA EnterosAjeno ==
  ASSUME Enteros, Tipos, NEW g \in Hilo, ~Ocupa(g), ~Ocupa(g)',
         \A h \in Hilo \ {g} : pc'[h] = pc[h] /\ leido'[h] = leido[h] /\ salio'[h] = salio[h],
         UNCHANGED <<pedido, lanzado, arch, tmp, guion, abiertos, hijos>>,
         Rutina(g) \in {"map", "reduce"} => pc'[g] # "fin"
  PROVE  Enteros'
<1>1. \A h : /\ Rutina(h)' = Rutina(h) /\ GuionDe(h)' = GuionDe(h)
             /\ AMedias(h)' = AMedias(h)
  BY DEF Rutina, GuionDe, LaEntrada, AMedias
<1>2. \A h \in Hilo \ {g} : (Ocupa(h)' <=> Ocupa(h)) /\ (Ocupa(h) => EnCurso(h)')
  BY <1>1 DEF Ocupa, Enteros, EnCurso, Suya, Bueno
<1>3. \A d \in abiertos : d[1] \in Hilo \ {g}
  BY DEF Enteros, Tipos, Descriptores
<1>4. \A c \in hijos : c.padre \in Hilo \ {g}
  BY DEF Enteros, Tipos, Hijos
<1>5. \A h \in Hacen({"map", "reduce"})' : Respondio(h)' => Bueno(salio[h], h)'
  BY <1>1 DEF Hacen, Respondio, Enteros, Bueno
<1>6. \A c \in hijos' : Ocupa(c.padre)'
  BY <1>2, <1>4 DEF Enteros
<1>7. \A d \in abiertos' :
        Ocupa(d[1])' /\ (d[2] = "tubo" \/ (pc'[d[1]] = "graba" /\ d[2] = GuionDe(d[1])'))
  BY <1>1, <1>2, <1>3 DEF Enteros
<1>8. \A n \in Nombre : arch'[n] # Nada =>
       \/ arch'[n].entero
       \/ \E h \in Hilo : Escribiendo(h)' /\ n = pedido'[h].salida
  <2>. SUFFICES ASSUME NEW n \in Nombre, arch[n] # Nada, ~arch[n].entero
                PROVE  \E h \in Hilo : Escribiendo(h)' /\ n = pedido'[h].salida
    OBVIOUS
  <2>1. PICK h \in Hilo : Escribiendo(h) /\ n = pedido[h].salida
    BY DEF Enteros
  <2>. QED
    BY <1>1, <1>2, <2>1 DEF Escribiendo
<1>9. \A h \in Hilo : Ocupa(h)' => EnCurso(h)'
  BY <1>2
<1>. QED
  BY <1>5, <1>6, <1>7, <1>8, <1>9 DEF Enteros

(* The thread with semaforoMapper moves: the rest follows from where it is.*)
LEMMA EnterosSuyo ==
  ASSUME Enteros, IInv, IInv', TurnosInv', NEW g \in Hilo, Ocupa(g)', EnCurso(g)',
         pedido' = pedido, \A h \in Hilo \ {g} : pc'[h] = pc[h],
         \A c \in hijos' : c.padre = g,
         \A d \in abiertos' :
           d[1] = g /\ (d[2] = "tubo" \/ (pc'[g] = "graba" /\ d[2] = GuionDe(g))),
         \A n \in Nombre : arch'[n] # Nada =>
           arch'[n].entero \/ (Escribiendo(g)' /\ n = pedido[g].salida),
         salio' = salio
  PROVE  Enteros'
<1>1. \A h : Rutina(h)' = Rutina(h) /\ GuionDe(h)' = GuionDe(h)
  BY DEF Rutina, GuionDe, LaEntrada
<1>2. \A h \in Hilo : Ocupa(h)' => h = g
  BY DEF TurnosInv, Turnos
<1>3. \A h \in Hacen({"map", "reduce"}) : h # g /\ Respondio(h)' => Respondio(h)
  BY DEF Respondio, Hacen
<1>4. \A h \in Hacen({"map", "reduce"})' : Respondio(h)' => Bueno(salio[h], h)'
  BY <1>1, <1>3 DEF Hacen, Enteros, Bueno, Respondio, Ocupa
<1>. QED
  BY <1>1, <1>2, <1>4 DEF Enteros, Bueno

(* What the thread with semaforoMapper finds.                              *)
LEMMA EnterosSolo ==
  ASSUME IInv, Tipos, TurnosInv, Enteros, NEW g \in Hilo, Ocupa(g)
  PROVE  /\ \A h \in Hilo : Ocupa(h) => h = g
         /\ \A c \in hijos : c \in Hijos /\ c.padre = g
         /\ \A d \in abiertos :
              d[1] = g /\ (d[2] = "tubo" \/ (pc[g] = "graba" /\ d[2] = GuionDe(g)))
         /\ \A n \in Nombre : arch[n] # Nada =>
              arch[n].entero \/ (Escribiendo(g) /\ n = pedido[g].salida)
         /\ EnCurso(g)
         /\ pedido[g].job \in Job /\ pedido[g].job # Nada
         /\ pedido[g].salida \in Nombre /\ GuionDe(g) \in Guion \cup Nombre
         /\ Nada \notin Contenido
<1>1. \A h \in Hilo : Ocupa(h) => h = g
  BY DEF TurnosInv, Turnos
<1>2. \A c \in hijos : c \in Hijos /\ c.padre = g
  BY <1>1 DEF Enteros, Tipos, Hijos
<1>3. \A d \in abiertos : d[1] = g
  BY <1>1 DEF Enteros, Tipos, Descriptores
<1>4. /\ pedido[g].job \in Job /\ pedido[g].job # Nada
      /\ pedido[g].salida \in Nombre /\ GuionDe(g) \in Guion \cup Nombre
      /\ Nada \notin Contenido
  BY PedidoBien, NodoAssumption DEF Ocupa, Tipos
<1>5. \A n \in Nombre : arch[n] # Nada =>
        arch[n].entero \/ (Escribiendo(g) /\ n = pedido[g].salida)
  BY <1>1 DEF Enteros, Escribiendo
<1>6. \A d \in abiertos :
        d[1] = g /\ (d[2] = "tubo" \/ (pc[g] = "graba" /\ d[2] = GuionDe(g)))
  BY <1>3 DEF Enteros
<1>7. EnCurso(g)
  BY DEF Enteros
<1>. QED
  BY <1>1, <1>2, <1>4, <1>5, <1>6, <1>7

(* A thread that is not at a command waits for none.                       *)
LEMMA SinLanzar ==
  ASSUME IInv, NEW g \in Hilo, pc[g] \notin Comandos
  PROVE  ~lanzado[g]
BY DEF IInv, PasosInv

(* The thread with semaforoMapper takes a step.                            *)
LEMMA EnterosOcupa ==
  ASSUME IInv, IInv', Tipos, TurnosInv, TurnosInv', Enteros, NEW g \in Hilo, Ocupa(g), Atiende(g)
  PROVE  Enteros'
<1>. USE DEF archivos, proceso, Paso, Listo, Escribiendo
<1>0. /\ \A c \in hijos : c \in Hijos /\ c.padre = g
      /\ \A d \in abiertos :
           d[1] = g /\ (d[2] = "tubo" \/ (pc[g] = "graba" /\ d[2] = GuionDe(g)))
      /\ \A n \in Nombre : arch[n] # Nada =>
           arch[n].entero \/ (Escribiendo(g) /\ n = pedido[g].salida)
      /\ EnCurso(g) /\ pedido[g].job \in Job /\ pedido[g].job # Nada
      /\ pedido[g].salida \in Nombre /\ GuionDe(g) \in Guion \cup Nombre
      /\ Nada \notin Contenido /\ PasosInv /\ pc \in [Hilo -> Pasos]
      /\ lanzado \in [Hilo -> BOOLEAN] /\ pedido \in Casos
      /\ Rutina(g) \in {"map", "reduce"}
  BY EnterosSolo DEF IInv, PasosInv, Tipos, Ocupa
<1>a. \A h : Rutina(h)' = Rutina(h) /\ GuionDe(h)' = GuionDe(h) /\ AMedias(h)' = AMedias(h)
  <2>1. Camina(g)
    BY AtiendeCamina
  <2>. QED
    BY <2>1 DEF Rutina, GuionDe, LaEntrada, AMedias, Camina
<1>b. ASSUME NEW p, pc' = [pc EXCEPT ![g] = p], p \notin {"pide", "mapper", "fin"}
      PROVE  Ocupa(g)' /\ pc'[g] = p /\ \A h \in Hilo \ {g} : pc'[h] = pc[h]
  BY <1>0, <1>a, <1>b DEF Ocupa
<1>1. CASE TomaMapper(g) \/ TomaScript(g)
  <2>1. TomaScript(g) /\ pc[g] = "script" /\ Rutina(g) = "map" /\ ~lanzado[g]
    BY <1>0, <1>1, RutinaDelPaso, SinLanzar DEF TomaMapper, TomaScript, Ocupa, Comandos
  <2>2. pc' = [pc EXCEPT ![g] = "tubo"]
    BY <2>1, SigueMap DEF TomaScript
  <2>3. EnCurso(g)'
    BY <1>0, <1>a, <1>b, <2>1, <2>2 DEF TomaScript, EnCurso, Comandos
  <2>. QED
    BY <1>0, <1>b, <2>1, <2>2, <2>3, EnterosSuyo DEF TomaScript
<1>2. CASE SueltaScript(g)
  <2>1. pc[g] = "suelta" /\ Rutina(g) = "map" /\ ~lanzado[g]
    BY <1>0, <1>2, RutinaDelPaso, SinLanzar DEF SueltaScript, Comandos
  <2>2. pc' = [pc EXCEPT ![g] = "sort"]
    BY <1>2, <2>1, SigueMap DEF SueltaScript
  <2>3. EnCurso(g)'
    BY <1>0, <1>2, <1>a, <1>b, <2>1, <2>2 DEF SueltaScript, EnCurso, Comandos, Bueno
  <2>. QED
    BY <1>0, <1>2, <1>b, <2>1, <2>2, <2>3, EnterosSuyo DEF SueltaScript
<1>3. CASE AbreGuion(g)
  <2>1. pc[g] = "abre"
    BY <1>3 DEF AbreGuion
  <2>2. pc' = [pc EXCEPT ![g] = "graba"]
    BY <1>0, <1>3, <2>1, SigueMap, SigueReduce DEF AbreGuion
  <2>3. EnCurso(g)'
    BY <1>0, <1>3, <1>a, <1>b, <2>1, <2>2 DEF AbreGuion, EnCurso, Comandos
  <2>4. UNCHANGED <<pedido, arch, hijos, salio>> /\ abiertos' = abiertos \cup {<<g, GuionDe(g)>>}
    BY <1>3 DEF AbreGuion
  <2>5. \A n \in Nombre : arch'[n] # Nada => arch'[n].entero
    BY <1>0, <2>1, <2>4
  <2>6. \A d \in abiertos' : d[1] = g /\ (d[2] = "tubo" \/ (pc'[g] = "graba" /\ d[2] = GuionDe(g)))
    BY <1>0, <1>b, <2>1, <2>2, <2>4
  <2>. QED
    BY <1>0, <1>b, <2>2, <2>3, <2>4, <2>5, <2>6, EnterosSuyo
<1>4. CASE GrabaGuion(g)
  <2>1. pc[g] = "graba" /\ ~lanzado[g]
    BY <1>4, SinLanzar DEF GrabaGuion, Comandos
  <2>2. pc' = [pc EXCEPT ![g] = "chmod"]
    BY <1>0, <1>4, <2>1, SigueMap, SigueReduce DEF GrabaGuion
  <2>3. guion'[GuionDe(g)] = pedido[g].job /\ hijos = {}
    BY <1>0, <1>4, <2>1 DEF GrabaGuion, Tipos, EnCurso, Comandos
  <2>4. EnCurso(g)'
    BY <1>0, <1>4, <1>a, <1>b, <2>1, <2>2, <2>3 DEF GrabaGuion, EnCurso, Comandos
  <2>5. \A d \in abiertos' : d[1] = g /\ d[2] = "tubo"
    <3>1. \A d \in abiertos : d = <<d[1], d[2]>>
      BY DEF Tipos, Descriptores
    <3>. QED
      BY <1>0, <1>4, <3>1 DEF GrabaGuion
  <2>. QED
    BY <1>0, <1>4, <1>b, <2>1, <2>2, <2>4, <2>5, EnterosSuyo DEF GrabaGuion
<1>5. CASE LanzaComando(g)
  <2>. DEFINE c == Hijo(g, pc[g], Nada)
  <2>1. /\ pc[g] \in Comandos /\ ~lanzado[g] /\ pc' = pc
        /\ lanzado' = [lanzado EXCEPT ![g] = TRUE] /\ hijos' = hijos \cup {c}
        /\ UNCHANGED <<pedido, arch, tmp, guion, abiertos, leido, salio>>
    BY <1>5 DEF LanzaComando
  <2>2. hijos' = {c} /\ c.que = pc[g] /\ c.padre = g /\ c.vivo
    BY <1>0, <2>1 DEF EnCurso, Hijo
  <2>3. lanzado'[g]
    BY <1>0, <2>1
  <2>. HIDE DEF c
  <2>4. EnCurso(g)'
    BY <1>0, <1>a, <2>1, <2>2, <2>3 DEF EnCurso, Comandos, Bueno
  <2>5. Ocupa(g)'
    BY <1>a, <2>1 DEF Ocupa
  <2>6. \A n \in Nombre : arch'[n] # Nada => arch'[n].entero
    BY <1>0, <2>1 DEF Comandos
  <2>7. \A d \in abiertos' : d[1] = g /\ d[2] = "tubo"
    BY <1>0, <2>1 DEF Comandos
  <2>. QED
    BY <2>1, <2>2, <2>4, <2>5, <2>6, <2>7, EnterosSuyo
<1>6. CASE EsperaComando(g)
  <2>1. /\ lanzado[g] /\ pc' = [pc EXCEPT ![g] = Sigue(g)]
        /\ lanzado' = [lanzado EXCEPT ![g] = FALSE]
        /\ UNCHANGED <<pedido, arch, tmp, guion, abiertos, leido, salio>>
        /\ \A c \in hijos : c.padre = g /\ c.que = pc[g] => ~c.vivo
        /\ hijos' = hijos \ {c \in hijos : c.padre = g /\ c.que = pc[g]}
    BY <1>6 DEF EsperaComando
  <2>2. pc[g] \in Comandos
    BY <2>1 DEF IInv, PasosInv
  <2>3. PICK c \in hijos : hijos = {c} /\ c.que = pc[g] /\ c.padre = g
    BY <1>0, <2>1, <2>2 DEF EnCurso
  <2>4. hijos' = {} /\ \A d \in hijos : ~d.vivo
    BY <2>1, <2>3
  <2>5. ~lanzado'[g]
    BY <1>0, <2>1
  <2>6. /\ pc[g] = "chmod" => Sigue(g) \in {"script", "lee"}
        /\ pc[g] = "sort" => Sigue(g) = "rmTmp"
        /\ pc[g] = "rmTmp" => Sigue(g) = "rmGuion"
        /\ pc[g] = "rmGuion" => Sigue(g) \in {"rmEntrada", "responde"}
        /\ pc[g] = "rmEntrada" => Sigue(g) = "responde"
    BY <1>0, RutinaDelPaso, SigueMap, SigueReduce
  <2>7. Sigue(g) \notin {"pide", "mapper", "fin"}
    BY <2>2, <2>6 DEF Comandos
  <2>8. EnCurso(g)'
    <3>. USE <1>0, <1>a, <1>b, <2>1, <2>4, <2>5, <2>6, <2>7 DEF Bueno, Comandos
    <3>1. CASE pc[g] = "chmod"
      BY <3>1 DEF EnCurso
    <3>2. CASE pc[g] = "sort"
      BY <3>2 DEF EnCurso
    <3>3. CASE pc[g] = "rmTmp"
      BY <3>3 DEF EnCurso
    <3>4. CASE pc[g] = "rmGuion"
      BY <3>4 DEF EnCurso
    <3>5. CASE pc[g] = "rmEntrada"
      BY <3>5 DEF EnCurso
    <3>. QED
      BY <2>2, <3>1, <3>2, <3>3, <3>4, <3>5
  <2>9. \A n \in Nombre : arch'[n] # Nada => arch'[n].entero
    BY <1>0, <2>1, <2>2 DEF Comandos
  <2>10. \A d \in abiertos' : d[1] = g /\ d[2] = "tubo"
    BY <1>0, <2>1, <2>2 DEF Comandos
  <2>. QED
    BY <1>b, <2>1, <2>4, <2>7, <2>8, <2>9, <2>10, EnterosSuyo
<1>7. CASE LeeEntrada(g)
  <2>1. pc[g] = "lee" /\ Rutina(g) = "reduce" /\ ~lanzado[g]
    BY <1>0, <1>7, RutinaDelPaso, SinLanzar DEF LeeEntrada, Comandos
  <2>2. CASE UNCHANGED <<pc, leido>>
    BY <1>7, <2>2, EnterosQuieto DEF LeeEntrada
  <2>3. CASE Paso(g, "lee") /\ arch[LaEntrada(g)] # Nada
             /\ leido' = [leido EXCEPT ![g] = arch[LaEntrada(g)]]
    <3>1. LaEntrada(g) \in Nombre
      BY <1>0, <2>1, PedidoBien
    <3>2. leido'[g].entero
      BY <1>0, <2>1, <2>3, <3>1 DEF Tipos
    <3>3. pc' = [pc EXCEPT ![g] = "tubo"]
      BY <2>1, <2>3, SigueReduce
    <3>4. UNCHANGED <<pedido, lanzado, arch, tmp, guion, abiertos, hijos, salio>>
      BY <1>7 DEF LeeEntrada
    <3>5. EnCurso(g)'
      BY <1>0, <1>a, <1>b, <2>1, <3>2, <3>3, <3>4 DEF EnCurso, Comandos
    <3>. QED
      BY <1>0, <1>b, <2>1, <3>3, <3>4, <3>5, EnterosSuyo
  <2>. QED
    BY <1>7, <2>2, <2>3 DEF LeeEntrada
<1>8. CASE Entuba(g)
  <2>1. pc[g] = "tubo" /\ ~lanzado[g]
    BY <1>8, SinLanzar DEF Entuba, Comandos
  <2>2. pc' = [pc EXCEPT ![g] = "fork"]
    BY <1>0, <1>8, <2>1, SigueMap, SigueReduce DEF Entuba
  <2>3. EnCurso(g)'
    BY <1>0, <1>8, <1>a, <1>b, <2>1, <2>2 DEF Entuba, EnCurso, Comandos
  <2>4. UNCHANGED <<pedido, arch, hijos, salio>> /\ abiertos' = abiertos \cup {<<g, "tubo">>}
    BY <1>8 DEF Entuba
  <2>5. \A n \in Nombre : arch'[n] # Nada => arch'[n].entero
    BY <1>0, <2>1, <2>4
  <2>6. \A d \in abiertos' : d[1] = g /\ d[2] = "tubo"
    BY <1>0, <2>1, <2>4
  <2>. QED
    BY <1>0, <1>b, <2>2, <2>3, <2>4, <2>5, <2>6, EnterosSuyo
<1>9. CASE Bifurca(g)
  <2>. DEFINE c == Hijo(g, "guion", Ejecutable(g))
              n == pedido[g].salida
  <2>1. pc[g] = "fork" /\ ~lanzado[g]
    BY <1>9, SinLanzar DEF Bifurca, Comandos
  <2>2. pc' = [pc EXCEPT ![g] = "escribe"]
    BY <1>0, <1>9, <2>1, SigueMap, SigueReduce DEF Bifurca
  <2>3. hijos = {} /\ guion[GuionDe(g)] = pedido[g].job
    BY <1>0, <2>1 DEF EnCurso, Comandos
  <2>4. Ejecutable(g) = pedido[g].job
    <3>1. GuionDe(g) # "tubo"
      BY <1>0, NodoAssumption
    <3>2. ~AbiertoPara(GuionDe(g))
      BY <1>0, <2>1, <2>3, <3>1 DEF AbiertoPara
    <3>. QED
      BY <2>3, <3>2 DEF Ejecutable
  <2>5. /\ hijos' = {c} /\ c.que = "guion" /\ c.padre = g /\ c.vivo /\ c.por = pedido[g].job
        /\ UNCHANGED <<pedido, lanzado, guion, abiertos, leido, salio>>
    BY <1>9, <2>3, <2>4 DEF Bifurca, Hijo
  <2>6. IF Rutina(g) = "map" THEN tmp' = [tmp EXCEPT ![n] = AMedias(g)] /\ arch' = arch
                             ELSE arch' = [arch EXCEPT ![n] = AMedias(g)] /\ tmp' = tmp
    BY <1>9 DEF Bifurca
  <2>. HIDE DEF c
  <2>7. Suya(g)' = AMedias(g)'
    BY <1>0, <1>a, <2>5, <2>6 DEF Suya, Tipos
  <2>8. EnCurso(g)'
    BY <1>0, <1>a, <1>b, <2>1, <2>2, <2>5, <2>7 DEF EnCurso, Comandos
  <2>9. Ocupa(g)' /\ pc'[g] = "escribe" /\ \A h \in Hilo \ {g} : pc'[h] = pc[h]
    BY <1>b, <2>2
  <2>10. \A m \in Nombre : arch'[m] # Nada =>
           arch'[m].entero \/ (Escribiendo(g)' /\ m = pedido[g].salida)
    BY <1>0, <1>a, <2>1, <2>6, <2>9 DEF Tipos
  <2>11. \A d \in abiertos' : d[1] = g /\ d[2] = "tubo"
    BY <1>0, <2>1, <2>5
  <2>12. \A d \in hijos' : d.padre = g
    BY <2>5
  <2>. QED
    BY <2>5, <2>8, <2>9, <2>10, <2>11, <2>12, EnterosSuyo
<1>10. CASE Escribe(g)
  <2>1. pc[g] = "escribe" /\ ~lanzado[g]
    BY <1>10, SinLanzar DEF Escribe, Comandos
  <2>2. CASE UNCHANGED <<pc, leido, abiertos>>
    BY <1>10, <2>2, EnterosQuieto DEF Escribe
  <2>3. CASE Paso(g, "escribe") /\ abiertos' = abiertos \ {<<g, "tubo">>}
             /\ leido' = [leido EXCEPT ![g] =
                       IF Rutina(g) = "map" THEN EnBloque(pedido[g].bloque) ELSE @]
    <3>1. pc' = [pc EXCEPT ![g] = "espera"]
      BY <1>0, <2>1, <2>3, SigueMap, SigueReduce
    <3>2. leido'[g].entero
      BY <1>0, <2>1, <2>3 DEF EnCurso, Tipos, EnBloque
    <3>3. UNCHANGED <<pedido, lanzado, arch, tmp, guion, hijos, salio>>
      BY <1>10 DEF Escribe
    <3>4. Suya(g)' = Suya(g)
      BY <1>a, <3>3 DEF Suya
    <3>5. PICK c \in hijos :
            /\ hijos = {c} /\ c.que = "guion" /\ c.por = pedido[g].job /\ c.vivo
            /\ Suya(g) = AMedias(g)
      BY <1>0, <2>1 DEF EnCurso
    <3>6. EnCurso(g)'
      BY <1>0, <1>a, <1>b, <2>1, <3>1, <3>2, <3>3, <3>4, <3>5 DEF EnCurso, Comandos
    <3>7. Ocupa(g)' /\ pc'[g] = "espera" /\ \A h \in Hilo \ {g} : pc'[h] = pc[h]
      BY <1>b, <3>1
    <3>8. \A n \in Nombre : arch'[n] # Nada =>
            arch'[n].entero \/ (Escribiendo(g)' /\ n = pedido[g].salida)
      BY <1>0, <1>a, <3>3, <3>7
    <3>9. \A d \in abiertos' : d[1] = g /\ d[2] = "tubo"
      BY <1>0, <2>1, <2>3
    <3>. QED
      BY <1>0, <3>3, <3>6, <3>7, <3>8, <3>9, EnterosSuyo
  <2>. QED
    BY <1>10, <2>2, <2>3 DEF Escribe
<1>11. CASE Espera(g)
  <2>1. pc[g] = "espera" /\ ~lanzado[g]
    BY <1>11, SinLanzar DEF Espera, Comandos
  <2>2. pc' = [pc EXCEPT ![g] = IF Rutina(g) = "map" THEN "suelta" ELSE "rmGuion"]
    BY <1>0, <1>11, <2>1, SigueMap, SigueReduce DEF Espera
  <2>3. PICK c \in hijos : hijos = {c} /\ (c.vivo \/ Bueno(Suya(g), g))
    BY <1>0, <2>1 DEF EnCurso
  <2>4. /\ UNCHANGED <<pedido, lanzado, arch, tmp, guion, abiertos, leido, salio>>
        /\ \E d \in {e \in hijos : ~e.vivo} : hijos' = hijos \ {d}
    BY <1>11 DEF Espera
  <2>5. hijos' = {} /\ Bueno(Suya(g), g)
    BY <2>3, <2>4
  <2>6. EnCurso(g)'
    BY <1>0, <1>a, <1>b, <2>1, <2>2, <2>4, <2>5 DEF EnCurso, Comandos, Suya, Bueno
  <2>7. \A n \in Nombre : arch'[n] # Nada => arch'[n].entero
    <3>1. CASE Rutina(g) = "reduce"
      BY <1>0, <2>4, <2>5, <3>1 DEF Suya, Bueno
    <3>2. CASE Rutina(g) = "map"
      BY <1>0, <2>1, <2>4, <3>2 DEF Enteros
    <3>. QED
      BY <1>0, <3>1, <3>2
  <2>. QED
    BY <1>0, <1>b, <2>1, <2>2, <2>4, <2>5, <2>6, <2>7, EnterosSuyo
<1>12. CASE Responde(g)
  <2>1. pc[g] = "responde" /\ salio' = [salio EXCEPT ![g] = arch[pedido[g].salida]]
        /\ UNCHANGED <<pedido, lanzado, arch, tmp, guion, abiertos, hijos, leido>>
    BY <1>12 DEF Responde
  <2>2. pc' = [pc EXCEPT ![g] = "fin"]
    BY <1>0, <1>12, <2>1, SigueMap, SigueReduce DEF Responde
  <2>3. hijos = {} /\ (arch[pedido[g].salida] # Nada => Bueno(arch[pedido[g].salida], g))
    BY <1>0, <2>1 DEF EnCurso, Comandos
  <2>4. abiertos = {}
    <3>1. \A d \in abiertos : d = <<d[1], d[2]>>
      BY DEF Tipos, Descriptores
    <3>. QED
      BY <1>0, <2>1, <3>1 DEF TurnosInv, Tubos
  <2>5. \A h \in Hilo : ~Ocupa(h)'
    <3>1. ~Ocupa(g)'
      BY <1>0, <2>2 DEF Ocupa
    <3>2. \A h \in Hilo \ {g} : ~Ocupa(h)'
      BY <1>0, <1>a, <2>2, EnterosSolo DEF Ocupa
    <3>. QED
      BY <3>1, <3>2
  <2>6. \A h \in Hacen({"map", "reduce"})' : Respondio(h)' => Bueno(salio[h], h)'
    <3>1. \A h \in Hacen({"map", "reduce"}) \ {g} : Respondio(h)' => Respondio(h)
      BY <1>0, <2>1, <2>2 DEF Respondio, Hacen, Tipos
    <3>2. Respondio(g)' => Bueno(salio[g], g)'
      BY <2>1, <2>3 DEF Respondio, Bueno, Tipos
    <3>. QED
      BY <1>a, <2>1, <3>1, <3>2 DEF Hacen, Enteros, Bueno, Tipos
  <2>. QED
    BY <1>0, <2>1, <2>3, <2>4, <2>5, <2>6 DEF Enteros
<1>13. CASE \/ Junta(g) \/ Sube(g) \/ MandaCuerpo(g) \/ LeeOk(g)
            \/ TomaSetBloque(g) \/ Posiciona(g) \/ EscribeCeros(g) \/ EscribeDatos(g)
            \/ AnunciaBloque(g) \/ MandaBloque(g)
  <2>1. pc[g] \in {"junta", "sube", "cuerpo", "ok", "anuncia", "manda"} \cup DeSet
    BY <1>13 DEF Junta, Sube, MandaCuerpo, LeeOk, TomaSetBloque, Posiciona, EscribeCeros,
                 EscribeDatos, AnunciaBloque, MandaBloque, DeSet
  <2>. QED
    BY <1>0, <2>1, RutinaDelPaso
<1>. QED
  BY <1>1, <1>2, <1>3, <1>4, <1>5, <1>6, <1>7, <1>8, <1>9, <1>10, <1>11, <1>12, <1>13
     DEF Atiende

(* Where a step of a request starts.                                       *)
LEMMA SinPedir ==
  ASSUME IInv, NEW g \in Hilo, Atiende(g)
  PROVE  pc[g] # "pide"
<1>. USE DEF Paso, Listo
<1>1. CASE LanzaComando(g) \/ EsperaComando(g)
  BY <1>1 DEF LanzaComando, EsperaComando, Comandos, IInv, PasosInv
<1>2. CASE TomaMapper(g) \/ TomaScript(g) \/ SueltaScript(g) \/ AbreGuion(g) \/ GrabaGuion(g)
  BY <1>2 DEF TomaMapper, TomaScript, SueltaScript, AbreGuion, GrabaGuion
<1>3. CASE LeeEntrada(g) \/ Junta(g) \/ Entuba(g) \/ Bifurca(g) \/ Escribe(g) \/ Espera(g)
  BY <1>3 DEF LeeEntrada, Junta, Entuba, Bifurca, Escribe, Espera
<1>4. CASE Responde(g) \/ Sube(g) \/ MandaCuerpo(g) \/ LeeOk(g)
  BY <1>4 DEF Responde, Sube, MandaCuerpo, LeeOk
<1>5. CASE \/ TomaSetBloque(g) \/ Posiciona(g) \/ EscribeCeros(g) \/ EscribeDatos(g)
           \/ AnunciaBloque(g) \/ MandaBloque(g)
  BY <1>5 DEF TomaSetBloque, Posiciona, EscribeCeros, EscribeDatos, AnunciaBloque, MandaBloque
<1>. QED
  BY <1>1, <1>2, <1>3, <1>4, <1>5 DEF Atiende

(* A request for a block takes only the steps of its routine.              *)
LEMMA DeBloques ==
  ASSUME IInv, NEW g \in Hilo, Atiende(g), Rutina(g) \in {"set", "get"}
  PROVE  \/ TomaSetBloque(g) \/ Posiciona(g) \/ EscribeCeros(g) \/ EscribeDatos(g)
         \/ AnunciaBloque(g) \/ MandaBloque(g)
<1>. USE DEF Paso, Listo
<1>0. PasosInv /\ ~lanzado[g]
  <2>1. pc[g] \notin Comandos
    BY RutinaDelPaso DEF Comandos, IInv
  <2>. QED
    BY <2>1, SinLanzar DEF IInv
<1>1. pc[g] \in {"setBloque", "seek0", "ceros", "seek", "datos", "anuncia", "manda"}
        \/ pc[g] \in {"pide", "fin", "cuelga"}
  BY <1>0, PasosDeCadaRutina DEF PasosInv
<1>2. ~LanzaComando(g) /\ ~EsperaComando(g)
  BY <1>0, <1>1 DEF LanzaComando, EsperaComando, Comandos
<1>3. ~(TomaMapper(g) \/ TomaScript(g) \/ SueltaScript(g) \/ AbreGuion(g) \/ GrabaGuion(g))
  BY <1>1 DEF TomaMapper, TomaScript, SueltaScript, AbreGuion, GrabaGuion
<1>4. ~(LeeEntrada(g) \/ Junta(g) \/ Entuba(g) \/ Bifurca(g) \/ Escribe(g) \/ Espera(g))
  BY <1>1 DEF LeeEntrada, Junta, Entuba, Bifurca, Escribe, Espera
<1>5. ~(Responde(g) \/ Sube(g) \/ MandaCuerpo(g) \/ LeeOk(g))
  BY <1>1 DEF Responde, Sube, MandaCuerpo, LeeOk
<1>. QED
  BY <1>2, <1>3, <1>4, <1>5 DEF Atiende

(* At semaforoMapper a thread only takes it.                               *)
LEMMA EnMapper ==
  ASSUME IInv, NEW g \in Hilo, Atiende(g), pc[g] = "mapper"
  PROVE  TomaMapper(g)
<1>. USE DEF Paso, Listo
<1>1. ~LanzaComando(g) /\ ~EsperaComando(g)
  BY SinLanzar DEF LanzaComando, EsperaComando, Comandos
<1>2. ~(TomaScript(g) \/ SueltaScript(g) \/ AbreGuion(g) \/ GrabaGuion(g))
  BY DEF TomaScript, SueltaScript, AbreGuion, GrabaGuion
<1>3. ~(LeeEntrada(g) \/ Junta(g) \/ Entuba(g) \/ Bifurca(g) \/ Escribe(g) \/ Espera(g))
  BY DEF LeeEntrada, Junta, Entuba, Bifurca, Escribe, Espera
<1>4. ~(Responde(g) \/ Sube(g) \/ MandaCuerpo(g) \/ LeeOk(g))
  BY DEF Responde, Sube, MandaCuerpo, LeeOk
<1>5. ~(\/ TomaSetBloque(g) \/ Posiciona(g) \/ EscribeCeros(g) \/ EscribeDatos(g)
        \/ AnunciaBloque(g) \/ MandaBloque(g))
  BY DEF TomaSetBloque, Posiciona, EscribeCeros, EscribeDatos, AnunciaBloque, MandaBloque
<1>. QED
  BY <1>1, <1>2, <1>3, <1>4, <1>5 DEF Atiende

(* The thread that takes semaforoMapper finds no children and nothing open.*)
LEMMA EnterosEntra ==
  ASSUME IInv, IInv', Tipos, TurnosInv, TurnosInv', Enteros, NEW g \in Hilo, TomaMapper(g)
  PROVE  Enteros'
<1>. USE DEF archivos, proceso, Paso, Listo
<1>1. /\ PasosInv /\ pc \in [Hilo -> Pasos] /\ Nada \notin Hilo
      /\ pc[g] = "mapper" /\ Rutina(g) \in {"map", "reduce"} /\ ~lanzado[g]
      /\ UNCHANGED <<pedido, lanzado, arch, tmp, guion, abiertos, hijos, leido, salio>>
  BY RutinaDelPaso, SinLanzar, NodoAssumption DEF TomaMapper, IInv, PasosInv, Comandos
<1>2. pc' = [pc EXCEPT ![g] = "abre"]
  BY <1>1, SigueMap, SigueReduce DEF TomaMapper
<1>3. \A h \in Hilo : ~Ocupa(h)
  BY <1>1 DEF TomaMapper, Toma, SinEsperar, TurnosInv, Turnos
<1>4. hijos = {} /\ abiertos = {} /\ \A n \in Nombre : arch[n] # Nada => arch[n].entero
  BY <1>3 DEF Enteros, Tipos, Hijos, Descriptores, Escribiendo
<1>5. Ocupa(g)' /\ pc'[g] = "abre" /\ \A h \in Hilo \ {g} : pc'[h] = pc[h]
  BY <1>1, <1>2 DEF Ocupa, Rutina
<1>6. EnCurso(g)'
  BY <1>1, <1>4, <1>5 DEF EnCurso, Comandos
<1>. QED
  BY <1>1, <1>4, <1>5, <1>6, EnterosSuyo

(* A thread without semaforoMapper takes a step.                           *)
LEMMA EnterosOtro ==
  ASSUME IInv, IInv', Tipos, TurnosInv, TurnosInv', Enteros, Totales' = {},
         NEW g \in Hilo, ~Ocupa(g), Atiende(g) \/ Pide(g)
  PROVE  Enteros'
<1>. USE DEF archivos, proceso, Paso, Listo
<1>1. /\ Camina(g) /\ PasosInv /\ PasosInv' /\ pc \in [Hilo -> Pasos] /\ Rutina(g) \in Rutinas
      /\ pc[g] \notin {"fin", "cuelga"} /\ leido \in [Hilo -> Contenido]
      /\ salio \in [Hilo -> Contenido \cup {Nada}]
  BY AtiendeCamina, RutinaDelPaso DEF IInv, PasosInv, Camina, Tipos
<1>2. Totales = {} /\ Rutina(g)' = Rutina(g) /\ \A h \in Hilo \ {g} : pc'[h] = pc[h]
  BY <1>1, TotalesCrece DEF Camina, Rutina
<1>3. CASE Pide(g)
  <2>1. /\ pc[g] = "pide" /\ pc' = [pc EXCEPT ![g] = Sigue(g)]
        /\ UNCHANGED <<pedido, lanzado, arch, tmp, guion, abiertos, hijos, leido, salio>>
    BY <1>3 DEF Pide
  <2>2. Sigue(g) # "pide" /\ (Rutina(g) \in {"map", "reduce"} => Sigue(g) = "mapper")
    BY <1>1, <2>1, SigueTurno
  <2>. QED
    BY <1>1, <1>2, <2>1, <2>2, EnterosAjeno DEF Ocupa
<1>4. CASE TomaMapper(g)
  BY <1>4, EnterosEntra
<1>5. CASE Atiende(g) /\ ~TomaMapper(g)
  <2>1. pc[g] # "pide"
    BY <1>1, <1>5, SinPedir
  <2>2. Rutina(g) \in {"set", "get"}
    <3>1. Rutina(g) # "total"
      BY <1>2, <2>1 DEF Totales, Pedidos, Hacen
    <3>2. ASSUME Rutina(g) \in {"map", "reduce"}
          PROVE  FALSE
      <4>1. pc[g] = "mapper"
        BY <1>1, <2>1, <3>2 DEF Ocupa
      <4>. QED
        BY <1>5, <4>1, EnMapper
    <3>. QED
      BY <1>1, <3>1, <3>2 DEF Rutinas
  <2>3. \/ TomaSetBloque(g) \/ Posiciona(g) \/ EscribeCeros(g) \/ EscribeDatos(g)
        \/ AnunciaBloque(g) \/ MandaBloque(g)
    BY <1>1, <1>5, <2>2, DeBloques
  <2>4. UNCHANGED <<pedido, lanzado, arch, tmp, guion, abiertos, hijos>>
    BY <2>3 DEF TomaSetBloque, Posiciona, EscribeCeros, EscribeDatos, AnunciaBloque, MandaBloque
  <2>5. \A h \in Hilo \ {g} : leido'[h] = leido[h] /\ salio'[h] = salio[h]
    BY <1>1, <2>3
       DEF TomaSetBloque, Posiciona, EscribeCeros, EscribeDatos, AnunciaBloque, MandaBloque
  <2>. QED
    BY <1>2, <2>2, <2>4, <2>5, EnterosAjeno DEF Ocupa
<1>. QED
  BY <1>3, <1>4, <1>5

(* A child ends.                                                           *)
LEMMA EnterosTermina ==
  ASSUME IInv, IInv', Tipos, TurnosInv, TurnosInv', Enteros,
         NEW c \in hijos, TerminaComando(c) \/ TerminaGuion(c)
  PROVE  Enteros'
<1>. DEFINE g == c.padre
            n == pedido[g].salida
            d == [c EXCEPT !.vivo = FALSE, !.abiertos = {}]
<1>1. /\ UNCHANGED <<pedido, pc, lanzado, abiertos, leido, salio>> /\ c.vivo
      /\ hijos' = (hijos \ {c}) \cup {d}
  BY DEF TerminaComando, TerminaGuion, Termina
<1>2. g \in Hilo /\ Ocupa(g) /\ c \in Hijos
  BY DEF Enteros, Tipos, Hijos
<1>3. /\ \A e \in abiertos : e[1] = g /\ (e[2] = "tubo" \/ (pc[g] = "graba" /\ e[2] = GuionDe(g)))
      /\ \A m \in Nombre : arch[m] # Nada =>
           arch[m].entero \/ (Escribiendo(g) /\ m = pedido[g].salida)
      /\ EnCurso(g) /\ pedido[g].job \in Job /\ pedido[g].job # Nada
      /\ n \in Nombre /\ Nada \notin Contenido
      /\ pc \in [Hilo -> Pasos] /\ PasosInv
  BY <1>2, EnterosSolo DEF IInv, PasosInv
<1>4. d.padre = g /\ d.que = c.que /\ d.por = c.por /\ ~d.vivo
  BY <1>2 DEF Hijos
<1>. HIDE DEF d
<1>5. hijos = {c} /\ hijos' = {d} /\ pc[g] \in Comandos \cup {"escribe", "espera"}
  <2>1. hijos = {c}
    BY <1>3 DEF EnCurso
  <2>. QED
    BY <1>1, <1>3, <2>1 DEF EnCurso
<1>6. /\ Ocupa(g)' /\ Rutina(g)' = Rutina(g) /\ GuionDe(g)' = GuionDe(g)
      /\ AMedias(g)' = AMedias(g)
  BY <1>1, <1>2 DEF Ocupa, Rutina, GuionDe, LaEntrada, AMedias
<1>7. \A e \in abiertos' :
        e[1] = g /\ (e[2] = "tubo" \/ (pc'[g] = "graba" /\ e[2] = GuionDe(g)))
  BY <1>1, <1>3
<1>8. ASSUME EnCurso(g)',
             \A m \in Nombre : arch'[m] # Nada =>
               arch'[m].entero \/ (Escribiendo(g)' /\ m = pedido[g].salida)
      PROVE  Enteros'
  <2>1. \A e \in hijos' : e.padre = g
    BY <1>4, <1>5
  <2>2. pedido' = pedido /\ salio' = salio /\ \A h \in Hilo \ {g} : pc'[h] = pc[h]
    BY <1>1
  <2>. HIDE DEF g
  <2>. QED
    BY <1>2, <1>6, <1>7, <1>8, <2>1, <2>2, EnterosSuyo
<1>9. CASE TerminaComando(c)
  <2>1. c.que \in Comandos /\ Ejecuta(c.que, g)
    BY <1>9 DEF TerminaComando
  <2>2. pc[g] \in Comandos /\ lanzado[g] /\ c.que = pc[g]
    BY <1>3, <1>5, <2>1 DEF EnCurso, Comandos
  <2>3. \A m \in Nombre : arch[m] # Nada => arch[m].entero
    BY <1>3, <2>2 DEF Comandos, Escribiendo
  <2>4. arch \in [Nombre -> Contenido \cup {Nada}]
    BY DEF Tipos
  <2>. USE <1>1, <1>2, <1>3, <1>4, <1>5, <1>6, <2>1, <2>2, <2>3, <2>4 DEF Bueno, Comandos
  <2>5. CASE pc[g] = "chmod"
    <3>1. UNCHANGED <<arch, tmp, guion>>
      BY <2>5 DEF Ejecuta
    <3>2. EnCurso(g)'
      BY <2>5, <3>1 DEF EnCurso
    <3>. QED
      BY <1>8, <3>1, <3>2
  <2>6. CASE pc[g] = "sort"
    <3>1. Bueno(tmp[n], g)
      BY <2>6 DEF EnCurso
    <3>2. arch' = [arch EXCEPT ![n] = tmp[n]] /\ UNCHANGED <<tmp, guion>>
      BY <2>6, <3>1 DEF Ejecuta
    <3>3. EnCurso(g)'
      BY <2>6, <3>1, <3>2 DEF EnCurso
    <3>4. \A m \in Nombre : arch'[m] # Nada => arch'[m].entero
      BY <3>1, <3>2
    <3>. QED
      BY <1>8, <3>3, <3>4
  <2>7. CASE pc[g] \in {"rmTmp", "rmGuion"}
    <3>1. UNCHANGED arch
      BY <2>7 DEF Ejecuta
    <3>2. EnCurso(g)'
      BY <2>7, <3>1 DEF EnCurso
    <3>. QED
      BY <1>8, <3>1, <3>2
  <2>8. CASE pc[g] = "rmEntrada"
    <3>1. arch' = [arch EXCEPT ![LaEntrada(g)] = Nada]
      BY <2>8 DEF Ejecuta
    <3>2. EnCurso(g)'
      BY <2>8, <3>1 DEF EnCurso
    <3>3. \A m \in Nombre : arch'[m] # Nada => arch'[m].entero
      BY <3>1
    <3>. QED
      BY <1>8, <3>2, <3>3
  <2>. QED
    BY <2>5, <2>6, <2>7, <2>8
<1>10. CASE TerminaGuion(c)
  <2>1. /\ c.que = "guion" /\ Puede(c) /\ guion' = guion
        /\ IF Rutina(g) = "map" THEN tmp' = Deja(tmp, c) /\ arch' = arch
                                ELSE arch' = Deja(arch, c) /\ tmp' = tmp
    BY <1>10 DEF TerminaGuion
  <2>2. /\ pc[g] \in {"escribe", "espera"} /\ c.por = pedido[g].job /\ c.por # Nada
        /\ Suya(g) = AMedias(g) /\ ~lanzado[g]
    BY <1>1, <1>2, <1>3, <1>5, <2>1, SinLanzar DEF EnCurso, Comandos
  <2>3. pc[g] = "espera"
    BY <1>2, <2>1, <2>2 DEF Puede, TurnosInv, Tubos
  <2>4. leido[g].entero
    BY <1>3, <2>3 DEF EnCurso
  <2>5. /\ Escrito(c) # Nada /\ Escrito(c).entero /\ Escrito(c).por = pedido[g].job
    <3>1. Escrito(c) \in Contenido
      BY <1>2, <1>3, <2>2 DEF Escrito, Contenido, Tipos, Hijos
    <3>. QED
      BY <1>3, <2>2, <2>4, <3>1 DEF Escrito
  <2>6. IF Rutina(g) = "map" THEN tmp' = [tmp EXCEPT ![n] = Escrito(c)] /\ arch' = arch
                             ELSE arch' = [arch EXCEPT ![n] = Escrito(c)] /\ tmp' = tmp
    BY <2>1, <2>2 DEF Deja, Suya
  <2>7. Bueno(Suya(g), g)'
    BY <1>1, <1>3, <1>6, <2>5, <2>6 DEF Suya, Bueno, Tipos
  <2>8. EnCurso(g)'
    BY <1>1, <1>4, <1>5, <1>6, <2>1, <2>2, <2>3, <2>4, <2>7 DEF EnCurso, Comandos
  <2>9. \A m \in Nombre : arch'[m] # Nada => arch'[m].entero
    <3>1. CASE Rutina(g) = "map"
      BY <1>3, <2>6, <3>1 DEF Escribiendo
    <3>2. CASE Rutina(g) # "map"
      BY <1>3, <2>5, <2>6, <3>2 DEF Tipos
    <3>. QED
      BY <3>1, <3>2
  <2>. QED
    BY <1>8, <2>8, <2>9
<1>. QED
  BY <1>9, <1>10

(* Any step.                                                               *)
LEMMA EnterosStep ==
  IInv /\ IInv' /\ Tipos /\ TurnosInv /\ TurnosInv' /\ EnterosInv /\ [Next]_vars => EnterosInv'
<1>. SUFFICES ASSUME IInv, IInv', Tipos, TurnosInv, TurnosInv', EnterosInv, [Next]_vars,
                     Totales' = {}
              PROVE  Enteros'
  BY DEF EnterosInv, Totales
<1>1. ASSUME NEW g \in Hilo, Atiende(g) \/ Pide(g)
      PROVE  Enteros'
  <2>1. Camina(g)
    BY <1>1, AtiendeCamina
  <2>2. Enteros
    BY <2>1, TotalesCrece DEF EnterosInv, Totales
  <2>3. CASE Ocupa(g)
    <3>1. ~Pide(g)
      BY <2>3 DEF Pide, Paso, Listo, Ocupa
    <3>. QED
      BY <1>1, <2>2, <2>3, <3>1, EnterosOcupa
  <2>4. CASE ~Ocupa(g)
    BY <1>1, <2>2, <2>4, EnterosOtro
  <2>. QED
    BY <2>3, <2>4
<1>2. ASSUME UNCHANGED <<pedido, pc>>
      PROVE  Enteros
  <2>1. Totales' = Totales
    BY <1>2 DEF Totales, Pedidos, Hacen, Rutina
  <2>. QED
    BY <2>1 DEF EnterosInv, Totales
<1>3. ASSUME NEW c \in hijos, TerminaComando(c) \/ TerminaGuion(c)
      PROVE  Enteros'
  <2>1. UNCHANGED <<pedido, pc>>
    BY <1>3 DEF TerminaComando, TerminaGuion
  <2>. QED
    BY <1>2, <1>3, <2>1, EnterosTermina
<1>4. ASSUME UNCHANGED <<pedido, pc, lanzado, archivos, proceso, leido, salio>>
      PROVE  Enteros'
  BY <1>2, <1>4, EnterosQuieto DEF archivos, proceso
<1>5. CASE FsCabecera \/ FsCuerpo \/ FsGuarda
  BY <1>4, <1>5 DEF FsCabecera, FsCuerpo, FsGuarda
<1>6. CASE UNCHANGED vars
  BY <1>4, <1>6 DEF vars, archivos, proceso
<1>. QED
  BY <1>1, <1>3, <1>5, <1>6 DEF Next, Avanza

LEMMA EnterosInit == Init => EnterosInv
BY DEF Init, EnterosInv, Enteros, Ocupa, Respondio, Hacen

(* While no total reduce was asked for, semaforoMapper leaves one thread   *)
(* with children, so that its wait takes its own script's and the answer   *)
(* 31 is given for a whole file of its own Job.                            *)
THEOREM EnteroSiempreSinTotales == Spec => []EnteroSinTotales
<1>1. EnterosInv => EnteroSinTotales
  BY DEF EnterosInv, Enteros, EnteroSinTotales, Bueno
<1>. QED
  BY <1>1, IInit, IStep, TiposInit, TiposStep, TurnosInit, TurnosStep, EnterosInit, EnterosStep,
     PTL DEF Spec
-----------------------------------------------------------------------------
(* What a thread comes after was answered.                                 *)
Antecedentes == \A h \in Hilo : pc[h] # "pide" => \A g \in pedido[h].antes : pc[g] = "fin"

(* With names and an order: what is whole is made of what its request read,*)
(* which is settled once it waits for its script.                          *)
Tras == {"espera", "suelta", "sort", "rmTmp", "rmGuion", "rmEntrada", "responde",
         "sube", "cuerpo", "ok", "fin"}
Leyo == Tras \cup {"script", "tubo", "fork", "escribe"}
ConGuion == {"chmod", "script", "lee", "tubo", "fork"}
Hecho(x, h) ==
  pc[h] \in Tras /\ x.por = pedido[h].job /\ x.de = leido[h].de /\ leido[h].entero
EsDe(x, n) ==
  x # Nada /\ x.entero => \E g \in DeResultado : pedido[g].salida = n /\ Hecho(x, g)
Suyo(h) == guion[GuionDe(h)] \in {Nada, pedido[h].job}
DePartes(h) == leido[h].de = UNION {leido[g].de : g \in Productores(h)}
ArchivosPropios == \A n \in Nombre : EsDe(arch[n], n) /\ EsDe(tmp[n], n)
HijosPropios ==
  \A c \in hijos : c.que = "guion" =>
    /\ c.padre \in DeResultado /\ pc[c.padre] \in Tras \cup {"escribe"}
    /\ c.por \in {Nada, pedido[c.padre].job}
GuionesPropios ==
  \A h \in DeResultado : Rutina(h) = "total" \/ pc[h] \in ConGuion => Suyo(h)
LeidosPropios ==
  \A h \in DeResultado : Rutina(h) # "map" /\ pc[h] \in Leyo /\ leido[h].entero => DePartes(h)
SaliosPropios ==
  \A h \in DeResultado : salio[h] # Nada /\ salio[h].entero => Hecho(salio[h], h)
Propios ==
  ArchivosPropios /\ HijosPropios /\ GuionesPropios /\ LeidosPropios /\ SaliosPropios
PropiosInv == SinTocayos /\ TrasSusPartes => Propios

(* A request that was answered stays so, and one asks only then.           *)
LEMMA AntecedentesStep ==
  IInv /\ Tipos /\ Antecedentes /\ [Next]_vars => Antecedentes'
<1>. SUFFICES ASSUME IInv, Tipos, Antecedentes, [Next]_vars
              PROVE  Antecedentes'
  OBVIOUS
<1>1. pc \in [Hilo -> Pasos] /\ \A h \in Hilo : pedido[h].antes \subseteq Hilo
  BY PedidoBien DEF IInv, PasosInv, Tipos, Pedido
<1>2. ASSUME NEW g \in Hilo, Atiende(g) \/ Pide(g)
      PROVE  Antecedentes'
  <2>1. Camina(g) /\ pedido' = pedido /\ pc[g] # "fin" /\ \A h \in Hilo \ {g} : pc'[h] = pc[h]
    BY <1>1, <1>2, AtiendeCamina DEF Camina
  <2>2. pc[g] # "pide" \/ \A h \in pedido[g].antes : pc[h] = "fin"
    BY <1>2, SinPedir DEF Pide
  <2>. QED
    BY <1>1, <2>1, <2>2 DEF Antecedentes
<1>3. ASSUME UNCHANGED <<pedido, pc>>
      PROVE  Antecedentes'
  BY <1>3 DEF Antecedentes
<1>4. CASE \E c \in hijos : TerminaComando(c) \/ TerminaGuion(c)
  BY <1>3, <1>4 DEF TerminaComando, TerminaGuion
<1>5. CASE FsCabecera \/ FsCuerpo \/ FsGuarda
  BY <1>3, <1>5 DEF FsCabecera, FsCuerpo, FsGuarda
<1>6. CASE UNCHANGED vars
  BY <1>3, <1>6 DEF vars
<1>. QED
  BY <1>2, <1>4, <1>5, <1>6 DEF Next, Avanza

LEMMA AntecedentesInit == Init => Antecedentes
BY DEF Init, Antecedentes

(* Where a result comes from and goes to.                                  *)
LEMMA SigueResultado ==
  ASSUME PasosInv, NEW h \in Hilo, pc[h] \notin {"fin", "cuelga"},
         Rutina(h) \in {"map", "reduce", "total"}
  PROVE  /\ pc[h] \in Tras => Sigue(h) \in Tras
         /\ pc[h] = "escribe" => Sigue(h) = "espera"
         /\ pc[h] = "fork" => Sigue(h) = "escribe"
         /\ Rutina(h) # "map" /\ pc[h] \in Leyo => Sigue(h) \in Leyo
         /\ Rutina(h) # "map" /\ Sigue(h) \in Leyo => pc[h] \in Leyo \cup {"lee", "junta"}
         /\ Rutina(h) # "total" /\ Sigue(h) \in ConGuion => pc[h] \in ConGuion \cup {"graba"}
<1>1. pc[h] \in ToSet(Camino(Rutina(h)))
  BY DEF PasosInv
<1>2. CASE Rutina(h) = "map"
  BY <1>1, <1>2, SigueMap, PasosDeCadaRutina DEF Tras, Leyo, ConGuion
<1>3. CASE Rutina(h) = "reduce"
  BY <1>1, <1>3, SigueReduce, PasosDeCadaRutina DEF Tras, Leyo, ConGuion
<1>4. CASE Rutina(h) = "total"
  BY <1>1, <1>4, SigueTotal, PasosDeCadaRutina DEF Tras, Leyo, ConGuion
<1>. QED
  BY <1>2, <1>3, <1>4

(* Which steps of a thread change what.                                    *)
LEMMA QueCambia ==
  ASSUME NEW g \in Hilo, Atiende(g) \/ Pide(g)
  PROVE  /\ UNCHANGED <<arch, tmp>> \/ Bifurca(g)
         /\ UNCHANGED guion \/ AbreGuion(g) \/ GrabaGuion(g)
         /\ hijos' \subseteq hijos \/ Bifurca(g) \/ LanzaComando(g)
         /\ UNCHANGED leido \/ LeeEntrada(g) \/ Junta(g) \/ Escribe(g) \/ AnunciaBloque(g)
         /\ UNCHANGED salio \/ Responde(g) \/ Sube(g) \/ MandaBloque(g)
<1>. USE DEF archivos, proceso
<1>1. CASE Pide(g) \/ TomaMapper(g) \/ TomaScript(g) \/ SueltaScript(g)
  BY <1>1 DEF Pide, TomaMapper, TomaScript, SueltaScript
<1>2. CASE AbreGuion(g) \/ GrabaGuion(g)
  BY <1>2 DEF AbreGuion, GrabaGuion
<1>3. CASE LanzaComando(g)
  BY <1>3 DEF LanzaComando
<1>4. CASE EsperaComando(g)
  <2>1. /\ UNCHANGED <<arch, tmp, guion, leido, salio>>
        /\ hijos' = hijos \ {c \in hijos : c.padre = g /\ c.que = pc[g]}
    BY <1>4 DEF EsperaComando
  <2>. QED
    BY <2>1
<1>5. CASE LeeEntrada(g) \/ Junta(g)
  BY <1>5 DEF LeeEntrada, Junta
<1>6. CASE Entuba(g) \/ Escribe(g)
  BY <1>6 DEF Entuba, Escribe
<1>7. CASE Bifurca(g)
  BY <1>7 DEF Bifurca
<1>8. CASE Espera(g)
  BY <1>8 DEF Espera
<1>9. CASE Responde(g) \/ MandaBloque(g) \/ AnunciaBloque(g)
  BY <1>9 DEF Responde, MandaBloque, AnunciaBloque
<1>10. CASE Sube(g) \/ MandaCuerpo(g) \/ LeeOk(g)
  BY <1>10 DEF Sube, MandaCuerpo, LeeOk
<1>11. CASE TomaSetBloque(g) \/ Posiciona(g) \/ EscribeCeros(g) \/ EscribeDatos(g)
  BY <1>11 DEF TomaSetBloque, Posiciona, EscribeCeros, EscribeDatos
<1>. QED
  BY <1>1, <1>2, <1>3, <1>4, <1>5, <1>6, <1>7, <1>8, <1>9, <1>10, <1>11 DEF Atiende

(* What a request read does not change once it waits for its script; the   *)
(* reduces read only once.                                                 *)
Firme ==
  /\ pedido' = pedido
  /\ \A h \in DeResultado :
       /\ pc[h] \in Tras => pc'[h] \in Tras /\ leido'[h] = leido[h]
       /\ Rutina(h) # "map" /\ pc[h] \in Leyo => pc'[h] \in Leyo /\ leido'[h] = leido[h]

LEMMA FirmeAtiende ==
  ASSUME IInv, Tipos, NEW g \in Hilo, Atiende(g) \/ Pide(g)
  PROVE  Firme
<1>. USE DEF Paso, Listo
<1>1. /\ PasosInv /\ pc \in [Hilo -> Pasos] /\ leido \in [Hilo -> Contenido] /\ Camina(g)
      /\ pedido' = pedido /\ \A h \in Hilo \ {g} : pc'[h] = pc[h]
  BY AtiendeCamina DEF IInv, PasosInv, Tipos, Camina
<1>2. \A h \in Hilo \ {g} : leido'[h] = leido[h]
  BY <1>1, QueCambia DEF LeeEntrada, Junta, Escribe, AnunciaBloque
<1>3. leido'[g] # leido[g] => pc[g] \in {"lee", "junta", "escribe", "anuncia"}
  BY <1>1, QueCambia DEF LeeEntrada, Junta, Escribe, AnunciaBloque
<1>4. leido'[g] # leido[g] /\ Rutina(g) # "map" => pc[g] \in {"lee", "junta", "anuncia"}
  <2>1. ASSUME Escribe(g), Rutina(g) # "map"
        PROVE  leido'[g] = leido[g]
    BY <1>1, <2>1 DEF Escribe
  <2>. QED
    BY <1>1, <2>1, QueCambia DEF LeeEntrada, Junta, AnunciaBloque
<1>5. ASSUME g \in DeResultado
      PROVE  /\ pc[g] \in Tras => pc'[g] \in Tras
             /\ Rutina(g) # "map" /\ pc[g] \in Leyo => pc'[g] \in Leyo
  <2>1. Rutina(g) \in {"map", "reduce", "total"} /\ pc[g] \notin {"fin", "cuelga"}
    BY <1>1, <1>5 DEF DeResultado, Hacen, Camina
  <2>2. pc[g] \in Leyo => pc[g] # "junta"
    BY DEF Leyo, Tras
  <2>3. Tras \subseteq Leyo
    BY DEF Leyo
  <2>. QED
    BY <1>1, <2>1, <2>2, <2>3, SigueResultado DEF Camina
<1>6. DeResultado \subseteq Hilo
  BY DEF DeResultado, Hacen
<1>7. "escribe" \notin Tras /\ \A p \in Leyo : p \notin {"lee", "junta", "anuncia"}
  BY DEF Leyo, Tras
<1>8. Tras \subseteq Leyo
  BY DEF Leyo
<1>9. ASSUME NEW h \in DeResultado
      PROVE  /\ pc[h] \in Tras => pc'[h] \in Tras /\ leido'[h] = leido[h]
             /\ Rutina(h) # "map" /\ pc[h] \in Leyo => pc'[h] \in Leyo /\ leido'[h] = leido[h]
  <2>1. CASE h # g
    BY <1>1, <1>2, <1>6, <2>1
  <2>2. CASE h = g
    BY <1>3, <1>4, <1>5, <1>7, <1>8, <2>2
  <2>. QED
    BY <2>1, <2>2
<1>. QED
  BY <1>1, <1>9 DEF Firme

(* So what is made of it goes on being so.                                 *)
LEMMA HechoFirme ==
  ASSUME Firme
  PROVE  /\ \A h : Rutina(h)' = Rutina(h) /\ GuionDe(h)' = GuionDe(h)
         /\ DeResultado' = DeResultado
         /\ \A h \in DeResultado : \A x : Hecho(x, h) => Hecho(x, h)'
         /\ \A n \in Nombre : \A x : EsDe(x, n) => EsDe(x, n)'
         /\ (SinTocayos' <=> SinTocayos) /\ (TrasSusPartes' <=> TrasSusPartes)
         /\ \A h : Productores(h)' = Productores(h)
<1>1. /\ \A h : Rutina(h)' = Rutina(h) /\ GuionDe(h)' = GuionDe(h)
      /\ pedido' = pedido
  BY DEF Firme, Rutina, GuionDe, LaEntrada
<1>2. DeResultado' = DeResultado
  BY <1>1 DEF DeResultado, Hacen
<1>3. \A h \in DeResultado : \A x : Hecho(x, h) => Hecho(x, h)'
  BY DEF Firme, Hecho
<1>4. \A n \in Nombre : \A x : EsDe(x, n) => EsDe(x, n)'
  BY <1>1, <1>2, <1>3 DEF EsDe
<1>5. (SinTocayos' <=> SinTocayos) /\ (TrasSusPartes' <=> TrasSusPartes)
  BY <1>1, <1>2 DEF SinTocayos, TrasSusPartes
<1>6. \A h : Productores(h)' = Productores(h)
  BY <1>1, <1>2 DEF Productores
<1>. QED
  BY <1>1, <1>2, <1>3, <1>4, <1>5, <1>6

(* The only step that goes on from "graba" writes the script; from "lee"   *)
(* and from "junta", the one that reads.                                   *)
LEMMA SoloGraba ==
  ASSUME IInv, NEW g \in Hilo, Atiende(g) \/ Pide(g), pc[g] = "graba"
  PROVE  GrabaGuion(g)
<1>. USE DEF Paso, Listo
<1>1. ~LanzaComando(g) /\ ~EsperaComando(g) /\ ~Pide(g)
  BY SinLanzar DEF LanzaComando, EsperaComando, Comandos, Pide
<1>2. ~(TomaMapper(g) \/ TomaScript(g) \/ SueltaScript(g) \/ AbreGuion(g))
  BY DEF TomaMapper, TomaScript, SueltaScript, AbreGuion
<1>3. ~(LeeEntrada(g) \/ Junta(g) \/ Entuba(g) \/ Bifurca(g) \/ Escribe(g) \/ Espera(g))
  BY DEF LeeEntrada, Junta, Entuba, Bifurca, Escribe, Espera
<1>4. ~(Responde(g) \/ Sube(g) \/ MandaCuerpo(g) \/ LeeOk(g))
  BY DEF Responde, Sube, MandaCuerpo, LeeOk
<1>5. ~(\/ TomaSetBloque(g) \/ Posiciona(g) \/ EscribeCeros(g) \/ EscribeDatos(g)
        \/ AnunciaBloque(g) \/ MandaBloque(g))
  BY DEF TomaSetBloque, Posiciona, EscribeCeros, EscribeDatos, AnunciaBloque, MandaBloque
<1>. QED
  BY <1>1, <1>2, <1>3, <1>4, <1>5 DEF Atiende

LEMMA SoloLee ==
  ASSUME IInv, NEW g \in Hilo, Atiende(g) \/ Pide(g), pc[g] \in {"lee", "junta"}
  PROVE  LeeEntrada(g) \/ Junta(g)
<1>. USE DEF Paso, Listo
<1>1. ~LanzaComando(g) /\ ~EsperaComando(g) /\ ~Pide(g)
  BY SinLanzar DEF LanzaComando, EsperaComando, Comandos, Pide
<1>2. ~(\/ TomaMapper(g) \/ TomaScript(g) \/ SueltaScript(g) \/ AbreGuion(g)
        \/ GrabaGuion(g))
  BY DEF TomaMapper, TomaScript, SueltaScript, AbreGuion, GrabaGuion
<1>3. ~(Entuba(g) \/ Bifurca(g) \/ Escribe(g) \/ Espera(g))
  BY DEF Entuba, Bifurca, Escribe, Espera
<1>4. ~(Responde(g) \/ Sube(g) \/ MandaCuerpo(g) \/ LeeOk(g))
  BY DEF Responde, Sube, MandaCuerpo, LeeOk
<1>5. ~(\/ TomaSetBloque(g) \/ Posiciona(g) \/ EscribeCeros(g) \/ EscribeDatos(g)
        \/ AnunciaBloque(g) \/ MandaBloque(g))
  BY DEF TomaSetBloque, Posiciona, EscribeCeros, EscribeDatos, AnunciaBloque, MandaBloque
<1>. QED
  BY <1>1, <1>2, <1>3, <1>4, <1>5 DEF Atiende

(* A step of a thread.                                                     *)
LEMMA PropiosAtiende ==
  ASSUME IInv, IInv', Tipos, TurnosInv, Antecedentes, SinTocayos, TrasSusPartes, Propios,
         NEW g \in Hilo, Atiende(g) \/ Pide(g)
  PROVE  Propios'
<1>. USE DEF Paso, Listo
<1>1. /\ PasosInv /\ PasosInv' /\ pc \in [Hilo -> Pasos] /\ pc[g] \notin {"fin", "cuelga"}
      /\ Camina(g) /\ pedido' = pedido /\ \A h \in Hilo \ {g} : pc'[h] = pc[h]
      /\ DeResultado \subseteq Hilo /\ Nada \notin Contenido
      /\ \A h \in DeResultado : Rutina(h) \in {"map", "reduce", "total"}
  BY AtiendeCamina, NodoAssumption DEF IInv, PasosInv, Camina, DeResultado, Hacen
<1>2. Firme
  BY FirmeAtiende
<1>3. /\ \A h : Rutina(h)' = Rutina(h) /\ GuionDe(h)' = GuionDe(h)
      /\ DeResultado' = DeResultado
      /\ \A h \in DeResultado : \A x : Hecho(x, h) => Hecho(x, h)'
      /\ \A n \in Nombre : \A x : EsDe(x, n) => EsDe(x, n)'
      /\ \A h : Productores(h)' = Productores(h)
  BY <1>2, HechoFirme
<1>4. ArchivosPropios'
  <2>1. ASSUME NEW x \in {arch, tmp}, NEW x1 \in {arch', tmp'}, NEW n \in Nombre, x1[n] = x[n]
        PROVE  EsDe(x1[n], n)'
    BY <1>3, <2>1 DEF Propios, ArchivosPropios
  <2>2. CASE UNCHANGED <<arch, tmp>>
    BY <1>3, <2>2 DEF Propios, ArchivosPropios
  <2>3. CASE Bifurca(g)
    <3>1. \A n \in Nombre : arch'[n] \in {arch[n], AMedias(g)} /\ tmp'[n] \in {tmp[n], AMedias(g)}
      BY <2>3 DEF Bifurca, Tipos
    <3>2. \A n \in Nombre : EsDe(AMedias(g), n)'
      BY DEF EsDe, AMedias
    <3>. QED
      BY <1>3, <3>1, <3>2 DEF Propios, ArchivosPropios
  <2>. QED
    BY <2>2, <2>3, QueCambia
<1>5. HijosPropios'
  <2>1. ASSUME NEW c \in hijos, c.que = "guion"
        PROVE  /\ c.padre \in DeResultado' /\ pc'[c.padre] \in Tras \cup {"escribe"}
               /\ c.por \in {Nada, pedido'[c.padre].job}
    <3>1. /\ c.padre \in DeResultado /\ pc[c.padre] \in Tras \cup {"escribe"}
          /\ c.por \in {Nada, pedido[c.padre].job}
      BY <2>1 DEF Propios, HijosPropios
    <3>2. pc'[c.padre] \in Tras \cup {"escribe"}
      <4>1. CASE pc[c.padre] \in Tras
        BY <1>2, <3>1, <4>1 DEF Firme
      <4>2. CASE pc[c.padre] = "escribe"
        BY <1>1, <3>1, <4>2, SigueResultado DEF Camina, Tras
      <4>. QED
        BY <3>1, <4>1, <4>2
    <3>. QED
      BY <1>1, <1>3, <3>1, <3>2
  <2>2. CASE hijos' \subseteq hijos
    BY <2>1, <2>2 DEF HijosPropios
  <2>3. CASE LanzaComando(g)
    <3>1. hijos' = hijos \cup {Hijo(g, pc[g], Nada)} /\ pc[g] \in Comandos
      BY <2>3 DEF LanzaComando
    <3>2. Hijo(g, pc[g], Nada).que # "guion"
      BY <3>1 DEF Hijo, Comandos
    <3>. QED
      BY <2>1, <3>1, <3>2 DEF HijosPropios
  <2>4. CASE Bifurca(g)
    <3>1. /\ hijos' = hijos \cup {Hijo(g, "guion", Ejecutable(g))} /\ pc[g] = "fork"
          /\ pc' = [pc EXCEPT ![g] = Sigue(g)]
      BY <2>4 DEF Bifurca
    <3>2. g \in DeResultado
      BY <1>1, <3>1, RutinaDelPaso DEF DeResultado, Hacen
    <3>3. pc'[g] = "escribe"
      BY <1>1, <3>1, <3>2, SigueResultado
    <3>4. Ejecutable(g) \in {Nada, pedido[g].job}
      BY <3>1, <3>2 DEF Ejecutable, Propios, GuionesPropios, ConGuion, Suyo
    <3>5. /\ Hijo(g, "guion", Ejecutable(g)).padre = g
          /\ Hijo(g, "guion", Ejecutable(g)).por = Ejecutable(g)
      BY DEF Hijo
    <3>. QED
      BY <1>1, <1>3, <2>1, <3>1, <3>2, <3>3, <3>4, <3>5 DEF HijosPropios
  <2>. QED
    BY <2>2, <2>3, <2>4, QueCambia
<1>6. GuionesPropios'
  <2>. SUFFICES ASSUME NEW h \in DeResultado, Rutina(h) = "total" \/ pc'[h] \in ConGuion
                PROVE  guion'[GuionDe(h)] \in {Nada, pedido[h].job}
    BY <1>1, <1>3 DEF GuionesPropios, Suyo
  <2>1. \/ Suyo(h)
        \/ h = g /\ pc[g] = "graba" /\ pc' # pc /\ Rutina(g) # "total"
    <3>1. CASE Rutina(h) = "total" \/ pc[h] \in ConGuion
      BY <3>1 DEF Propios, GuionesPropios
    <3>2. CASE Rutina(h) # "total" /\ pc[h] \notin ConGuion
      <4>1. h = g /\ pc' # pc
        BY <1>1, <3>2
      <4>2. pc'[g] = Sigue(g)
        BY <1>1, <3>2, <4>1 DEF Camina, ConGuion
      <4>. QED
        BY <1>1, <3>2, <4>1, <4>2, SigueResultado
    <3>. QED
      BY <3>1, <3>2
  <2>2. GuionDe(h) \in Guion \cup Nombre /\ guion \in [Guion \cup Nombre -> Job \cup {Nada}]
    BY <1>1, PedidoBien DEF Tipos
  <2>3. CASE GrabaGuion(g)
    <3>1. /\ guion' = [guion EXCEPT ![GuionDe(g)] = pedido[g].job] /\ pc[g] = "graba"
          /\ pc' = [pc EXCEPT ![g] = Sigue(g)]
      BY <2>3 DEF GrabaGuion
    <3>2. CASE GuionDe(h) # GuionDe(g)
      BY <2>1, <2>2, <3>1, <3>2 DEF Suyo
    <3>3. CASE GuionDe(h) = GuionDe(g)
      <4>1. g \in DeResultado
        BY <1>1, <3>1, RutinaDelPaso DEF DeResultado, Hacen
      <4>2. pedido[h].job = pedido[g].job
        <5>1. CASE Rutina(h) = "total" \/ Rutina(g) = "total"
          BY <3>3, <4>1, <5>1 DEF SinTocayos
        <5>2. CASE Rutina(h) # "total" /\ Rutina(g) # "total"
          <6>1. Ocupa(g)
            BY <1>1, <3>1, <4>1, <5>2 DEF Ocupa
          <6>2. h = g \/ Ocupa(h)
            BY <1>1, <5>2 DEF Ocupa, ConGuion
          <6>. QED
            BY <1>1, <6>1, <6>2 DEF TurnosInv, Turnos
        <5>. QED
          BY <5>1, <5>2
      <4>. QED
        BY <2>2, <3>1, <3>3, <4>2
    <3>. QED
      BY <3>2, <3>3
  <2>4. CASE AbreGuion(g)
    <3>1. guion' = [guion EXCEPT ![GuionDe(g)] = Nada] /\ pc[g] = "abre"
      BY <2>4 DEF AbreGuion
    <3>. QED
      BY <2>1, <2>2, <3>1 DEF Suyo
  <2>5. CASE UNCHANGED guion /\ ~GrabaGuion(g)
    <3>1. ~(pc[g] = "graba" /\ pc' # pc)
      BY <1>1, <2>5, SoloGraba
    <3>. QED
      BY <2>1, <2>5, <3>1 DEF Suyo
  <2>. QED
    BY <2>3, <2>4, <2>5, QueCambia
<1>7. LeidosPropios'
  <2>. SUFFICES ASSUME NEW h \in DeResultado, Rutina(h) # "map", pc'[h] \in Leyo, leido'[h].entero
                PROVE  leido'[h].de = UNION {leido'[p].de : p \in Productores(h)}
    BY <1>3 DEF LeidosPropios, DePartes
  <2>1. pc[h] # "pide"
    <3>1. ASSUME pc[h] = "pide"
          PROVE  FALSE
      <4>1. h = g /\ pc'[g] = Sigue(g)
        BY <1>1, <3>1 DEF Camina, Leyo, Tras
      <4>. QED
        BY <1>1, <3>1, <4>1, SigueResultado DEF Leyo, Tras
    <3>. QED
      BY <3>1
  <2>2. \A p \in Productores(h) : pc[p] = "fin" /\ leido'[p] = leido[p] /\ p \in DeResultado
    <3>1. \A p \in Productores(h) : p \in DeResultado /\ pc[p] = "fin"
      BY <1>1, <2>1 DEF Productores, TrasSusPartes, Antecedentes
    <3>. QED
      BY <1>2, <3>1 DEF Firme, Tras
  <2>3. CASE pc[h] \in Leyo
    <3>1. leido'[h] = leido[h]
      BY <1>2, <2>3 DEF Firme
    <3>2. DePartes(h)
      BY <2>3, <3>1 DEF Propios, LeidosPropios
    <3>. QED
      BY <2>2, <3>1, <3>2 DEF DePartes
  <2>4. CASE pc[h] \notin Leyo
    <3>1. h = g /\ pc'[g] = Sigue(g) /\ pc[g] \in {"lee", "junta"} /\ pc' # pc /\ pc'[g] # "cuelga"
      <4>1. h = g /\ pc' # pc /\ pc'[g] # "cuelga"
        BY <1>1, <2>4 DEF Leyo, Tras
      <4>2. pc'[g] = Sigue(g)
        BY <1>1, <4>1 DEF Camina
      <4>. QED
        BY <1>1, <2>4, <4>1, <4>2, SigueResultado
    <3>2. ASSUME NEW n \in pedido[h].entradas, arch[n] # Nada, arch[n].entero
          PROVE  \E p \in Productores(h) :
                   pedido[p].salida = n /\ arch[n].de = leido[p].de
      <4>1. n \in Nombre
        BY PedidoBien, <1>1 DEF Tipos
      <4>2. PICK p \in DeResultado : pedido[p].salida = n /\ Hecho(arch[n], p)
        BY <3>2, <4>1 DEF Propios, ArchivosPropios, EsDe
      <4>. QED
        BY <3>2, <4>2 DEF Productores, Hecho
    <3>3. \A p, q \in Productores(h) : pedido[p].salida = pedido[q].salida => p = q
      BY DEF Productores, SinTocayos
    <3>4. CASE LeeEntrada(g)
      <4>1. /\ pc[g] = "lee" /\ arch[LaEntrada(g)] # Nada
            /\ leido' = [leido EXCEPT ![g] = arch[LaEntrada(g)]]
        BY <3>1, <3>4 DEF LeeEntrada
      <4>2. leido'[g] = arch[LaEntrada(g)]
        BY <4>1 DEF Tipos
      <4>3. pedido[g].entradas = {LaEntrada(g)}
        BY <1>1, <4>1, RutinaDelPaso, PedidoBien DEF Tipos
      <4>4. PICK p \in Productores(g) :
              pedido[p].salida = LaEntrada(g) /\ arch[LaEntrada(g)].de = leido[p].de
        BY <3>1, <3>2, <4>1, <4>2, <4>3
      <4>5. Productores(g) = {p}
        BY <3>1, <3>3, <4>3, <4>4 DEF Productores
      <4>6. leido'[p] = leido[p]
        BY <2>2, <3>1, <4>4
      <4>7. UNION {leido'[q].de : q \in Productores(g)} = leido'[p].de
        BY <4>5
      <4>. QED
        BY <3>1, <4>2, <4>4, <4>6, <4>7
    <3>5. CASE Junta(g)
      <4>. DEFINE hay == Partes(g) \ {Nada}
      <4>1. leido' = [leido EXCEPT ![g] =
                          [de |-> UNION {p.de : p \in hay}, por |-> Nada, hilo |-> Nada,
                           entero |-> Nada \notin Partes(g) /\ \A p \in hay : p.entero]]
        BY <1>1, <3>1, <3>5 DEF Junta
      <4>2. /\ leido'[g].de = UNION {p.de : p \in hay}
            /\ leido'[g].entero <=> (Nada \notin Partes(g) /\ \A p \in hay : p.entero)
        BY <4>1 DEF Tipos
      <4>3. \A n \in pedido[g].entradas : arch[n] # Nada /\ arch[n].entero /\ arch[n] \in hay
        BY <3>1, <4>2 DEF Partes
      <4>4. \A p \in Productores(g) : leido[p].de = arch[pedido[p].salida].de
                                      /\ pedido[p].salida \in pedido[g].entradas
        <5>. TAKE p \in Productores(g)
        <5>1. pedido[p].salida \in pedido[g].entradas
          BY DEF Productores
        <5>2. PICK q \in Productores(g) :
                pedido[q].salida = pedido[p].salida /\ arch[pedido[p].salida].de = leido[q].de
          BY <3>1, <3>2, <4>3, <5>1
        <5>. QED
          BY <3>1, <3>3, <5>1, <5>2
      <4>5. UNION {p.de : p \in hay} \subseteq UNION {leido'[p].de : p \in Productores(g)}
        <5>. SUFFICES ASSUME NEW x \in hay, NEW d \in x.de
                      PROVE  \E p \in Productores(g) : d \in leido'[p].de
          OBVIOUS
        <5>1. PICK n \in pedido[g].entradas : x = arch[n]
          BY DEF Partes
        <5>2. PICK p \in Productores(g) : arch[n].de = leido[p].de
          BY <3>1, <3>2, <4>3
        <5>. QED
          BY <2>2, <3>1, <5>1, <5>2
      <4>6. UNION {leido'[p].de : p \in Productores(g)} \subseteq UNION {p.de : p \in hay}
        <5>. SUFFICES ASSUME NEW p \in Productores(g), NEW d \in leido'[p].de
                      PROVE  \E x \in hay : d \in x.de
          OBVIOUS
        <5>. QED
          BY <2>2, <3>1, <4>3, <4>4
      <4>. QED
        BY <3>1, <4>2, <4>5, <4>6
    <3>. QED
      BY <1>1, <3>1, <3>4, <3>5, SoloLee
  <2>. QED
    BY <2>3, <2>4
<1>8. SaliosPropios'
  <2>. SUFFICES ASSUME NEW h \in DeResultado, salio'[h] # Nada, salio'[h].entero
                PROVE  Hecho(salio[h], h)'
    BY <1>3 DEF SaliosPropios
  <2>1. CASE salio'[h] = salio[h]
    BY <1>2, <2>1 DEF Propios, SaliosPropios, Hecho, Firme
  <2>2. CASE salio'[h] = arch[pedido[h].salida]
    <3>1. pedido[h].salida \in Nombre
      BY <1>1, PedidoBien DEF Tipos
    <3>2. PICK p \in DeResultado : pedido[p].salida = pedido[h].salida /\ Hecho(arch[pedido[h].salida], p)
      BY <2>2, <3>1 DEF Propios, ArchivosPropios, EsDe
    <3>3. p = h
      BY <3>2 DEF SinTocayos
    <3>. QED
      BY <1>2, <2>2, <3>2, <3>3 DEF Hecho, Firme
  <2>3. CASE MandaBloque(g)
    <3>1. Rutina(g) = "get" /\ salio' = [salio EXCEPT ![g] = EnBloque(pedido[g].bloque)]
      BY <1>1, <2>3, RutinaDelPaso DEF MandaBloque
    <3>. QED
      BY <1>1, <2>1, <3>1
  <2>4. CASE Responde(g) \/ Sube(g)
    <3>1. salio' = [salio EXCEPT ![g] = arch[pedido[g].salida]]
      BY <2>4 DEF Responde, Sube
    <3>. QED
      BY <1>1, <2>1, <2>2, <3>1 DEF Tipos
  <2>. QED
    BY <2>1, <2>3, <2>4, QueCambia
<1>. QED
  BY <1>4, <1>5, <1>6, <1>7, <1>8 DEF Propios

(* A child ends.                                                           *)
LEMMA PropiosTermina ==
  ASSUME IInv, Tipos, TurnosInv, Propios, NEW c \in hijos, TerminaComando(c) \/ TerminaGuion(c)
  PROVE  Propios'
<1>. DEFINE g == c.padre
            n == pedido[g].salida
            d == [c EXCEPT !.vivo = FALSE, !.abiertos = {}]
<1>1. /\ UNCHANGED <<pedido, pc, lanzado, abiertos, leido, salio>>
      /\ hijos' = (hijos \ {c}) \cup {d}
  BY DEF TerminaComando, TerminaGuion, Termina
<1>2. g \in Hilo /\ c \in Hijos /\ d.padre = g /\ d.que = c.que /\ d.por = c.por
  BY DEF Tipos, Hijos
<1>3. Firme
  BY <1>1 DEF Firme
<1>4. /\ \A h : Rutina(h)' = Rutina(h) /\ GuionDe(h)' = GuionDe(h)
      /\ DeResultado' = DeResultado
      /\ \A h \in DeResultado : \A x : Hecho(x, h) => Hecho(x, h)'
      /\ \A m \in Nombre : \A x : EsDe(x, m) => EsDe(x, m)'
      /\ \A h : Productores(h)' = Productores(h)
  BY <1>3, HechoFirme
<1>. HIDE DEF d
<1>5. HijosPropios'
  BY <1>1, <1>2, <1>4 DEF Propios, HijosPropios
<1>6. LeidosPropios' /\ SaliosPropios'
  <2>1. LeidosPropios'
    BY <1>1, <1>4 DEF Propios, LeidosPropios, DePartes
  <2>2. SaliosPropios'
    BY <1>1, <1>4 DEF Propios, SaliosPropios, Hecho
  <2>. QED
    BY <2>1, <2>2
<1>7. GuionesPropios'
  <2>1. guion' = guion \/ guion' = [guion EXCEPT ![GuionDe(g)] = Nada]
    BY DEF TerminaComando, TerminaGuion, Ejecuta
  <2>2. \A h \in DeResultado : GuionDe(h) \in Guion \cup Nombre
    BY PedidoBien DEF Tipos, DeResultado, Hacen
  <2>3. \A h \in DeResultado : guion'[GuionDe(h)] \in {guion[GuionDe(h)], Nada}
    BY <2>1, <2>2 DEF Tipos
  <2>. QED
    BY <1>1, <1>4, <2>3 DEF Propios, GuionesPropios, Suyo
<1>8. ArchivosPropios'
  <2>1. ASSUME \A m \in Nombre : /\ EsDe(arch'[m], m)
                                 /\ EsDe(tmp'[m], m)
        PROVE  ArchivosPropios'
    BY <1>1, <1>4, <2>1 DEF ArchivosPropios, EsDe, Hecho
  <2>2. \A m \in Nombre : EsDe(Nada, m)
    BY DEF EsDe
  <2>3. CASE TerminaComando(c)
    <3>1. \A m \in Nombre : tmp'[m] \in {tmp[m], Nada}
      BY <2>3 DEF TerminaComando, Ejecuta, Tipos
    <3>2. \A m \in Nombre : arch'[m] \in {arch[m], tmp[m], Nada}
      BY <2>3 DEF TerminaComando, Ejecuta, Tipos
    <3>. QED
      BY <2>1, <2>2, <3>1, <3>2 DEF Propios, ArchivosPropios
  <2>4. CASE TerminaGuion(c)
    <3>1. \/ tmp' = Deja(tmp, c) /\ arch' = arch
          \/ arch' = Deja(arch, c) /\ tmp' = tmp
      BY <2>4 DEF TerminaGuion
    <3>2. \A m \in Nombre :
            /\ tmp'[m] = tmp[m] \/ (m = n /\ c.por # Nada /\ tmp'[m] = Escrito(c))
            /\ arch'[m] = arch[m] \/ (m = n /\ c.por # Nada /\ arch'[m] = Escrito(c))
      BY <3>1 DEF Deja, Tipos
    <3>3. c.por # Nada => EsDe(Escrito(c), n)
      <4>. SUFFICES ASSUME c.por # Nada, Escrito(c).entero
                    PROVE  g \in DeResultado /\ Hecho(Escrito(c), g)
        BY DEF EsDe
      <4>1. /\ g \in DeResultado /\ pc[g] \in Tras \cup {"escribe"} /\ c.por = pedido[g].job
        BY <2>4 DEF TerminaGuion, Propios, HijosPropios
      <4>2. pc[g] # "escribe"
        BY <1>2, <2>4 DEF TerminaGuion, Puede, TurnosInv, Tubos
      <4>. QED
        BY <4>1, <4>2 DEF Hecho, Escrito
    <3>. QED
      BY <2>1, <3>2, <3>3 DEF Propios, ArchivosPropios
  <2>. QED
    BY <2>3, <2>4
<1>. QED
  BY <1>5, <1>6, <1>7, <1>8 DEF Propios

(* Any step.                                                               *)
LEMMA PropiosStep ==
  IInv /\ IInv' /\ Tipos /\ TurnosInv /\ Antecedentes /\ PropiosInv /\ [Next]_vars => PropiosInv'
<1>. SUFFICES ASSUME IInv, IInv', Tipos, TurnosInv, Antecedentes, PropiosInv, [Next]_vars
              PROVE  PropiosInv'
  OBVIOUS
<1>1. ASSUME NEW g \in Hilo, Atiende(g) \/ Pide(g)
      PROVE  PropiosInv'
  <2>1. (SinTocayos' <=> SinTocayos) /\ (TrasSusPartes' <=> TrasSusPartes)
    BY <1>1, FirmeAtiende, HechoFirme
  <2>. QED
    BY <1>1, <2>1, PropiosAtiende DEF PropiosInv
<1>2. ASSUME UNCHANGED <<pedido, pc, leido>>
      PROVE  (SinTocayos' <=> SinTocayos) /\ (TrasSusPartes' <=> TrasSusPartes) /\ Firme
  <2>1. Firme
    BY <1>2 DEF Firme
  <2>. QED
    BY <2>1, HechoFirme
<1>3. ASSUME NEW c \in hijos, TerminaComando(c) \/ TerminaGuion(c)
      PROVE  PropiosInv'
  <2>1. UNCHANGED <<pedido, pc, leido>>
    BY <1>3 DEF TerminaComando, TerminaGuion
  <2>. QED
    BY <1>2, <1>3, <2>1, PropiosTermina DEF PropiosInv
<1>4. ASSUME UNCHANGED <<pedido, pc, archivos, proceso, leido, salio>>
      PROVE  PropiosInv'
  <2>1. /\ (SinTocayos' <=> SinTocayos) /\ (TrasSusPartes' <=> TrasSusPartes)
        /\ UNCHANGED <<pedido, pc, arch, tmp, guion, hijos, leido, salio>>
    BY <1>2, <1>4 DEF archivos, proceso
  <2>2. /\ \A h : Rutina(h)' = Rutina(h) /\ GuionDe(h)' = GuionDe(h)
        /\ DeResultado' = DeResultado
        /\ \A h : Productores(h)' = Productores(h)
    BY <1>2, <1>4, HechoFirme
  <2>3. Propios => Propios'
    <3>1. ArchivosPropios => ArchivosPropios'
      BY <2>1, <2>2 DEF ArchivosPropios, EsDe, Hecho
    <3>2. HijosPropios => HijosPropios'
      BY <2>1, <2>2 DEF HijosPropios
    <3>3. GuionesPropios => GuionesPropios'
      BY <2>1, <2>2 DEF GuionesPropios, Suyo
    <3>4. LeidosPropios => LeidosPropios'
      BY <2>1, <2>2 DEF LeidosPropios, DePartes
    <3>5. SaliosPropios => SaliosPropios'
      BY <2>1, <2>2 DEF SaliosPropios, Hecho
    <3>. QED
      BY <3>1, <3>2, <3>3, <3>4, <3>5 DEF Propios
  <2>. QED
    BY <2>1, <2>3 DEF PropiosInv
<1>5. CASE FsCabecera \/ FsCuerpo \/ FsGuarda
  BY <1>4, <1>5 DEF FsCabecera, FsCuerpo, FsGuarda
<1>6. CASE UNCHANGED vars
  BY <1>4, <1>6 DEF vars, archivos, proceso
<1>. QED
  BY <1>1, <1>3, <1>5, <1>6 DEF Next, Avanza

LEMMA PropiosInit == Init => PropiosInv
<1>. SUFFICES ASSUME Init
              PROVE  Propios
  BY DEF PropiosInv
<1>1. DeResultado \subseteq Hilo /\ \A h \in DeResultado : GuionDe(h) \in Guion \cup Nombre
  BY PedidoBien DEF Init, DeResultado, Hacen
<1>2. ArchivosPropios /\ HijosPropios /\ SaliosPropios
  BY <1>1 DEF Init, ArchivosPropios, HijosPropios, SaliosPropios, EsDe
<1>3. GuionesPropios
  BY <1>1 DEF Init, GuionesPropios, Suyo
<1>4. LeidosPropios
  BY <1>1 DEF Init, LeidosPropios, Leyo, Tras
<1>. QED
  BY <1>2, <1>3, <1>4 DEF Propios

(* The files of a node's directory are nobody's: any thread, any child and *)
(* any Job's script may write them.  Names of its own and the order in     *)
(* which the Job sends its requests are what makes every whole result that *)
(* of its Job, over what its request read, and makes a reduce read all     *)
(* that its parts had read.                                                *)
THEOREM CadenaSiemprePropia == Spec => []CadenaPropia
<1>1. PropiosInv => CadenaPropia
  <2>. SUFFICES ASSUME Propios, NEW h \in DeResultado, Respondio(h), salio[h].entero
                PROVE  /\ salio[h].por = pedido[h].job /\ salio[h].de = leido[h].de
                       /\ Rutina(h) # "map" =>
                            leido[h].de = UNION {leido[g].de : g \in Productores(h)}
    BY DEF PropiosInv, CadenaPropia
  <2>1. Hecho(salio[h], h) /\ pc[h] = "fin"
    BY DEF Propios, SaliosPropios, Respondio
  <2>. QED
    BY <2>1 DEF Hecho, Propios, LeidosPropios, DePartes, Leyo
<1>. QED
  BY <1>1, IInit, IStep, TiposInit, TiposStep, TurnosInit, TurnosStep,
     AntecedentesInit, AntecedentesStep, PropiosInit, PropiosStep, PTL DEF Spec
=============================================================================
