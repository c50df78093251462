------------------------------- MODULE Apareo -------------------------------
(***************************************************************************)
(* From the blocks of a file to the result of a Job without combiner, in   *)
(* the text the scripts see (nodo/src/nodo.c): each block is mapped and    *)
(* sorted into a partial result, and the node of the total reduce merges   *)
(* all the partial results, its own and those of other nodes, line by line *)
(* before it runs the reduce.                                              *)
(*                                                                         *)
(* Lines are repetitions of one letter, so a line is its length and strcmp *)
(* orders lengths.  The partial results end every line, as sort does, and  *)
(* no line is as long as the 200 bytes asked of another node.  Who runs what and *)
(* when is module Nodo.                                                    *)
(***************************************************************************)
EXTENDS Troceado, TLC

VARIABLES
    mapa,       \* what the map keeps of a block
    parciales,  \* the partial results, sorted
    cB,         \* how many lines the merge takes
    fsd,        \* how many lines of each have been taken
    union       \* the lines given to the reduce

apareo == <<mapa, parciales, cB, fsd, union>>
vars == <<varsTroceado, apareo>>

Init ==
    /\ InitTroceado
    /\ mapa = "todas" /\ parciales = <<>> /\ cB = 0 /\ fsd = <<>> /\ union = <<>>

-----------------------------------------------------------------------------
(* The map of each block *)

Ordenadas(lineas) == SortSeq(lineas, <)

\* The script writes every line, only the first one, or nothing.
Mapeado(m, bloque) ==
    CASE m = "todas" -> Lineas(bloque)
      [] m = "una" -> SubSeq(Lineas(bloque), 1, 1)
      [] OTHER -> <<>>

Mapea ==
    /\ estado = "sube" /\ feof
    /\ bloques # <<>>
    /\ estado' = "cuenta"
    /\ mapa' \in {"todas", "una", "ninguna"}
    /\ parciales' = [i \in DOMAIN bloques |-> Ordenadas(Mapeado(mapa', bloques[i]))]
    /\ fsd' = [i \in DOMAIN bloques |-> 0]
    /\ UNCHANGED <<trozo, vuelta, cB, union>>

-----------------------------------------------------------------------------
(* The merge: script_Reduce_Sin_Combiner *)

Suma(s) == FoldLeft(+, 0, s)
Bytes(parcial) == Suma(parcial) + Len(parcial)

\* Mistake: the read that finds the end is counted.
LeeHastaElFin(parcial) == Len(parcial) + 1
\* cantidadLineasArchivo reads with a buffer of the size of the file: a single
\* line does not fit in it and counts for two.
CantidadLineas(parcial) == IF Len(parcial) = 1 THEN 2 ELSE Len(parcial)

\* With room for one byte or none fgets reads nothing and never reaches the end.
SinFin(parcial) == Bytes(parcial) <= 1

Cuenta ==
    /\ estado = "cuenta"
    /\ \/ /\ \E i \in DOMAIN parciales : SinFin(parciales[i])
          /\ estado' = "cuelga"
          /\ UNCHANGED cB
       \/ /\ \A i \in DOMAIN parciales : ~SinFin(parciales[i])
          /\ estado' = "aparea"
          /\ cB' = Suma([i \in DOMAIN parciales |-> CantidadLineas(parciales[i])])
    /\ UNCHANGED <<trozo, vuelta, mapa, parciales, fsd, union>>

\* The partial results that have lines left, and the next line of each.
Quedan == {i \in DOMAIN parciales : fsd[i] < Len(parciales[i])}
Linea(i) == parciales[i][fsd[i] + 1]

\* burbujeo: the least line is the next one.
EsMenor(i) == \A k \in Quedan : Linea(i) <= Linea(k)

\* elMaravilloso
Toma ==
    /\ estado = "aparea" /\ Len(union) < cB
    /\ \E i \in Quedan :
          /\ EsMenor(i)
          /\ union' = Append(union, Linea(i))
          /\ fsd' = [fsd EXCEPT ![i] = @ + 1]
    /\ UNCHANGED <<trozo, vuelta, estado, mapa, parciales, cB>>

\* "ABORTO ASQUEROSAMENTE PORQUE NO HAY MAS BLOQUES": the node ends.
Aborta ==
    /\ estado = "aparea" /\ Len(union) < cB
    /\ Quedan = {}
    /\ estado' = "aborta"
    /\ UNCHANGED <<trozo, vuelta, apareo>>

Reduce ==
    /\ estado = "aparea" /\ Len(union) = cB
    /\ estado' = "reducido"
    /\ UNCHANGED <<trozo, vuelta, apareo>>

Next ==
    \/ NextTroceado /\ UNCHANGED apareo
    \/ Mapea \/ Cuenta \/ Toma \/ Aborta \/ Reduce

Spec == Init /\ [][Next]_vars

-----------------------------------------------------------------------------
(* Properties *)

\* What the total reduce gets is what sorting all the mapped lines would give:
\* with a map that keeps every line, the lines of the uploaded file, sorted,
\* each as many times as it was there.  The merge ends the node only when some
\* partial result has exactly one line, and hangs only over an empty one.
UnionOrdenada ==
    /\ estado = "reducido" =>
          /\ union = Ordenadas(FlattenSeq(parciales))
          /\ mapa = "todas" /\ LineasCaben => union = Ordenadas(Lineas(archivo))
    /\ estado = "aborta" => \E i \in DOMAIN parciales : Len(parciales[i]) = 1
    /\ estado = "cuelga" /\ copia = 0 => \E i \in DOMAIN parciales : Bytes(parciales[i]) <= 1
=============================================================================
