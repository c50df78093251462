----------------------------- MODULE MapReduce ------------------------------
(***************************************************************************)
(* What MaRTA promises the user of a Job: every task of the plan is mapped *)
(* on its node, with combiner each result is reduced there too, only then  *)
(* is the total reduce asked for, and the Job is closed only after it.     *)
(***************************************************************************)
CONSTANTS Tarea, Combiner

VARIABLES
  mapeadas,  \* tasks whose map ran
  reducidas, \* tasks whose local reduce ran
  total      \* how far the total reduce is

vars == <<mapeadas, reducidas, total>>

Init ==
  /\ mapeadas = {}
  /\ reducidas = {}
  /\ total = "no"

Mapea(t) ==
  /\ total = "no"
  /\ mapeadas' = mapeadas \cup {t}
  /\ UNCHANGED <<reducidas, total>>

(* The combiner works on the output of the map. *)
Reduce(t) ==
  /\ Combiner
  /\ total = "no"
  /\ t \in mapeadas
  /\ reducidas' = reducidas \cup {t}
  /\ UNCHANGED <<mapeadas, total>>

Pide ==
  /\ total = "no"
  /\ mapeadas = Tarea
  /\ Combiner => reducidas = Tarea
  /\ total' = "pedido"
  /\ UNCHANGED <<mapeadas, reducidas>>

Termina ==
  /\ total = "pedido"
  /\ total' = "hecho"
  /\ UNCHANGED <<mapeadas, reducidas>>

Cierra ==
  /\ total = "hecho"
  /\ total' = "cerrado"
  /\ UNCHANGED <<mapeadas, reducidas>>

Next ==
  \/ \E t \in Tarea : Mapea(t) \/ Reduce(t)
  \/ Pide
  \/ Termina
  \/ Cierra

Spec == Init /\ [][Next]_vars
=============================================================================
