----------------------------- MODULE MCJobMarta -----------------------------
(* Instances of JobMarta for TLC: up to four tasks of one or two files.   *)
EXTENDS JobMarta, TLC

CONSTANTS t1, t2, t3, t4, a1, a2

UnArchivo == [t \in Tarea |-> a1]
DosArchivos == [t \in Tarea |-> IF t = t1 THEN a1 ELSE a2]
UltimoAparte == [t \in Tarea |-> IF t = t4 THEN a2 ELSE a1]
=============================================================================
