---------------------------- MODULE MCDirectorios ----------------------------
(* Instances of Directorios for TLC: two names, so that a name may repeat in    *)
(* several directories, and walks of up to two steps.                          *)
EXTENDS Directorios, TLC

CONSTANTS a, b

Simetria == Permutations(Nombres)

Hasta2 == UNION {[1 .. n -> Nombres] : n \in 0 .. 2}
=============================================================================
