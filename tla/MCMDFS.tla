------------------------------- MODULE MCMDFS -------------------------------
(* Instances of MDFS for TLC: two or three nodes of a few blocks. *)
EXTENDS MDFS

CONSTANTS n1, n2, n3, r1, r2

Simetria == Permutations(Nodo)

UnoODosBloques == {[mb |-> 1, bloques |-> 1], [mb |-> 21, bloques |-> 2]}
DosBloques == {[mb |-> 21, bloques |-> 2]}
=============================================================================
