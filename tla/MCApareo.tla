------------------------------ MODULE MCApareo ------------------------------
(* Instance of Apareo for TLC: every text of up to nine bytes.               *)
EXTENDS Apareo

CONSTANT Largo

TextosHasta == UNION {[1 .. n -> {Salto, Letra}] : n \in 0 .. Largo}
=============================================================================
