--------------------------- MODULE MCPlanificador ---------------------------
(* Instances of Planificador for TLC. *)
EXTENDS Planificador

Trece == <<"A", "B", "C", "D", "E", "F", "G", "H", "I", "J", "K", "L", "M">>
MCLugar == [n \in Nodo |-> SelectInSeq(Trece, LAMBDA m : m = n)]
MCIp == [n \in Nodo |-> CASE n = "A" -> "ip1" [] n = "B" -> "ip1" [] n = "C" -> "ip2"
                          [] OTHER -> "ip3"]
MCPuerto == [n \in Nodo |-> IF n \in {"A", "C"} THEN "p1" ELSE "p2"]

(* f, g, h and m are in directories, a is in the root, r repeats the name  *)
(* of f in another directory and n is nowhere.                             *)
MCHoja == [x \in Archivo |-> IF x = "r" THEN "f" ELSE x]
MCProf == [x \in Archivo |-> IF x = "a" THEN 1 ELSE 2]

En(n, b) == [nodo |-> n, bloque |-> b]
Tres(n, m, l, b) == <<En(n, b), En(m, b + 10), En(l, b + 20)>>

(* Two blocks on A, B, C, one on B, C, D, four on A, B, C; h on nodes that *)
(* no other file uses.                                                     *)
Disco ==
  [x \in Archivo |->
     CASE x = "f" -> <<Tres("A", "B", "C", 0), Tres("B", "C", "A", 1)>>
       [] x = "g" -> <<Tres("C", "D", "B", 2)>>
       [] x = "h" -> <<Tres("D", "E", "F", 0)>>
       [] x = "a" -> <<Tres("A", "B", "D", 3)>>
       [] x = "m" -> [k \in 1..4 |-> Tres("A", "B", "C", 4 + k)]
       [] x = "n" -> NoEsta
       [] OTHER -> <<Tres("D", "C", "A", 4)>>]
DosCopias == [Disco EXCEPT !["g"] = <<<<En("C", 2), En("D", 2)>>>>]
SinDir == [Disco EXCEPT !["g"] = SinRuta]

Pide(as, c) == [archivos |-> as, combiner |-> c]
Caso(d, p1, p2, ns) == [disco |-> d, pedido |-> ("j1" :> p1 @@ "j2" :> p2), nodos |-> ns]

(* In this order: loads of two Jobs on the same nodes; new nodes only; the *)
(* same copies for both; a node known among new ones, with and without     *)
(* rounds; more nodes known than lists; equal last names; a path that goes *)
(* up again; too few copies, a missing file, a missing directory.          *)
MCCasos ==
  { Caso(Disco, Pide(<<"f">>, FALSE), Pide(<<"g">>, TRUE), <<>>),
    Caso(Disco, Pide(<<"g">>, TRUE), Pide(<<"h">>, FALSE), <<>>),
    Caso(Disco, Pide(<<"g">>, TRUE), Pide(<<"g">>, FALSE), <<>>),
    Caso(Disco, Pide(<<"f", "g">>, TRUE), Pide(<<"n">>, FALSE), <<"A">>),
    Caso(Disco, Pide(<<"h", "g">>, FALSE), Pide(<<"n">>, FALSE), <<"D">>),
    Caso(Disco, Pide(<<"m">>, TRUE), Pide(<<"n", "h">>, TRUE), Trece),
    Caso(Disco, Pide(<<"f", "r">>, FALSE), Pide(<<"g">>, FALSE), <<"C", "B", "A">>),
    Caso(Disco, Pide(<<"f", "a">>, FALSE), Pide(<<"a">>, TRUE), <<>>),
    Caso(DosCopias, Pide(<<"f", "g">>, FALSE), Pide(<<"f">>, FALSE), <<>>),
    Caso(SinDir, Pide(<<"g">>, TRUE), Pide(<<"a", "h">>, TRUE), <<>>) }
=============================================================================
