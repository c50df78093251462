------------------------------- MODULE MCNodo -------------------------------
(* Instances of Nodo for TLC. *)
EXTENDS Nodo, TLC

Pide_(r, j, g, es, n, b, d, as) ==
  [rutina |-> r, job |-> j, guion |-> g, entradas |-> es, salida |-> n, bloque |-> b,
   dato |-> d, antes |-> as]
Map(j, g, n, b, as) == Pide_("map", j, g, {}, n, b, Nada, as)
Reduce(j, e, n, as) == Pide_("reduce", j, Nada, {e}, n, Nada, Nada, as)
Total(j, g, es, n, as) == Pide_("total", j, g, es, n, Nada, Nada, as)
Set(b, d) == Pide_("set", Nada, Nada, {}, Nada, b, d, {})
Get(b) == Pide_("get", Nada, Nada, {}, Nada, b, Nada, {})
Nunca(h) == Pide_("get", Nada, Nada, {}, Nada, 0, Nada, {h})

MCInicial == 0 :> "uno" @@ 1 :> "dos"
Caso(f) == [h \in Hilo |-> IF h \in DOMAIN f THEN f[h] ELSE Nunca(h)]

(* The second Job starts when the first one ended.                         *)
UnoTrasOtro ==
  "m1" :> Map("j1", "map", "p1", 0, {}) @@ "t1" :> Total("j1", "red1", {"p1"}, "f1", {"m1"})
    @@ "m2" :> Map("j2", "map", "p1", 1, {"t1"})
    @@ "t2" :> Total("j2", "red1", {"p1"}, "f2", {"m2"})
MCSegunda == {Caso(UnoTrasOtro)}

(* Two Jobs with combiner, with names of their own and with the same names;*)
(* one without combiner beside one with it; one while blocks are set; a    *)
(* block past the end; one Job after another; two total reduces at once,   *)
(* one of them after a reduce that may be answered before its script ends, *)
(* and a map beside the first of two;                                      *)
(* and a reduce that erases the part of a total reduce of the same names.  *)
MCCasos ==
  { Caso("m1" :> Map("j1", "map", "p1", 0, {}) @@ "r1" :> Reduce("j1", "p1", "q1", {"m1"})
      @@ "t1" :> Total("j1", "red1", {"q1"}, "f1", {"m1", "r1"})
      @@ "m2" :> Map("j2", "map", "p2", 1, {}) @@ "r2" :> Reduce("j2", "p2", "q2", {"m2"})),
    Caso("m1" :> Map("j1", "map", "p1", 0, {}) @@ "r1" :> Reduce("j1", "p1", "q1", {"m1"})
      @@ "m2" :> Map("j2", "map", "p1", 1, {}) @@ "r2" :> Reduce("j2", "p1", "q1", {"m2"})),
    Caso("m1" :> Map("j1", "map", "p1", 0, {}) @@ "m2" :> Map("j1", "map", "p2", 1, {})
      @@ "t1" :> Total("j1", "red1", {"p1", "p2"}, "f1", {"m1", "m2"})
      @@ "m3" :> Map("j2", "map", "p3", 1, {})),
    Caso("s1" :> Set(0, "x") @@ "s2" :> Set(1, "y") @@ "s3" :> Set(0, "z")
      @@ "g" :> Get(0) @@ "m2" :> Map("j2", "map", "p2", 1, {})),
    Caso("s1" :> Set(2, "x") @@ "g" :> Get(1)),
    Caso(UnoTrasOtro),
    Caso("m1" :> Map("j1", "map", "p1", 0, {}) @@ "m2" :> Map("j2", "map", "p2", 1, {"m1"})
      @@ "r2" :> Reduce("j2", "p2", "q2", {"m2"})
      @@ "t1" :> Total("j1", "red1", {"p1"}, "f1", {"m1", "m2"})
      @@ "t2" :> Total("j2", "red2", {"q2"}, "f2", {"r2"})),
    Caso("m1" :> Map("j1", "map", "p1", 0, {}) @@ "m2" :> Map("j2", "map", "p2", 1, {"m1"})
      @@ "t1" :> Total("j1", "red1", {"p1"}, "f1", {"m1"})
      @@ "t2" :> Total("j2", "red2", {"p2"}, "f2", {"m2", "t1"})),
    Caso("m1" :> Map("j1", "map", "p1", 0, {}) @@ "m2" :> Map("j1", "map", "p2", 1, {"m1"})
      @@ "m3" :> Map("j2", "map", "p1", 1, {"m2"}) @@ "r2" :> Reduce("j2", "p1", "q1", {"m3"})
      @@ "t1" :> Total("j1", "red1", {"p1", "p2"}, "f1", {"m1", "m2", "m3"})) }
=============================================================================
