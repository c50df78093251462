---------------------------- MODULE Apareo_proofs ----------------------------
(***************************************************************************)
(* Proofs about how a file is cut and put together again, for any file,    *)
(* size of block and number of copies.                                     *)
(***************************************************************************)
EXTENDS Apareo, Secuencias_proofs

Texto == Seq({Salto, Letra})

(* The invariant: what is read and written are texts, and the blocks that  *)
(* were put together are the first ones of the file, in its order.         *)
TextosInv ==
  /\ archivo \in Texto
  /\ leido \in 0..Len(archivo)
  /\ bloques \in Seq(Texto)
  /\ recuperado \in Seq(Texto)
VueltaInv ==
  /\ Len(recuperado) <= Len(bloques)
  /\ \A i \in 1..Len(recuperado) : i \notin vacios => recuperado[i] = bloques[i]
  /\ estado = "recuperado" => Len(recuperado) = Len(bloques)
IInv == TextosInv /\ BloquesBuenos /\ VueltaInv

(* Before anything is read there are no blocks.                            *)
LEMMA IInit == Init => IInv
<1>. SUFFICES ASSUME Init
              PROVE  IInv
  OBVIOUS
<1>1. archivo \in Texto
  BY TroceadoAssumption DEF Init, InitTroceado, Texto, Salto, Letra
<1>2. Len(archivo) \in Nat
  BY <1>1 DEF Texto
<1>. QED
  BY <1>1, <1>2 DEF Init, InitTroceado, IInv, TextosInv, VueltaInv, BloquesBuenos

(* A piece of a text is a text.                                            *)
LEMMA Pedazo ==
  ASSUME NEW s \in Texto, NEW m \in Nat \ {0}, NEW n \in 0..Len(s)
  PROVE  /\ SubSeq(s, m, n) \in Texto
         /\ Len(SubSeq(s, m, n)) = IF m <= n THEN n - m + 1 ELSE 0
         /\ \A i \in 1..(n - m + 1) : SubSeq(s, m, n)[i] = s[m + i - 1]
<1>1. \A i \in m..n : s[i] \in {Salto, Letra}
  BY DEF Texto
<1>. QED
  BY <1>1, SubSeqProperties DEF Texto

(* A buffer is cut at an end of line, or not at all.                       *)
LEMMA CorteEs ==
  ASSUME NEW s \in Texto
  PROVE  Corte(s) = 0 \/ (Corte(s) \in 1..Len(s) /\ s[Corte(s)] = Salto)
<1>. DEFINE I == {i \in 1..Len(s) : s[i] = Salto}
            K == IF I # {} THEN Max(I) ELSE 0
<1>1. Corte(s) = IF K > 1 THEN K ELSE 0
  BY DEF Corte, SelectLastInSeq
<1>2. CASE I = {}
  BY <1>1, <1>2
<1>3. CASE I # {}
  <2>1. Len(s) \in Nat /\ I \in SUBSET (1..Len(s))
    BY DEF Texto
  <2>2. Max(I) \in I
    BY <1>3, <2>1, MaxEs
  <2>. QED
    BY <1>1, <1>3, <2>2
<1>. QED
  BY <1>2, <1>3

(* A turn of recorrerArchivo adds a good block, or nothing.                *)
LEMMA LeeBufferBien == IInv /\ LeeBuffer => IInv'
<1>. SUFFICES ASSUME IInv, LeeBuffer
              PROVE  IInv'
  OBVIOUS
<1>. DEFINE n == Menor(Tamanio, Len(archivo) - leido)
            buffer == SubSeq(archivo, leido + 1, leido + n)
            k == Corte(buffer)
            b == SubSeq(buffer, 1, k)
<1>1. \/ k = 0 /\ leido' = leido + n /\ bloques' = bloques
      \/ k > 0 /\ leido' = Vuelve(n, k) /\ bloques' = Append(bloques, b)
  BY Zenon DEF LeeBuffer
<1>2. /\ Len(archivo) \in Nat /\ Tamanio \in Nat /\ leido \in Nat
      /\ n \in 0..Tamanio /\ leido + n \in 0..Len(archivo)
  BY TroceadoAssumption DEF IInv, TextosInv, Texto, Menor
<1>3. buffer \in Texto /\ Len(buffer) = n
  BY <1>2, Pedazo DEF IInv, TextosInv
<1>4. k = 0 \/ (k \in 1..n /\ buffer[k] = Salto)
  BY <1>3, CorteEs
<1>5. archivo' = archivo /\ estado' = estado /\ UNCHANGED vuelta
  BY DEF LeeBuffer
<1>6. CASE k = 0
  <2>1. leido' = leido + n /\ bloques' = bloques
    BY <1>6, <1>1
  <2>. QED
    BY <1>2, <1>5, <2>1 DEF IInv, TextosInv, VueltaInv, BloquesBuenos, vuelta
<1>7. CASE k > 0
  <2>1. leido' = Vuelve(n, k) /\ bloques' = Append(bloques, b)
    BY <1>2, <1>7, <1>4, <1>1, SMTT(30)
  <2>2. k \in 1..n /\ buffer[k] = Salto
    BY <1>2, <1>7, <1>4
  <2>3. b \in Texto /\ Len(b) = k /\ b[k] = buffer[k]
    <3>1. /\ b \in Texto
          /\ Len(b) = IF 1 <= k THEN k - 1 + 1 ELSE 0
          /\ \A i \in 1..(k - 1 + 1) : b[i] = buffer[1 + i - 1]
      <4>1. k \in 0..Len(buffer)
        BY <1>2, <1>3, <2>2
      <4>. HIDE DEF buffer, k
      <4>. QED
        BY <1>3, <4>1, Pedazo
    <3>. HIDE DEF buffer, k, b, n
    <3>2. k \in 1..n
      BY <2>2
    <3>. QED
      BY <1>2, <3>1, <3>2
  <2>4. BloqueBueno(b)
    BY <1>2, <2>2, <2>3, SMTT(30) DEF BloqueBueno
  <2>5. /\ bloques' \in Seq(Texto) /\ Len(bloques') = Len(bloques) + 1
        /\ \A i \in 1..Len(bloques) : bloques'[i] = bloques[i]
        /\ bloques'[Len(bloques) + 1] = b
    <3>. HIDE DEF b
    <3>. QED
      BY <2>1, <2>3, AppendProperties DEF IInv, TextosInv
  <2>6. leido' \in 0..Len(archivo)
    BY <1>2, <2>1, <2>2, SMTT(30) DEF Vuelve
  <2>7. BloquesBuenos'
    <3>1. \A c : BloqueBueno(c)' <=> BloqueBueno(c)
      BY DEF BloqueBueno
    <3>. HIDE DEF b
    <3>. QED
      BY <2>4, <2>5, <3>1 DEF IInv, TextosInv, BloquesBuenos
  <2>8. VueltaInv'
    BY <1>5, <2>5 DEF IInv, TextosInv, VueltaInv, vuelta, LeeBuffer
  <2>. QED
    BY <1>5, <2>5, <2>6, <2>7, <2>8 DEF IInv, TextosInv, vuelta
<1>. QED
  BY <1>2, <1>6, <1>7, <1>4 DEF IInv

(* A copy that answers, or closes before it does, gives the next block.    *)
LEMMA EscribeBien ==
  ASSUME IInv, NEW b \in Texto, Pide, Escribe(b), UNCHANGED <<trozo, estado>>,
         \/ vacios' = vacios /\ b = bloques[Len(recuperado) + 1]
         \/ vacios' = vacios \cup {Len(recuperado) + 1}
  PROVE  IInv'
<1>1. /\ recuperado' \in Seq(Texto) /\ Len(recuperado') = Len(recuperado) + 1
      /\ \A i \in 1..Len(recuperado) : recuperado'[i] = recuperado[i]
      /\ recuperado'[Len(recuperado) + 1] = b
  BY AppendProperties DEF IInv, TextosInv, Escribe
<1>2. TextosInv' /\ BloquesBuenos'
  BY <1>1 DEF IInv, TextosInv, BloquesBuenos, trozo
<1>3. Len(recuperado') <= Len(bloques') /\ estado' = "recupera"
  BY <1>1 DEF IInv, TextosInv, Pide, Falta, trozo
<1>4. ASSUME NEW i \in 1..Len(recuperado'), i \notin vacios'
      PROVE  recuperado'[i] = bloques'[i]
  <2>1. CASE i \in 1..Len(recuperado)
    BY <1>1, <1>4, <2>1 DEF IInv, VueltaInv, trozo
  <2>2. CASE i = Len(recuperado) + 1
    BY <1>1, <1>4, <2>2 DEF trozo
  <2>. QED
    BY <1>1, <2>1, <2>2 DEF IInv, TextosInv
<1>. QED
  BY <1>2, <1>3, <1>4 DEF IInv, VueltaInv

(* Every step keeps the invariant.                                         *)
LEMMA IStep == IInv /\ [Next]_vars => IInv'
<1>. SUFFICES ASSUME IInv, [Next]_vars
              PROVE  IInv'
  OBVIOUS
<1>1. ASSUME UNCHANGED <<trozo, recuperado, vacios>>, estado' # "recuperado" \/ UNCHANGED estado
      PROVE  IInv'
  BY <1>1 DEF IInv, TextosInv, VueltaInv, BloquesBuenos, trozo
<1>2. CASE LeeBuffer
  BY <1>2, LeeBufferBien
<1>3. CASE Recupera \/ Corta \/ SinCopias \/ NoResponde
  BY <1>1, <1>3 DEF Recupera, Corta, SinCopias, NoResponde, OtraCopia, vuelta
<1>4. CASE Responde
  <2>1. bloques[Len(recuperado) + 1] \in Texto
    BY <1>4 DEF Responde, Pide, Falta, IInv, TextosInv
  <2>. QED
    BY <1>4, <2>1, EscribeBien DEF Responde
<1>5. CASE Cierra
  <2>1. <<>> \in Texto
    BY DEF Texto
  <2>. QED
    BY <1>5, <2>1, EscribeBien DEF Cierra
<1>6. CASE Termina
  <2>1. UNCHANGED <<trozo, recuperado, vacios>> /\ ~Falta
    BY <1>6 DEF Termina, vuelta
  <2>. QED
    BY <2>1 DEF IInv, TextosInv, VueltaInv, BloquesBuenos, trozo, Falta
<1>7. CASE Mapea \/ Cuenta \/ Toma \/ Aborta \/ Reduce
  BY <1>1, <1>7 DEF Mapea, Cuenta, Toma, Aborta, Reduce, vuelta
<1>8. CASE UNCHANGED vars
  BY <1>1, <1>8 DEF vars, varsTroceado, vuelta
<1>. QED
  BY <1>2, <1>3, <1>4, <1>5, <1>6, <1>7, <1>8 DEF Next, NextTroceado

(* recorrerArchivo sends no block that is larger than TAMANIO_BLOQUE or    *)
(* that ends inside a line, whatever the file.                             *)
THEOREM BloquesSiempreBuenos == Spec => []BloquesBuenos
<1>1. IInv => BloquesBuenos
  BY DEF IInv
<1>. QED
  BY <1>1, IInit, IStep, PTL DEF Spec

(* recuperarArchivo, when it ends, gives back every block in its place,    *)
(* but those of a node that closed the connection without a word.          *)
THEOREM RecuperadoSiempreIgual == Spec => []RecuperadoIgual
<1>1. IInv => RecuperadoIgual
  BY DEF IInv, TextosInv, VueltaInv, RecuperadoIgual
<1>. QED
  BY <1>1, IInit, IStep, PTL DEF Spec
=============================================================================
