-------------------------- MODULE Secuencias_proofs --------------------------
(***************************************************************************)
(* What the operators of the community modules that the specifications use *)
(* to search and to cut lists do, for every list.                          *)
(***************************************************************************)
EXTENDS SequencesExt, Integers, FiniteSetTheorems, SequenceTheorems,
        WellFoundedInduction, TLAPS

(* The least of some numbers: what SelectInSeq and SelectInSubSeq give when*)
(* something is found.  The numbers up to each of them are finite sets,    *)
(* ordered by inclusion.                                                   *)
LEMMA MinEs ==
  ASSUME NEW S \in SUBSET Nat, S # {}
  PROVE  Min(S) \in S /\ \A y \in S : Min(S) <= y
<1>. DEFINE U == {0..n : n \in S}
<1>1. U \subseteq FiniteSubsetsOf(Nat) /\ U # {}
  <2>1. ASSUME NEW n \in S
        PROVE  0..n \in SUBSET Nat /\ IsFiniteSet(0..n)
    BY FS_Interval
  <2>. QED
    BY <2>1 DEF FiniteSubsetsOf
<1>2. PICK x \in U : \A y \in U : ~ (<<y, x>> \in StrictSubsetOrdering(Nat))
  BY <1>1, WFMin, FS_StrictSubsetOrderingWellFounded
<1>3. PICK m \in S : x = 0..m
  OBVIOUS
<1>4. ASSUME NEW y \in S
      PROVE  m <= y
  <2>1. SUFFICES ASSUME y < m
                 PROVE  FALSE
    OBVIOUS
  <2>2. <<0..y, x>> \in StrictSubsetOrdering(Nat)
    BY <2>1, <1>3 DEF StrictSubsetOrdering
  <2>. QED
    BY <2>2, <1>2
<1>. QED
  BY <1>4 DEF Min

(* The greatest of some numbers up to n: what SelectLastInSeq gives.       *)
LEMMA MaxEs ==
  ASSUME NEW n \in Nat, NEW S \in SUBSET (1..n), S # {}
  PROVE  Max(S) \in S /\ \A y \in S : y <= Max(S)
<1>. DEFINE R == {n - x : x \in S}
<1>1. R \in SUBSET Nat /\ R # {}
  OBVIOUS
<1>2. Min(R) \in R /\ \A y \in R : Min(R) <= y
  BY <1>1, MinEs
<1>3. PICK m \in S : Min(R) = n - m
  BY <1>2
<1>4. ASSUME NEW y \in S
      PROVE  y <= m
  <2>1. n - m <= n - y
    BY <1>2, <1>3
  <2>. QED
    BY <2>1
<1>. QED
  BY <1>4 DEF Max

(* A list without its element p.                                           *)
LEMMA RemoveAtEs ==
  ASSUME NEW S, NEW s \in Seq(S), NEW p \in 1..Len(s)
  PROVE  /\ RemoveAt(s, p) \in Seq(S)
         /\ Len(RemoveAt(s, p)) = Len(s) - 1
         /\ \A i \in 1..(Len(s) - 1) :
              RemoveAt(s, p)[i] = s[IF i < p THEN i ELSE i + 1]
<1>. DEFINE a == SubSeq(s, 1, p - 1)
            b == SubSeq(s, p + 1, Len(s))
<1>1. /\ a \in Seq(S) /\ Len(a) = p - 1
      /\ \A i \in 1..(p - 1) : a[i] = s[i]
  <2>1. \A i \in 1..(p - 1) : s[i] \in S
    OBVIOUS
  <2>2. /\ a \in Seq(S)
        /\ Len(a) = IF 1 <= p - 1 THEN (p - 1) - 1 + 1 ELSE 0
        /\ \A i \in 1..((p - 1) - 1 + 1) : a[i] = s[1 + i - 1]
    BY <2>1, SubSeqProperties
  <2>. HIDE DEF a
  <2>3. p \in Int /\ 1 <= p /\ (p - 1) - 1 + 1 = p - 1
    OBVIOUS
  <2>4. Len(a) = p - 1
    BY <2>2, <2>3
  <2>5. ASSUME NEW i \in 1..(p - 1)
        PROVE  a[i] = s[i]
    <3>1. 1 + i - 1 = i /\ i \in 1..((p - 1) - 1 + 1)
      BY <2>3
    <3>. QED
      BY <2>2, <3>1
  <2>. QED
    BY <2>2, <2>4, <2>5
<1>2. /\ b \in Seq(S) /\ Len(b) = Len(s) - p
      /\ \A i \in 1..(Len(s) - p) : b[i] = s[p + i]
  <2>1. \A i \in (p + 1)..Len(s) : s[i] \in S
    OBVIOUS
  <2>2. /\ b \in Seq(S)
        /\ Len(b) = IF p + 1 <= Len(s) THEN Len(s) - (p + 1) + 1 ELSE 0
        /\ \A i \in 1..(Len(s) - (p + 1) + 1) : b[i] = s[(p + 1) + i - 1]
    BY <2>1, SubSeqProperties
  <2>. HIDE DEF b
  <2>. QED
    BY <2>2
<1>3. RemoveAt(s, p) = a \o b
  BY DEF RemoveAt
<1>. HIDE DEF a, b
<1>4. /\ a \o b \in Seq(S) /\ Len(a \o b) = Len(a) + Len(b)
      /\ \A i \in 1..(Len(a) + Len(b)) :
           (a \o b)[i] = IF i <= Len(a) THEN a[i] ELSE b[i - Len(a)]
  BY <1>1, <1>2, ConcatProperties
<1>. QED
  BY <1>1, <1>2, <1>3, <1>4

(* A list without the first of the elements that are e.                    *)
LEMMA RemoveFirstEs ==
  ASSUME NEW S, NEW s \in Seq(S), NEW e
  PROVE  \/ /\ \A i \in 1..Len(s) : s[i] # e
            /\ RemoveFirst(s, e) = s
         \/ \E p \in 1..Len(s) : s[p] = e /\ RemoveFirst(s, e) = RemoveAt(s, p)
<1>. DEFINE I == {i \in 1..Len(s) : s[i] = e}
            k == SelectInSeq(s, LAMBDA v : v = e)
<1>1. RemoveFirst(s, e) = IF I # {} THEN RemoveAt(s, k) ELSE s
  BY DEF RemoveFirst
<1>2. k = IF I # {} THEN Min(I) ELSE 0
  BY DEF SelectInSeq
<1>. HIDE DEF k
<1>3. ASSUME I # {}
      PROVE  Min(I) \in I
  <2>1. I \in SUBSET Nat
    OBVIOUS
  <2>. QED
    BY <1>3, <2>1, MinEs
<1>. QED
  BY <1>1, <1>2, <1>3
-----------------------------------------------------------------------------
(* Induction over the numbers and over the subsets of a finite set, with   *)
(* the set of those for which it holds in the place of the property.       *)
LEMMA InduccionNat ==
  ASSUME NEW B, 0 \in B, \A n \in Nat : n \in B => n + 1 \in B
  PROVE  Nat \subseteq B
<1>. DEFINE malos == Nat \ B
<1>. SUFFICES ASSUME malos # {}
              PROVE  FALSE
  OBVIOUS
<1>1. Min(malos) \in malos /\ \A y \in malos : Min(malos) <= y
  BY MinEs
<1>. DEFINE m == Min(malos)
<1>. HIDE DEF m
<1>2. m \in Nat /\ m # 0 /\ m \notin B
  BY <1>1 DEF m
<1>3. m - 1 \in Nat /\ m - 1 \in B
  BY <1>1, <1>2 DEF m
<1>. QED
  BY <1>2, <1>3

LEMMA InduccionConjuntos ==
  ASSUME NEW S, IsFiniteSet(S), NEW B, {} \in B,
         \A s \in SUBSET S : s # {} /\ (\A e \in s : s \ {e} \in B) => s \in B
  PROVE  SUBSET S \subseteq B
<1>. DEFINE malos == (SUBSET S) \ B
<1>. SUFFICES ASSUME malos # {}
              PROVE  FALSE
  OBVIOUS
<1>1. malos \subseteq FiniteSubsetsOf(S)
  BY FS_Subset DEF FiniteSubsetsOf
<1>2. PICK x \in malos : \A y \in malos : ~ (<<y, x>> \in StrictSubsetOrdering(S))
  BY <1>1, WFMin, FS_StrictSubsetOrderingWellFounded
<1>3. ASSUME NEW e \in x
      PROVE  x \ {e} \in B
  <2>1. <<x \ {e}, x>> \in StrictSubsetOrdering(S)
    BY DEF StrictSubsetOrdering
  <2>. QED
    BY <1>2, <2>1
<1>. QED
  BY <1>3

(* SumFunctionOnSet takes the elements of a set one by one, in the order   *)
(* CHOOSE gives them.  A function that does is there for a finite set.     *)
UnoDe(s) == CHOOSE x \in s : TRUE
Sumando(f, S, g) ==
  [s \in S |-> IF s = {} THEN 0 ELSE f[UnoDe(s)] + g[s \ {UnoDe(s)}]]

LEMMA UnoDeEsta == \A s : s # {} => UnoDe(s) \in s
BY DEF UnoDe

LEMMA SumandoExiste ==
  ASSUME NEW S, IsFiniteSet(S), NEW f
  PROVE  \E g : g = Sumando(f, SUBSET S, g)
<1>. DEFINE T(n) == {s \in SUBSET S : Cardinality(s) <= n}
            B == {n \in Nat : \E g : g = Sumando(f, T(n), g)}
<1>1. \A s \in SUBSET S : IsFiniteSet(s) /\ Cardinality(s) \in Nat
  BY FS_Subset, FS_CardinalityType
<1>2. 0 \in B
  <2>1. T(0) = {{}}
    BY <1>1, FS_EmptySet
  <2>. DEFINE g == [s \in T(0) |-> 0]
  <2>2. g = Sumando(f, T(0), g)
    BY <2>1 DEF Sumando
  <2>. QED
    BY <2>2
<1>3. ASSUME NEW n \in Nat, n \in B
      PROVE  n + 1 \in B
  <2>. PICK g : g = Sumando(f, T(n), g)
    BY <1>3
  <2>. DEFINE h == Sumando(f, T(n + 1), g)
  <2>1. ASSUME NEW s \in T(n + 1), s # {}
        PROVE  s \ {UnoDe(s)} \in T(n)
    <3>1. Cardinality(s \ {UnoDe(s)}) = Cardinality(s) - 1
      BY <1>1, <2>1, UnoDeEsta, FS_RemoveElement
    <3>. QED
      BY <1>1, <3>1
  <2>2. ASSUME NEW s \in T(n)
        PROVE  h[s] = g[s]
    <3>1. s \in T(n + 1)
      BY <1>1
    <3>. QED
      BY <3>1 DEF Sumando
  <2>3. h = Sumando(f, T(n + 1), h)
    BY <2>1, <2>2 DEF Sumando
  <2>. HIDE DEF h, T
  <2>. QED
    BY <2>3
<1>4. Cardinality(S) \in B
  BY <1>1, <1>2, <1>3, InduccionNat
<1>5. T(Cardinality(S)) = SUBSET S
  BY <1>1, FS_Subset
<1>. QED
  BY <1>4, <1>5

(* So the sum is the value of such a function.                             *)
LEMMA SumaEs ==
  ASSUME NEW S, IsFiniteSet(S), NEW f
  PROVE  \E g : g = Sumando(f, SUBSET S, g) /\ SumFunctionOnSet(f, S) = g[S]
<1>. DEFINE g == CHOOSE h : h = Sumando(f, SUBSET S, h)
<1>1. g = Sumando(f, SUBSET S, g)
  BY SumandoExiste
<1>2. SumFunctionOnSet(f, S) = g[S]
  BY DEF SumFunctionOnSet, FoldFunctionOnSet, MapThenFoldSet, Sumando, UnoDe
<1>. QED
  BY <1>1, <1>2

(* When each f[a] is at most how many elements of D belong to a, the sum   *)
(* is at most how many elements of D belong to some a of S.                *)
LEMMA SumaAcotada ==
  ASSUME NEW S, IsFiniteSet(S), NEW f, NEW D, IsFiniteSet(D), NEW de,
         \A a \in S : f[a] \in Nat /\ f[a] <= Cardinality({t \in D : de[t] = a})
  PROVE  /\ SumFunctionOnSet(f, S) \in Nat
         /\ SumFunctionOnSet(f, S) <= Cardinality({t \in D : de[t] \in S})
<1>1. PICK g : g = Sumando(f, SUBSET S, g) /\ SumFunctionOnSet(f, S) = g[S]
  BY SumaEs
<1>. DEFINE De(s) == {t \in D : de[t] \in s}
            B == {s \in SUBSET S : g[s] \in Nat /\ g[s] <= Cardinality(De(s))}
<1>2. \A s : IsFiniteSet(De(s)) /\ Cardinality(De(s)) \in Nat
  <2>. TAKE s
  <2>1. De(s) \subseteq D
    OBVIOUS
  <2>. QED
    BY <2>1, FS_Subset, FS_CardinalityType
<1>3. {} \in B
  <2>1. g[{}] = 0
    BY <1>1 DEF Sumando
  <2>. QED
    BY <1>2, <2>1
<1>4. ASSUME NEW s \in SUBSET S, s # {}, \A e \in s : s \ {e} \in B
      PROVE  s \in B
  <2>. DEFINE e == UnoDe(s)
              r == s \ {e}
              E == {t \in D : de[t] = e}
  <2>1. e \in s /\ e \in S /\ r \in B
    BY <1>4, UnoDeEsta
  <2>2. g[s] = f[e] + g[r]
    BY <1>1, <1>4 DEF Sumando
  <2>3. /\ De(s) = De(r) \cup E /\ De(r) \cap E = {}
        /\ IsFiniteSet(E) /\ Cardinality(E) \in Nat
    <3>1. E \subseteq D
      OBVIOUS
    <3>2. IsFiniteSet(E) /\ Cardinality(E) \in Nat
      BY <3>1, FS_Subset, FS_CardinalityType
    <3>. HIDE DEF e
    <3>. QED
      BY <2>1, <3>2
  <2>4. Cardinality(De(s)) = Cardinality(De(r)) + Cardinality(E)
    <3>. DEFINE A == De(r)
    <3>1. IsFiniteSet(A) /\ Cardinality(A) \in Nat
      BY <1>2
    <3>2. De(s) = A \cup E /\ Cardinality(A \cap E) = 0
      BY <2>3, FS_EmptySet
    <3>. HIDE DEF A, E
    <3>3. Cardinality(A \cup E) = Cardinality(A) + Cardinality(E) - Cardinality(A \cap E)
      BY <2>3, <3>1, FS_Union
    <3>4. Cardinality(A \cup E) = Cardinality(A) + Cardinality(E)
      BY <2>3, <3>1, <3>2, <3>3
    <3>. QED
      BY <3>2, <3>4 DEF A
  <2>5. f[e] \in Nat /\ f[e] <= Cardinality(E)
    BY <2>1
  <2>6. /\ g[r] \in Nat /\ g[r] <= Cardinality(De(r))
        /\ Cardinality(De(r)) \in Nat /\ Cardinality(De(s)) \in Nat
    BY <1>2, <2>1
  <2>7. g[s] \in Nat /\ g[s] <= Cardinality(De(s))
    <3>. HIDE DEF e, E, De, r
    <3>. QED
      BY <2>2, <2>3, <2>4, <2>5, <2>6
  <2>. QED
    BY <2>7
<1>5. S \in B
  <2>. HIDE DEF B
  <2>. QED
    BY <1>3, <1>4, InduccionConjuntos
<1>. QED
  BY <1>1, <1>5

(* A sum of integers changes as much as the one value that changes.        *)
LEMMA SumaCambia ==
  ASSUME NEW S, IsFiniteSet(S), NEW f, NEW h, NEW a \in S,
         \A x \in S : f[x] \in Int /\ h[x] \in Int,
         \A x \in S : x # a => h[x] = f[x]
  PROVE  /\ SumFunctionOnSet(f, S) \in Int
         /\ SumFunctionOnSet(h, S) = SumFunctionOnSet(f, S) + h[a] - f[a]
<1>1. PICK g : g = Sumando(f, SUBSET S, g) /\ SumFunctionOnSet(f, S) = g[S]
  BY SumaEs
<1>2. PICK k : k = Sumando(h, SUBSET S, k) /\ SumFunctionOnSet(h, S) = k[S]
  BY SumaEs
<1>. DEFINE B == {s \in SUBSET S : /\ g[s] \in Int
                                   /\ k[s] = IF a \in s THEN g[s] + h[a] - f[a] ELSE g[s]}
<1>3. {} \in B
  BY <1>1, <1>2 DEF Sumando
<1>4. ASSUME NEW s \in SUBSET S, s # {}, \A e \in s : s \ {e} \in B
      PROVE  s \in B
  <2>. DEFINE e == UnoDe(s)
              r == s \ {e}
  <2>1. e \in s /\ e \in S /\ r \in B
    BY <1>4, UnoDeEsta
  <2>2. g[s] = f[e] + g[r] /\ k[s] = h[e] + k[r]
    BY <1>1, <1>2, <1>4 DEF Sumando
  <2>3. /\ g[r] \in Int
        /\ k[r] = IF a \in r THEN g[r] + h[a] - f[a] ELSE g[r]
    BY <2>1
  <2>4. f[e] \in Int /\ h[e] \in Int /\ f[a] \in Int /\ h[a] \in Int
    BY <2>1
  <2>. HIDE DEF e
  <2>5. CASE e = a
    <3>1. a \in s /\ a \notin r
      BY <2>1, <2>5
    <3>. HIDE DEF r
    <3>2. g[s] \in Int /\ k[s] = g[s] + h[a] - f[a]
      BY <2>2, <2>3, <2>4, <2>5, <3>1
    <3>. QED
      BY <3>1, <3>2
  <2>6. CASE e # a
    <3>1. (a \in s <=> a \in r) /\ h[e] = f[e]
      BY <2>1, <2>6
    <3>. HIDE DEF r
    <3>2. g[s] \in Int /\ k[s] = IF a \in s THEN g[s] + h[a] - f[a] ELSE g[s]
      BY <2>2, <2>3, <2>4, <3>1
    <3>. QED
      BY <3>2
  <2>. QED
    BY <2>5, <2>6
<1>5. S \in B
  <2>. HIDE DEF B
  <2>. QED
    BY <1>3, <1>4, InduccionConjuntos
<1>. QED
  BY <1>1, <1>2, <1>5

LEMMA SumaNula ==
  ASSUME NEW S, IsFiniteSet(S), NEW f, \A x \in S : f[x] = 0
  PROVE  SumFunctionOnSet(f, S) = 0
<1>1. PICK g : g = Sumando(f, SUBSET S, g) /\ SumFunctionOnSet(f, S) = g[S]
  BY SumaEs
<1>. DEFINE B == {s \in SUBSET S : g[s] = 0}
<1>2. {} \in B
  BY <1>1 DEF Sumando
<1>3. ASSUME NEW s \in SUBSET S, s # {}, \A e \in s : s \ {e} \in B
      PROVE  s \in B
  <2>1. UnoDe(s) \in s /\ UnoDe(s) \in S /\ s \ {UnoDe(s)} \in B
    BY <1>3, UnoDeEsta
  <2>2. g[s] = f[UnoDe(s)] + g[s \ {UnoDe(s)}]
    BY <1>1, <1>3 DEF Sumando
  <2>. QED
    BY <2>1, <2>2
<1>4. S \in B
  <2>. HIDE DEF B
  <2>. QED
    BY <1>2, <1>3, InduccionConjuntos
<1>. QED
  BY <1>1, <1>4

-----------------------------------------------------------------------------
(* FlattenSeq joins one sequence after the other.  A function that does is *)
(* there for every sequence of sequences.                                  *)
Juntando(s, D, g) == [i \in D |-> IF i = 1 THEN s[i] ELSE g[i - 1] \o s[i]]

LEMMA JuntandoExiste ==
  ASSUME NEW s, NEW n \in Nat
  PROVE  \E g : g = Juntando(s, 1..n, g)
<1>. DEFINE B == {m \in Nat : \E g : g = Juntando(s, 1..m, g)}
<1>1. 0 \in B
  <2>. DEFINE g == [i \in 1..0 |-> s]
  <2>1. g = Juntando(s, 1..0, g)
    BY DEF Juntando
  <2>. QED
    BY <2>1
<1>2. ASSUME NEW m \in Nat, m \in B
      PROVE  m + 1 \in B
  <2>. PICK g : g = Juntando(s, 1..m, g)
    BY <1>2
  <2>. DEFINE h == Juntando(s, 1..(m + 1), g)
  <2>1. \A i \in 1..m : h[i] = g[i]
    <3>1. \A i \in 1..m : g[i] = IF i = 1 THEN s[i] ELSE g[i - 1] \o s[i]
      BY DEF Juntando
    <3>2. \A i \in 1..(m + 1) : h[i] = IF i = 1 THEN s[i] ELSE g[i - 1] \o s[i]
      BY DEF Juntando
    <3>. HIDE DEF h
    <3>. QED
      BY <3>1, <3>2
  <2>2. h = Juntando(s, 1..(m + 1), h)
    <3>1. \A i \in 1..(m + 1) : i # 1 => i - 1 \in 1..m
      OBVIOUS
    <3>. QED
      BY <2>1, <3>1 DEF Juntando
  <2>. HIDE DEF h
  <2>. QED
    BY <2>2
<1>. QED
  BY <1>1, <1>2, InduccionNat

(* What is there after each of the sequences.                              *)
LEMMA FlattenPasos ==
  ASSUME NEW S, NEW s \in Seq(Seq(S))
  PROVE  \E g \in [0..Len(s) -> Seq(S)] :
           /\ g[0] = <<>>
           /\ \A i \in 1..Len(s) : g[i] = g[i - 1] \o s[i]
           /\ FlattenSeq(s) = g[Len(s)]
<1>. DEFINE N == Len(s)
            g == CHOOSE h : h = Juntando(s, 1..N, h)
            r == [i \in 0..N |-> IF i = 0 THEN <<>> ELSE g[i]]
<1>1. N \in Nat /\ \A i \in 1..N : s[i] \in Seq(S)
  OBVIOUS
<1>2. g = Juntando(s, 1..N, g)
  BY <1>1, JuntandoExiste
<1>3. FlattenSeq(s) = IF N = 0 THEN s ELSE g[N]
  BY DEF FlattenSeq, Juntando
<1>. HIDE DEF g
<1>4. \A i \in 1..N : g[i] = IF i = 1 THEN s[i] ELSE g[i - 1] \o s[i]
  BY <1>2 DEF Juntando
<1>5a. r[0] = <<>> /\ \A i \in 1..N : r[i] = g[i]
  BY <1>1
<1>5. \A i \in 1..N : r[i] = r[i - 1] \o s[i]
  <2>. TAKE i \in 1..N
  <2>. HIDE DEF r, N
  <2>1. CASE i = 1
    <3>1. s[1] = <<>> \o s[1]
      BY <1>1, <2>1, ConcatEmptySeq
    <3>2. r[1] = s[1] /\ r[i - 1] = <<>>
      BY <1>4, <1>5a, <2>1
    <3>. QED
      BY <2>1, <3>1, <3>2
  <2>2. CASE i # 1
    <3>1. i - 1 \in 1..N
      BY <1>1, <2>2
    <3>. QED
      BY <1>4, <1>5a, <2>2, <3>1
  <2>. QED
    BY <2>1, <2>2
<1>6. r \in [0..N -> Seq(S)]
  <2>. DEFINE B == {m \in Nat : m <= N => r[m] \in Seq(S)}
  <2>1. 0 \in B
    OBVIOUS
  <2>2. ASSUME NEW m \in Nat, m \in B
        PROVE  m + 1 \in B
    <3>. SUFFICES ASSUME m + 1 <= N
                  PROVE  r[m + 1] \in Seq(S)
      OBVIOUS
    <3>. HIDE DEF r, N
    <3>1. m + 1 \in 1..N /\ m <= N /\ (m + 1) - 1 = m
      BY <1>1
    <3>2. r[m] \in Seq(S) /\ s[m + 1] \in Seq(S) /\ r[m + 1] = r[m] \o s[m + 1]
      BY <1>1, <1>5, <2>2, <3>1
    <3>. QED
      BY <3>2, ConcatProperties
  <2>. HIDE DEF B
  <2>3. Nat \subseteq B
    BY <2>1, <2>2, InduccionNat
  <2>. HIDE DEF r
  <2>4. \A i \in 0..N : r[i] \in Seq(S)
    BY <1>1, <2>3 DEF B
  <2>. QED
    BY <2>4 DEF r
<1>7. FlattenSeq(s) = r[N]
  BY <1>1, <1>3
<1>. HIDE DEF r
<1>8. r[0] = <<>>
  BY <1>1 DEF r
<1>. QED
  BY <1>5, <1>6, <1>7, <1>8

(* So the sequences lie one after the other in the result, and nothing     *)
(* else does: o[i] is where the one after the i-th begins.                 *)
LEMMA FlattenEs ==
  ASSUME NEW S, NEW s \in Seq(Seq(S))
  PROVE  \E o \in [0..Len(s) -> Nat] :
           /\ o[0] = 0 /\ o[Len(s)] = Len(FlattenSeq(s))
           /\ FlattenSeq(s) \in Seq(S)
           /\ \A i \in 1..Len(s) : o[i] = o[i - 1] + Len(s[i])
           /\ \A i \in 1..Len(s) : \A k \in 1..Len(s[i]) : FlattenSeq(s)[o[i - 1] + k] = s[i][k]
           /\ \A p \in 1..Len(FlattenSeq(s)) :
                \E i \in 1..Len(s) : p - o[i - 1] \in 1..Len(s[i])
           /\ \A i, j \in 0..Len(s) : i <= j => o[i] <= o[j]
<1>. PICK g \in [0..Len(s) -> Seq(S)] :
       /\ g[0] = <<>>
       /\ \A i \in 1..Len(s) : g[i] = g[i - 1] \o s[i]
       /\ FlattenSeq(s) = g[Len(s)]
  BY FlattenPasos
<1>. DEFINE N == Len(s)
            o == [i \in 0..N |-> Len(g[i])]
            F == FlattenSeq(s)
<1>1. N \in Nat /\ \A i \in 1..N : s[i] \in Seq(S) /\ Len(s[i]) \in Nat
  OBVIOUS
<1>1a. /\ g \in [0..N -> Seq(S)] /\ g[0] = <<>> /\ F = g[N]
       /\ \A i \in 1..N : g[i] = g[i - 1] \o s[i]
  OBVIOUS
<1>. HIDE DEF N, F
<1>2. \A i \in 1..N : /\ g[i - 1] \in Seq(S) /\ Len(g[i]) = Len(g[i - 1]) + Len(s[i])
                      /\ Len(g[i - 1]) \in Nat
                      /\ \A k \in 1..Len(g[i]) :
                           g[i][k] = IF k <= Len(g[i - 1]) THEN g[i - 1][k]
                                     ELSE s[i][k - Len(g[i - 1])]
  <2>. TAKE i \in 1..N
  <2>1. g[i - 1] \in Seq(S) /\ s[i] \in Seq(S) /\ g[i] = g[i - 1] \o s[i]
    <3>1. i - 1 \in 0..N
      BY <1>1
    <3>. QED
      BY <1>1, <1>1a, <3>1
  <2>. QED
    BY <2>1, ConcatProperties, LenProperties
<1>3. o \in [0..N -> Nat] /\ o[0] = 0 /\ o[N] = Len(F) /\ F \in Seq(S)
  <2>1. \A i \in 0..N : g[i] \in Seq(S) /\ Len(g[i]) \in Nat
    <3>1. \A i \in 0..N : g[i] \in Seq(S)
      BY <1>1a
    <3>. QED
      BY <3>1, LenProperties
  <2>2. Len(g[0]) = 0
    BY <1>1a, EmptySeq
  <2>. QED
    BY <1>1, <1>1a, <2>1, <2>2
<1>4. \A i \in 1..N : o[i] = o[i - 1] + Len(s[i])
  <2>. TAKE i \in 1..N
  <2>1. i - 1 \in 0..N /\ i \in 0..N
    BY <1>1
  <2>. QED
    BY <1>2, <2>1
<1>. DEFINE Bien(n) ==
       /\ \A i \in 1..n : \A k \in 1..Len(s[i]) : g[n][o[i - 1] + k] = s[i][k]
       /\ \A p \in 1..Len(g[n]) : \E i \in 1..n : p - o[i - 1] \in 1..Len(s[i])
       /\ \A i \in 0..n : o[i] <= o[n]
            B == {n \in Nat : n <= N => Bien(n)}
<1>. HIDE DEF o, Bien
<1>5. 0 \in B
  <2>1. Len(g[0]) = 0 /\ o[0] = 0
    BY <1>1a, <1>3, EmptySeq
  <2>2. Bien(0)
    BY <2>1 DEF Bien
  <2>. QED
    BY <2>2
<1>6. ASSUME NEW n \in Nat, n \in B
      PROVE  n + 1 \in B
  <2>. SUFFICES ASSUME n + 1 <= N
                PROVE  Bien(n + 1)
    OBVIOUS
  <2>1. Bien(n)
    BY <1>1, <1>6
  <2>2. n + 1 \in 1..N /\ (n + 1) - 1 = n /\ n \in 0..N /\ n + 1 \in 0..N
    BY <1>1
  <2>. DEFINE a == g[n]
              b == g[n + 1]
              t == s[n + 1]
              c == o[n]
  <2>3. /\ Len(b) = Len(a) + Len(t) /\ Len(a) \in Nat /\ Len(t) \in Nat
        /\ \A k \in 1..Len(b) : b[k] = IF k <= Len(a) THEN a[k] ELSE t[k - Len(a)]
        /\ c = Len(a) /\ o[n + 1] = Len(b)
    BY <1>1, <1>2, <2>2 DEF o
  <2>4. \A i \in 0..N : o[i] \in Nat
    BY <1>3
  <2>5. \A i \in 1..n : o[i] = o[i - 1] + Len(s[i]) /\ o[i] <= c /\ Len(s[i]) \in Nat
                        /\ o[i - 1] \in Nat
    <3>. TAKE i \in 1..n
    <3>1. i \in 1..N /\ i \in 0..n /\ i \in 0..N /\ i - 1 \in 0..N
      BY <1>1, <2>2
    <3>2. o[i] <= o[n]
      BY <2>1, <3>1 DEF Bien
    <3>. QED
      BY <1>1, <1>4, <2>4, <3>1, <3>2
  <2>1a. /\ \A i \in 1..n : \A k \in 1..Len(s[i]) : a[o[i - 1] + k] = s[i][k]
         /\ \A p \in 1..Len(a) : \E i \in 1..n : p - o[i - 1] \in 1..Len(s[i])
         /\ \A i \in 0..n : o[i] <= c
    BY <2>1 DEF Bien
  <2>. HIDE DEF a, b, t, c
  <2>6. \A i \in 1..(n + 1) : \A k \in 1..Len(s[i]) : b[o[i - 1] + k] = s[i][k]
    <3>. TAKE i \in 1..(n + 1)
    <3>1. CASE i = n + 1
      <4>1. ASSUME NEW k \in 1..Len(t)
            PROVE  b[c + k] = t[k]
        <5>1. /\ c + k \in 1..Len(b) /\ ~(c + k <= Len(a))
              /\ (c + k) - Len(a) = k
          BY <2>3
        <5>. QED
          BY <2>3, <5>1
      <4>2. o[i - 1] = c /\ s[i] = t
        BY <2>2, <3>1 DEF c, t
      <4>. QED
        BY <4>1, <4>2
    <3>2. CASE i \in 1..n
      <4>. TAKE k \in 1..Len(s[i])
      <4>1. a[o[i - 1] + k] = s[i][k]
        BY <2>1a, <3>2
      <4>2. o[i] = o[i - 1] + Len(s[i]) /\ o[i] <= Len(a) /\ o[i - 1] \in Nat
            /\ Len(s[i]) \in Nat
        BY <2>3, <2>5, <3>2
      <4>3. o[i - 1] + k \in 1..Len(a)
        BY <2>3, <4>2, SMTT(30)
      <4>. QED
        BY <2>3, <4>1, <4>3, SMTT(30)
    <3>. QED
      BY <3>1, <3>2
  <2>7. \A p \in 1..Len(b) : \E i \in 1..(n + 1) : p - o[i - 1] \in 1..Len(s[i])
    <3>. TAKE p \in 1..Len(b)
    <3>1. CASE p <= Len(a)
      BY <2>1a, <2>3, <3>1
    <3>2. CASE p > Len(a)
      <4>1. p - o[(n + 1) - 1] \in 1..Len(s[n + 1])
        BY <2>2, <2>3, <3>2 DEF c, t
      <4>. QED
        BY <4>1
    <3>. QED
      BY <2>3, <3>1, <3>2
  <2>8. \A i \in 0..(n + 1) : o[i] <= o[n + 1]
    <3>. TAKE i \in 0..(n + 1)
    <3>1. CASE i = n + 1
      BY <2>2, <2>4, <3>1
    <3>2. CASE i \in 0..n
      <4>1. o[i] <= c /\ o[i] \in Nat
        BY <1>1, <2>1a, <2>2, <2>4, <3>2
      <4>2. c <= o[n + 1] /\ c \in Nat /\ o[n + 1] \in Nat
        BY <2>3
      <4>. QED
        BY <4>1, <4>2
    <3>. QED
      BY <3>1, <3>2
  <2>. QED
    BY <2>6, <2>7, <2>8 DEF b, Bien
<1>7. Nat \subseteq B
  <2>. HIDE DEF B
  <2>. QED
    BY <1>5, <1>6, InduccionNat
<1>8. \A n \in 0..N : Bien(n)
  BY <1>1, <1>7
<1>9. Bien(N)
  BY <1>1, <1>8
<1>10. \A i, j \in 0..N : i <= j => o[i] <= o[j]
  BY <1>1, <1>8 DEF Bien
<1>11. /\ \A i \in 1..N : \A k \in 1..Len(s[i]) : F[o[i - 1] + k] = s[i][k]
       /\ \A p \in 1..Len(F) : \E i \in 1..N : p - o[i - 1] \in 1..Len(s[i])
  BY <1>1a, <1>9 DEF Bien
<1>. QED
  BY <1>3, <1>4, <1>10, <1>11 DEF N, F

(* Sequences of three give three times as many elements.                   *)
LEMMA FlattenDeTres ==
  ASSUME NEW S, NEW s \in Seq(Seq(S)), \A i \in 1..Len(s) : Len(s[i]) = 3
  PROVE  Len(FlattenSeq(s)) = 3 * Len(s)
<1>. PICK o \in [0..Len(s) -> Nat] :
       /\ o[0] = 0 /\ o[Len(s)] = Len(FlattenSeq(s))
       /\ \A i \in 1..Len(s) : o[i] = o[i - 1] + Len(s[i])
  BY FlattenEs
<1>. DEFINE N == Len(s)
            B == {n \in Nat : n <= N => o[n] = 3 * n}
<1>1. N \in Nat /\ o[0] = 0 /\ \A i \in 1..N : o[i] = o[i - 1] + 3
  <2>1. N \in Nat /\ o[0] = 0
    OBVIOUS
  <2>2. \A i \in 1..N : o[i] = o[i - 1] + Len(s[i]) /\ Len(s[i]) = 3
    OBVIOUS
  <2>. QED
    BY <2>1, <2>2
<1>. HIDE DEF N
<1>2. 0 \in B
  BY <1>1
<1>3. ASSUME NEW n \in Nat, n \in B
      PROVE  n + 1 \in B
  <2>. SUFFICES ASSUME n + 1 <= N
                PROVE  o[n + 1] = 3 * (n + 1)
    OBVIOUS
  <2>1. n + 1 \in 1..N /\ (n + 1) - 1 = n /\ o[n] = 3 * n
    BY <1>1, <1>3
  <2>. QED
    BY <1>1, <2>1
<1>. HIDE DEF B
<1>4. Nat \subseteq B
  BY <1>2, <1>3, InduccionNat
<1>5. o[N] = 3 * N
  BY <1>1, <1>4 DEF B
<1>. QED
  BY <1>5 DEF N

(* The elements at the indexes of I, joined: each once and in their order. *)
Escogidos(s, I) == FlattenSeq([i \in DOMAIN s |-> IF i \in I THEN <<s[i]>> ELSE <<>>])

(* D has what s has at the indexes of I, and in the same order.            *)
EnSuOrden(D, s, I) ==
  \E c \in [1..Len(D) -> 1..Len(s)] :
    /\ \A p \in DOMAIN c : c[p] \in I /\ D[p] = s[c[p]]
    /\ \A i \in 1..Len(s) : i \in I => \E p \in DOMAIN c : c[p] = i
    /\ \A p, q \in DOMAIN c : p < q => c[p] < c[q]

LEMMA EscogidosEs ==
  ASSUME NEW S, NEW s \in Seq(S), NEW I
  PROVE  Escogidos(s, I) \in Seq(S) /\ EnSuOrden(Escogidos(s, I), s, I)
<1>. DEFINE N == Len(s)
            t == [i \in DOMAIN s |-> IF i \in I THEN <<s[i]>> ELSE <<>>]
            F == Escogidos(s, I)
<1>1. N \in Nat /\ DOMAIN s = 1..N /\ \A i \in 1..N : s[i] \in S
  OBVIOUS
<1>2. t \in Seq(Seq(S)) /\ Len(t) = N
  <2>1. \A i \in 1..N : t[i] \in Seq(S)
    BY <1>1
  <2>2. t \in [1..N -> Seq(S)]
    BY <1>1, <2>1
  <2>. QED
    BY <1>1, <2>2
<1>3. \A i \in 1..N : /\ i \in I => Len(t[i]) = 1 /\ t[i][1] = s[i]
                      /\ i \notin I => Len(t[i]) = 0
  BY <1>1
<1>4. F = FlattenSeq(t)
  BY DEF Escogidos
<1>. HIDE DEF N, t, F
<1>5. PICK o \in [0..N -> Nat] :
       /\ o[0] = 0 /\ o[N] = Len(F)
       /\ F \in Seq(S)
       /\ \A i \in 1..N : o[i] = o[i - 1] + Len(t[i])
       /\ \A i \in 1..N : \A k \in 1..Len(t[i]) : F[o[i - 1] + k] = t[i][k]
       /\ \A p \in 1..Len(F) : \E i \in 1..N : p - o[i - 1] \in 1..Len(t[i])
       /\ \A i, j \in 0..N : i <= j => o[i] <= o[j]
  <2>. DEFINE FF == FlattenSeq(t)
  <2>1. \E o \in [0..Len(t) -> Nat] :
          /\ o[0] = 0 /\ o[Len(t)] = Len(FF)
          /\ FF \in Seq(S)
          /\ \A i \in 1..Len(t) : o[i] = o[i - 1] + Len(t[i])
          /\ \A i \in 1..Len(t) : \A k \in 1..Len(t[i]) : FF[o[i - 1] + k] = t[i][k]
          /\ \A p \in 1..Len(FF) : \E i \in 1..Len(t) : p - o[i - 1] \in 1..Len(t[i])
          /\ \A i, j \in 0..Len(t) : i <= j => o[i] <= o[j]
    BY <1>2, FlattenEs
  <2>. QED
    BY <1>2, <1>4, <2>1
<1>6. \A p \in 1..Len(F) : \E i \in 1..N : i \in I /\ p = o[i - 1] + 1
  <2>. TAKE p \in 1..Len(F)
  <2>1. PICK i \in 1..N : p - o[i - 1] \in 1..Len(t[i])
    BY <1>5
  <2>2. i - 1 \in 0..N
    BY <1>1
  <2>2a. o[i - 1] \in Nat
    BY <1>5, <2>2
  <2>3. i \in I
    BY <1>3, <2>1, <2>2a
  <2>4. Len(t[i]) = 1
    BY <1>3, <2>3
  <2>5. p = o[i - 1] + 1
    BY <2>1, <2>2a, <2>4
  <2>. QED
    BY <2>3, <2>5
<1>. DEFINE c == [p \in 1..Len(F) |-> CHOOSE i \in 1..N : i \in I /\ p = o[i - 1] + 1]
<1>7. \A p \in 1..Len(F) : c[p] \in 1..N /\ c[p] \in I /\ p = o[c[p] - 1] + 1
  BY <1>6
<1>8. c \in [1..Len(F) -> 1..N]
  BY <1>7
<1>9. DOMAIN c = 1..Len(F)
  OBVIOUS
<1>. HIDE DEF c
<1>10. \A p \in 1..Len(F) : F[p] = s[c[p]]
  <2>. TAKE p \in 1..Len(F)
  <2>1. c[p] \in 1..N /\ Len(t[c[p]]) = 1 /\ t[c[p]][1] = s[c[p]] /\ p = o[c[p] - 1] + 1
    BY <1>3, <1>7
  <2>1a. 1 \in 1..Len(t[c[p]])
    BY <2>1
  <2>2. F[o[c[p] - 1] + 1] = t[c[p]][1]
    BY <1>5, <2>1, <2>1a
  <2>. QED
    BY <2>1, <2>2
<1>11. \A i \in 1..N : i \in I => \E p \in 1..Len(F) : c[p] = i
  <2>. SUFFICES ASSUME NEW i \in 1..N, i \in I
                PROVE  \E p \in 1..Len(F) : c[p] = i
    OBVIOUS
  <2>1. i \in 0..N /\ i - 1 \in 0..N /\ N \in 0..N /\ i <= N
    BY <1>1
  <2>2. /\ o[i] = o[i - 1] + 1 /\ o[i] <= Len(F) /\ o[i - 1] \in Nat /\ Len(F) \in Nat
    BY <1>3, <1>5, <2>1
  <2>. DEFINE p == o[i - 1] + 1
  <2>3. p \in 1..Len(F)
    BY <2>2
  <2>. DEFINE k == c[p]
  <2>4. k \in 1..N /\ k \in I /\ o[k - 1] = o[i - 1]
    <3>1. k \in 1..N /\ k \in I /\ p = o[k - 1] + 1
      BY <1>7, <2>3
    <3>. HIDE DEF k
    <3>2. k - 1 \in 0..N /\ o[k - 1] \in Nat
      BY <1>1, <1>5, <3>1
    <3>. QED
      BY <2>2, <3>1, <3>2
  <2>. HIDE DEF k
  <2>5. k \in 0..N /\ k - 1 \in 0..N /\ o[k] = o[k - 1] + 1 /\ o[k - 1] \in Nat
    <3>1. k \in 0..N /\ k - 1 \in 0..N
      BY <1>1, <2>4
    <3>2. o[k] = o[k - 1] + Len(t[k]) /\ Len(t[k]) = 1
      BY <1>3, <1>5, <2>4
    <3>. QED
      BY <1>5, <3>1, <3>2
  <2>6. ~(k <= i - 1) /\ ~(i <= k - 1)
    BY <1>5, <2>1, <2>2, <2>4, <2>5, SMTT(30)
  <2>7. k = i
    BY <2>1, <2>5, <2>6
  <2>. QED
    BY <2>3, <2>7 DEF k
<1>12. \A p, q \in 1..Len(F) : p < q => c[p] < c[q]
  <2>1. ASSUME NEW p \in 1..Len(F), NEW q \in 1..Len(F), NEW a \in 1..N, NEW b \in 1..N,
               p = o[a - 1] + 1, q = o[b - 1] + 1, p < q
        PROVE  a < b
    <3>1. a - 1 \in 0..N /\ b - 1 \in 0..N
      BY <1>1
    <3>2. o[a - 1] \in Nat /\ o[b - 1] \in Nat
      BY <1>5, <3>1
    <3>3. ~(b - 1 <= a - 1)
      BY <1>5, <2>1, <3>1, <3>2, SMTT(30)
    <3>. QED
      BY <1>1, <3>3
  <2>. QED
    BY <1>7, <2>1
<1>. QED
  <2>1. EnSuOrden(F, s, I)
    BY <1>7, <1>8, <1>9, <1>10, <1>11, <1>12 DEF EnSuOrden, N
  <2>. QED
    BY <1>5, <2>1 DEF F

(* When antes[i] are those that come before i, in an order of all of them, *)
(* choosing them by how many come before puts them in that order.          *)
EsOrden(n, antes) ==
  /\ \A i \in 1..n : i \notin antes[i]
  /\ \A i, j \in 1..n : i # j => i \in antes[j] \/ j \in antes[i]
  /\ \A i, j \in 1..n : j \in antes[i] => antes[j] \subseteq antes[i]
Puestos(n, antes, r) ==
  /\ \A k \in 1..n : r[k] = CHOOSE a \in 1..n : Cardinality(antes[a]) = k - 1
  /\ \A i \in 1..n : \E k \in 1..n : r[k] = i
  /\ \A k, l \in 1..n : k < l => r[k] \in antes[r[l]]
  /\ \A k, l \in 1..n : r[k] = r[l] => k = l

LEMMA PuestosEs ==
  ASSUME NEW n \in Nat, NEW antes \in [1..n -> SUBSET (1..n)], EsOrden(n, antes)
  PROVE  \E r \in [1..n -> 1..n] : Puestos(n, antes, r)
<1>0. /\ \A i \in 1..n : i \notin antes[i]
      /\ \A i, j \in 1..n : i # j => i \in antes[j] \/ j \in antes[i]
      /\ \A i, j \in 1..n : j \in antes[i] => antes[j] \subseteq antes[i]
  BY DEF EsOrden
<1>. DEFINE C(i) == Cardinality(antes[i])
<1>1. IsFiniteSet(1..n) /\ Cardinality(1..n) = n
  BY FS_Interval
<1>2. \A i \in 1..n : /\ IsFiniteSet(antes[i]) /\ C(i) \in Nat
                      /\ C(i) < n
  <2>. TAKE i \in 1..n
  <2>1. antes[i] \subseteq (1..n) \ {i}
    BY <1>0
  <2>2. IsFiniteSet((1..n) \ {i}) /\ Cardinality((1..n) \ {i}) = n - 1
    BY <1>1, FS_RemoveElement
  <2>. QED
    BY <2>1, <2>2, FS_Subset, FS_CardinalityType
<1>3. ASSUME NEW i \in 1..n, NEW j \in 1..n, i \in antes[j]
      PROVE  C(i) < C(j)
  <2>1. antes[i] \cup {i} \subseteq antes[j] /\ i \notin antes[i]
    BY <1>0, <1>3
  <2>2. Cardinality(antes[i] \cup {i}) = C(i) + 1 /\ IsFiniteSet(antes[i] \cup {i})
    BY <1>2, <2>1, FS_AddElement
  <2>3. Cardinality(antes[i] \cup {i}) <= C(j)
    BY <1>2, <2>1, FS_Subset
  <2>. QED
    BY <1>2, <2>2, <2>3
<1>. DEFINE f == [i \in 1..n |-> C(i) + 1]
<1>4. f \in [1..n -> 1..n] /\ \A i, j \in 1..n : f[i] = f[j] => i = j
  <2>1. \A i \in 1..n : C(i) + 1 \in 1..n
    BY <1>2
  <2>2. \A i, j \in 1..n : C(i) = C(j) => i = j
    <3>. HIDE DEF C
    <3>. QED
      BY <1>0, <1>2, <1>3
  <2>3. \A i \in 1..n : C(i) \in Nat
    BY <1>2
  <2>. HIDE DEF C
  <2>4. \A i, j \in 1..n : C(i) + 1 = C(j) + 1 => i = j
    BY <2>2, <2>3
  <2>. QED
    BY <2>1, <2>4
<1>5. \A k \in 1..n : \E i \in 1..n : f[i] = k
  <2>1. f \in Injection(1..n, 1..n)
    BY <1>4 DEF Injection, IsInjective
  <2>2. f \in Surjection(1..n, 1..n)
    BY <1>1, <2>1, FS_Injection
  <2>. QED
    BY <2>2 DEF Surjection
<1>. DEFINE r == [k \in 1..n |-> CHOOSE a \in 1..n : Cardinality(antes[a]) = k - 1]
<1>6. \A k \in 1..n : r[k] \in 1..n /\ C(r[k]) = k - 1
  <2>. TAKE k \in 1..n
  <2>1. PICK i \in 1..n : C(i) + 1 = k
    BY <1>5
  <2>2. C(i) = k - 1
    BY <1>2, <2>1
  <2>. QED
    BY <2>2
<1>7. r \in [1..n -> 1..n]
  BY <1>6
<1>8. \A k \in 1..n : r[k] = CHOOSE a \in 1..n : Cardinality(antes[a]) = k - 1
  OBVIOUS
<1>. HIDE DEF r
<1>9. \A i \in 1..n : \E k \in 1..n : r[k] = i
  <2>. TAKE i \in 1..n
  <2>1. f[i] \in 1..n /\ f[i] = C(i) + 1
    BY <1>4
  <2>2. C(r[f[i]]) = C(i) /\ r[f[i]] \in 1..n
    BY <1>2, <1>6, <2>1
  <2>3. f[r[f[i]]] = f[i]
    BY <2>2
  <2>. QED
    BY <1>4, <2>1, <2>2, <2>3
<1>. HIDE DEF C
<1>10. \A k, l \in 1..n : k < l => r[k] \in antes[r[l]]
  <2>. SUFFICES ASSUME NEW k \in 1..n, NEW l \in 1..n, k < l
                PROVE  r[k] \in antes[r[l]]
    OBVIOUS
  <2>1. r[k] \in 1..n /\ r[l] \in 1..n /\ C(r[k]) < C(r[l])
    BY <1>6
  <2>2. ~(r[l] \in antes[r[k]]) /\ r[l] # r[k]
    BY <1>2, <1>3, <2>1
  <2>. QED
    BY <1>0, <2>1, <2>2
<1>11. \A k, l \in 1..n : r[k] = r[l] => k = l
  BY <1>6
<1>. QED
  BY <1>7, <1>8, <1>9, <1>10, <1>11 DEF Puestos
=============================================================================
