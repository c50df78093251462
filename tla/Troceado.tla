------------------------------ MODULE Troceado ------------------------------
(***************************************************************************)
(* How the MDFS cuts a text file into blocks, recorrerArchivo, and puts it *)
(* together again, recuperarArchivo (filesystem/src/filesystemdev.c).      *)
(*                                                                         *)
(* A file is a sequence of bytes: Letra, or the end of a line.  Each block *)
(* of it has Copias copies, on nodes that may be gone, or close the        *)
(* connection half way.  That three copies are made is module MDFS.        *)
(***************************************************************************)
EXTENDS Integers, SequencesExt, FiniteSets

CONSTANTS
    Tamanio,    \* TAMANIO_BLOQUE
    Copias,     \* the copies of a block
    Textos      \* the files that are uploaded

Salto == 0
Letra == 1

ASSUME TroceadoAssumption ==
    /\ Tamanio \in Nat \ {0, 1} /\ Copias \in Nat \ {0}
    /\ Textos \subseteq Seq({Salto, Letra})

VARIABLES
    archivo,    \* the local file
    leido,      \* its position
    feof,       \* a read came back short
    bloques,    \* the blocks sent
    copia,      \* l of recuperarArchivo; 0 before it starts
    recuperado, \* the blocks written to the file that is put together
    vacios,     \* which of them came from a node that closed without a word
    estado      \* what the console is doing, or how it ended

trozo == <<archivo, leido, feof, bloques>>
vuelta == <<copia, recuperado, vacios>>
varsTroceado == <<trozo, vuelta, estado>>

InitTroceado ==
    /\ archivo \in Textos
    /\ leido = 0 /\ feof = FALSE /\ bloques = <<>>
    /\ copia = 0 /\ recuperado = <<>> /\ vacios = {}
    /\ estado = "sube"

Menor(x, y) == IF x < y THEN x ELSE y
Une(trozos) == FlattenSeq(trozos)

-----------------------------------------------------------------------------
(* recorrerArchivo *)

\* Where the last line of the buffer ends, 0 when none does.  The scan comes
\* from the end and stops before the first byte.
Corte(buffer) ==
    LET k == SelectLastInSeq(buffer, LAMBDA b : b = Salto)
    IN  IF k > 1 THEN k ELSE 0

\* Mistake: the position is one byte too far.
VuelveDeMas(n, k) == IF leido + n = Len(archivo) THEN leido + n ELSE leido + k + 1
\* After a block of k of the n bytes read: back to where the block ended, unless
\* the file was read to its end.
Vuelve(n, k) == IF leido + n = Len(archivo) THEN leido + n ELSE leido + k

\* One turn of the loop.  A buffer without an end of line is left behind.
LeeBuffer ==
    LET n == Menor(Tamanio, Len(archivo) - leido)
        buffer == SubSeq(archivo, leido + 1, leido + n)
        k == Corte(buffer)
    IN  /\ estado = "sube" /\ ~feof
        /\ feof' = (n < Tamanio)
        /\ \/ /\ k = 0
              /\ leido' = leido + n
              /\ UNCHANGED bloques
           \/ /\ k > 0
              /\ leido' = Vuelve(n, k)
              /\ bloques' = Append(bloques, SubSeq(buffer, 1, k))
        /\ UNCHANGED <<archivo, vuelta, estado>>

-----------------------------------------------------------------------------
(* recuperarArchivo *)

Recupera ==
    /\ estado = "sube" /\ feof
    /\ estado' = "recupera"
    /\ copia' = 1
    /\ UNCHANGED <<trozo, recuperado, vacios>>

Falta == Len(recuperado) < Len(bloques)
Pide == estado = "recupera" /\ Falta /\ copia <= Copias

Escribe(bloque) ==
    /\ recuperado' = Append(recuperado, bloque)
    /\ copia' = 1

\* Mistake: what the node gave is taken for the block, whatever it answered.
TomaLoQueHaya == Escribe(<<>>)
\* The node of this copy is not in the list, not enabled, or does not answer:
\* the next copy.
OtraCopia ==
    /\ copia' = copia + 1
    /\ UNCHANGED recuperado

NoResponde ==
    /\ Pide
    /\ OtraCopia
    /\ UNCHANGED <<trozo, vacios, estado>>

Responde ==
    /\ Pide
    /\ Escribe(bloques[Len(recuperado) + 1])
    /\ UNCHANGED <<trozo, vacios, estado>>

\* The node closes before its first answer: the size read is 0, and the empty
\* block is taken for good.
Cierra ==
    /\ Pide
    /\ Escribe(<<>>)
    /\ vacios' = vacios \cup {Len(recuperado) + 1}
    /\ UNCHANGED <<trozo, estado>>

\* The node closes half way: recv answers 0 for ever.
Corta ==
    /\ Pide
    /\ estado' = "cuelga"
    /\ UNCHANGED <<trozo, vuelta>>

\* No copy is left: the comparison of l with the size of the list lets one more
\* through, and list_get answers NULL.
SinCopias ==
    /\ estado = "recupera" /\ Falta /\ copia > Copias
    /\ estado' = "cae"
    /\ UNCHANGED <<trozo, vuelta>>

\* The end frees the last buffer: without blocks, a pointer never assigned.
Termina ==
    /\ estado = "recupera" /\ ~Falta
    /\ estado' \in {"recuperado"} \cup (IF bloques = <<>> THEN {"cae"} ELSE {})
    /\ UNCHANGED <<trozo, vuelta>>

NextTroceado ==
    \/ LeeBuffer
    \/ Recupera \/ NoResponde \/ Responde \/ Cierra \/ Corta
    \/ SinCopias \/ Termina

-----------------------------------------------------------------------------
(* Properties *)

\* The file up to its last end of line, and its lines: what each has before it.
Completas(texto) ==
    SubSeq(texto, 1, SelectLastInSeq(texto, LAMBDA b : b = Salto))

Lineas(texto) ==
    LET fin == SelectSeq([i \in DOMAIN texto |-> i], LAMBDA i : texto[i] = Salto)
    IN  [i \in DOMAIN fin |-> fin[i] - (IF i = 1 THEN 0 ELSE fin[i - 1]) - 1]

\* No line is empty, and every one fits in a block with its end.
LineasCaben ==
    \A n \in Range(Lineas(archivo)) : n > 0 /\ n < Tamanio

\* Of any file, no block is larger than TAMANIO_BLOQUE and each ends where a line
\* does.
BloqueBueno(b) == Len(b) \in 1 .. Tamanio /\ b[Len(b)] = Salto
BloquesBuenos == \A i \in DOMAIN bloques : BloqueBueno(bloques[i])

\* A file whose lines are neither empty nor longer than a block is cut without
\* losing, repeating or splitting any: the blocks joined are the file up to its
\* last end of line.  (An empty line alone in a read is lost, since the scan of
\* recorrerArchivo does not look at the first byte, and so is the text after the
\* last end of line.)
TroceadoCompleto ==
    /\ feof /\ LineasCaben => Une(bloques) = Completas(archivo)
    /\ BloquesBuenos

\* A recovery that ends gives back the file that was uploaded, block by block in
\* its order, whichever copies answered: only a node that closed the connection
\* without a word leaves a gap, and says nothing of it.
RecuperadoIgual ==
    estado = "recuperado" =>
        /\ Len(recuperado) = Len(bloques)
        /\ \A i \in DOMAIN bloques : i \notin vacios => recuperado[i] = bloques[i]
=============================================================================
