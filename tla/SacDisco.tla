------------------------------- MODULE SacDisco -------------------------------
(***************************************************************************)
(* The disk of SAC (filesystem/sac-server/src/sac-server.c) and what its   *)
(* handlers share: the table of nodes and the blocks, which are the disk   *)
(* file itself mapped in memory; the dictionary of paths and the copy of   *)
(* the bitmap, which live in the memory of the process; and how they are   *)
(* formatted and loaded.                                                   *)
(*                                                                         *)
(* A path is the sequence of its names, << >> is "/", and a name is a      *)
(* non-empty sequence of letters, 0 being the slash, so that               *)
(* string_starts_with and string_contains have their meaning.  A block is  *)
(* a row of Celdas cells: bytes of a file, or block numbers when a node    *)
(* points to it.                                                           *)
(*                                                                         *)
(* A definition whose name ends in _Something right before the definition  *)
(* it is named after is a wrong version of it, which the properties must   *)
(* tell from the right one; no specification uses it.                      *)
(***************************************************************************)
EXTENDS Integers, FiniteSets, SequencesExt

CONSTANTS
  Conexiones, \* the clients, each with its atender_cliente thread
  Nodos,      \* nodes of the table (1024)
  Punteros,   \* punteros_indirectos of a node (1000)
  Celdas,     \* cells of a block (4096 bytes, or 1024 pointers)
  TamBitmap,  \* tam_de_bitmap, in blocks
  Bits,       \* bits dame_un_bloque_libre looks at (tam_de_bitmap * 4096)
  Formato,    \* the table and the blocks when the server is first started
  Nada        \* no request, no node

PrimerDato == 1 + TamBitmap + Nodos \* header, bitmap and table come before
Datos      == PrimerDato..(Bits - 1)
Indices    == 0..(Nodos - 1)
Vacio      == [j \in 0..(Celdas - 1) |-> 0]

ASSUME SacSupuesto ==
  /\ Nodos \in Nat \ {0} /\ Punteros \in Nat \ {0} /\ Celdas \in Nat \ {0}
  /\ TamBitmap \in Nat \ {0}
  /\ Bits \in Nat /\ Bits >= PrimerDato
  /\ Nada \notin Indices

VARIABLES
  tabla,      \* tabla_de_nodos
  disco,      \* the blocks of data
  dicc,       \* diccionario_de_path
  bitarray,   \* the set bits of the bitmap in memory
  mutexDicc,  \* who holds s_diccionario across several steps
  caido       \* the server died dereferencing -1

enDisco   == <<tabla, disco>>
enMemoria == <<dicc, bitarray, mutexDicc>>
discoVars == <<enDisco, enMemoria, caido>>

(* bloque_padre of the children of a node: its block, or 0 for the root. *)
BloqueDe(i) == IF i = 0 THEN 0 ELSE i + 1 + TamBitmap

(* The directory a bloque_padre stands for: dame_mi_path_entero_global. *)
PadreDe(bloque) == IF bloque - 1 - TamBitmap < 0 THEN 0 ELSE bloque - 1 - TamBitmap

(* escribir_tabla_de_nodos *)
NodoVacio == [estado |-> 0, nombre |-> <<>>, padre |-> -1, tamanio |-> 0,
              punteros |-> [i \in 0..(Punteros - 1) |-> 0]]
Barra     == <<0>>
Raiz      == [NodoVacio EXCEPT !.estado = 2, !.nombre = Barra, !.padre = 0]
TablaVacia == [i \in Indices |-> IF i = 0 THEN Raiz ELSE NodoVacio]

(* init_set_bitmap: only the blocks up to the table are taken.  What is      *)
(* written to the disk is this bitmap and never a later one, so it is also   *)
(* what levantar_bit_array loads.                                            *)
BitmapInicial == 0..(PrimerDato - 1)

-----------------------------------------------------------------------------
(* dame_mi_path_entero_global: the path of a node by the names of the table, *)
(* as the nodes that reach the root in k steps.                              *)
SoloRaiz == [i \in {0} |-> <<>>]
ConHijos(t, cerca) ==
  [j \in DOMAIN cerca \cup {j \in DOMAIN t : PadreDe(t[j].padre) \in DOMAIN cerca} |->
     IF j \in DOMAIN cerca THEN cerca[j] ELSE Append(cerca[PadreDe(t[j].padre)], t[j].nombre)]
Caminos(t) ==
  LET desde[k \in Nat] == IF k = 0 THEN SoloRaiz ELSE ConHijos(t, desde[k - 1])
  IN desde[Nodos]

(* levantar_diccionario: for each i below 1024, the used nodes whose          *)
(* bloque_padre is i; a later node takes the path of an earlier one.          *)
Levantados(t) == {j \in DOMAIN t : t[j].estado # 0 /\ t[j].padre \in 0..(Nodos - 1)}
Diccionario(t) ==
  LET camino == Caminos(t)
      Despues(j, k) == t[j].padre > t[k].padre \/ (t[j].padre = t[k].padre /\ j >= k)
  IN [p \in {camino[j] : j \in Levantados(t)} |->
        LET son == {j \in Levantados(t) : camino[j] = p}
        IN CHOOSE j \in son : \A k \in son : Despues(j, k)]

(* init_fs and load_fs *)
DiscoInit ==
  /\ tabla = Formato.tabla
  /\ disco = Formato.disco
  /\ dicc = Diccionario(tabla)
  /\ bitarray = BitmapInicial
  /\ mutexDicc = Nada
  /\ caido = FALSE

(* The server is started again on the same disk. *)
Levantar ==
  /\ dicc' = Diccionario(tabla)
  /\ bitarray' = BitmapInicial
  /\ mutexDicc' = Nada
  /\ caido' = FALSE
  /\ UNCHANGED enDisco

-----------------------------------------------------------------------------
(* dictionary_get, with its NULL taken as the node 0. *)
Saca(ruta) == IF ruta \in DOMAIN dicc THEN dicc[ruta] ELSE 0
Sin(d, ruta) == [r \in DOMAIN d \ {ruta} |-> d[r]]
Pone(d, ruta, i) == [r \in DOMAIN d \cup {ruta} |-> IF r = ruta THEN i ELSE d[r]]

(* A section of s_diccionario can be entered. *)
DiccLibre == mutexDicc = Nada

(* dame_un_bloque_libre *)
Libres == (0..(Bits - 1)) \ bitarray
BloqueLibre == Min(Libres)

(* A node points to blocks of pointers, and these to blocks of data; 0 is no  *)
(* block.  Where an offset is: pointer of the node, pointer of the block, byte. *)
IndicePIS(n) == n \div (Celdas * Celdas)
IndiceBloque(n) == (n % (Celdas * Celdas)) \div Celdas
IndiceByte(n) == (n % (Celdas * Celdas)) % Celdas

BPD(i, pis) == tabla[i].punteros[pis]
BloqueDato(i, pis, j) == IF BPD(i, pis) = 0 THEN 0 ELSE disco[BPD(i, pis)][j]

DiscoTypeOK ==
  /\ tabla \in [Indices -> [estado : 0..2, nombre : Seq(Nat), padre : Int, tamanio : Nat,
                            punteros : [0..(Punteros - 1) -> {0} \cup Datos]]]
  /\ disco \in [Datos -> [0..(Celdas - 1) -> Nat]]
  /\ DOMAIN dicc \subseteq Seq(Seq(Nat)) /\ Range(dicc) \subseteq Indices
  /\ bitarray \subseteq 0..(Bits - 1)
  /\ mutexDicc \in Conexiones \cup {Nada}
  /\ caido \in BOOLEAN
=============================================================================
