---------------------------- MODULE MuseSegmentos ----------------------------
(***************************************************************************)
(* The segments of the programs of MUSE (memoria/muse/src/muse.c): where in  *)
(* its addresses each program has a heap or a mapped file, what room is      *)
(* left, which mappings there are, and the mutexes its handlers share.       *)
(* Frames and swap are in MuseMarcos; here a page is there, or was never      *)
(* loaded.                                                                  *)
(***************************************************************************)
EXTENDS Integers, Sequences, SequencesExt, FiniteSetsExt

CONSTANTS
  Programas,  \* the clients, each with its ocupate_de_este thread
  TamPag,     \* configuracion->tam_pag
  TamMeta,    \* sizeof(heap_metadata)
  Paginas,    \* pages of memory and swap at start
  Palabra,    \* values of a uint32_t
  Tamanios,   \* what a program asks muse_alloc for
  Archivos,   \* the files that can be mapped
  Usa,        \* the files each program maps, as [archivo, compartido]
  Largo,      \* the length each is mapped with, by everybody
  LiberadasMax, \* bound: what paginas_liberadas may grow to
  Listas,     \* bound: lists of pages of mappings made in all
  Trozos,     \* the pieces of a mapping a program reads and writes, as <<from, length>>
  Valores,    \* what a program may copy to a mapping
  Cuidadosos, \* the programs that ask only for what MUSE can serve
  Repiten,    \* the programs that may map again a file they have mapped
  Nada        \* NULL

ASSUME SegmentosSupuesto ==
  /\ TamMeta \in Nat \ {0} /\ TamPag \in Nat /\ TamPag > TamMeta
  /\ Paginas \in Nat /\ Palabra \in Nat /\ Palabra > TamPag * Paginas
  /\ Tamanios \in [Programas -> SUBSET (Nat \ {0})]
  /\ Usa \in [Programas -> SUBSET [archivo : Archivos, compartido : BOOLEAN]]
  /\ Largo \in [Archivos -> Nat \ {0}]
  /\ LiberadasMax \in Nat /\ Listas \in Nat /\ Trozos \subseteq Nat \X (Nat \ {0})
  /\ Cuidadosos \subseteq Programas /\ Repiten \subseteq Programas
  /\ Nada \notin Programas \cup Valores \cup UNION {Usa[p] : p \in Programas}

VARIABLES
  lugar,          \* lugar_disponible, in bytes
  tabla,          \* tabla_de_segmentos of each program
  mapeos,         \* tabla_de_mapeo
  hojas,          \* the lists of pages of the mappings
  archivo,        \* what the files hold
  mutexProgramas, \* who holds mutex_tabla_de_programas between two steps
  mutexMapeo,     \* who holds mutex_tabla_de_mapeo between two steps
  dado,           \* what each program was given and did not give back
  pc,             \* where each handler is
  loc,            \* its local variables
  caido           \* the server died, or did what C does not define

segmentosVars == <<lugar, tabla, mapeos, hojas, archivo, mutexProgramas, mutexMapeo, dado, pc,
                   loc, caido>>
compartidos == <<mapeos, hojas, archivo>>
candados    == <<mutexProgramas, mutexMapeo>>

LocalVacio == [clase |-> Nada, t |-> 0, n |-> 0, seg |-> 0, usa |-> Nada, base |-> 0,
               trozo |-> <<0, 0>>, valor |-> Nada, hoja |-> 0, hojaMarcada |-> FALSE,
               buffer |-> <<>>, lista |-> 0]

SegmentosInit ==
  /\ lugar = Paginas * TamPag
  /\ tabla = [p \in Programas |-> <<>>] /\ mapeos = <<>>
  /\ hojas = [l \in 1..Listas |-> <<>>]
  /\ archivo = [a \in Archivos |-> [i \in 1..Largo[a] |-> ToString(i)]]
  /\ mutexProgramas = Nada /\ mutexMapeo = Nada
  /\ dado = [p \in Programas |-> {}]
  /\ pc = [p \in Programas |-> "nuevo"] /\ loc = [p \in Programas |-> LocalVacio]
  /\ caido = FALSE

Esta(p, punto)  == ~caido /\ pc[p] = punto
Ir(p, punto, l) == pc' = [pc EXCEPT ![p] = punto] /\ loc' = [loc EXCEPT ![p] = l]
Responder(p)    == Ir(p, "libre", LocalVacio)

-----------------------------------------------------------------------------
(* traer_tabla_de_segmentos, and the searches of muse_init and muse_close: a section *)
(* of mutex_tabla_de_programas.                                                  *)
SeccionProgramas == mutexProgramas = Nada
SeccionMapeo     == mutexMapeo = Nada

Iniciar(p) ==
  /\ Esta(p, "nuevo") /\ SeccionProgramas
  /\ Responder(p)
  /\ UNCHANGED <<lugar, tabla, compartidos, candados, dado, caido>>

(* paginas_necesarias_para_tamanio, over a uint32_t. *)
SinSigno(x) == x % Palabra
Hojas(x) == SinSigno(x) \div TamPag + (IF SinSigno(x) % TamPag > 0 THEN 1 ELSE 0)

PaginasDe(s) == IF s.mmapeado THEN Len(hojas[s.lista]) ELSE s.paginas

Liberadas(s) == IF s.mmapeado THEN 0 ELSE s.liberadas
BaseNueva_SinLiberadas(p) ==
  IF tabla[p] = <<>> THEN 0 ELSE Last(tabla[p]).base + PaginasDe(Last(tabla[p])) * TamPag
(* base_logica_segmento_nuevo *)
BaseNueva(p) ==
  IF tabla[p] = <<>> THEN 0
  ELSE LET s == Last(tabla[p]) IN s.base + (PaginasDe(s) + Liberadas(s)) * TamPag

(* traer_segmento_de_direccion: 0 when there is none. *)
SegDe(p, dir) == SelectInSeq(tabla[p], LAMBDA s : SinSigno(dir - s.base) < s.tamanio)

(* A client that dies, or that libmuse kills with a signal, leaves everything as it  *)
(* is: the handler closes the socket.                                            *)
Morir(p) ==
  /\ Esta(p, "libre")
  /\ Ir(p, "muerto", LocalVacio)
  /\ UNCHANGED <<lugar, tabla, compartidos, candados, dado, caido>>

=============================================================================
