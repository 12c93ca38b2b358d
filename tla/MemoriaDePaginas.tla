--------------------------- MODULE MemoriaDePaginas ---------------------------
(***************************************************************************)
(* What MUSE promises to one program: a memory of pages, each of which holds *)
(* what was last copied to it, with no frames, no swap and no clock.         *)
(***************************************************************************)
CONSTANTS Programas, Paginas, Contenidos, Archivo, Nada

VARIABLES contenido, leido

memoriaVars == <<contenido, leido>>

Existen == {g \in Paginas : contenido[g] # Nada}

MemoriaInit ==
  /\ contenido = [g \in Paginas |-> Nada]
  /\ leido = [p \in Programas |-> Nada]

(* An allocation, whose pages hold anything. *)
Crear(gs) ==
  /\ gs \cap Existen = {}
  /\ \E f \in [gs -> Contenidos] :
       contenido' = [g \in Paginas |-> IF g \in gs THEN f[g] ELSE contenido[g]]
  /\ UNCHANGED leido

Mapear(g) ==
  /\ g \notin Existen
  /\ contenido' = [contenido EXCEPT ![g] = Archivo]
  /\ \E p \in Programas : leido' = [leido EXCEPT ![p] = Nada]

Escribir(g) ==
  /\ g \in Existen
  /\ \E v \in Contenidos : contenido' = [contenido EXCEPT ![g] = v]
  /\ UNCHANGED leido

Leer(p, g) ==
  /\ g \in Existen
  /\ leido' = [leido EXCEPT ![p] = contenido[g]]
  /\ UNCHANGED contenido

Borrar(gs) ==
  /\ contenido' = [g \in Paginas |-> IF g \in gs THEN Nada ELSE contenido[g]]
  /\ \/ UNCHANGED leido
     \/ \E p \in Programas : leido' = [leido EXCEPT ![p] = Nada]

(* The next request of a program. *)
Pedir(p) == leido' = [leido EXCEPT ![p] = Nada] /\ UNCHANGED contenido

MemoriaNext ==
  \/ \E gs \in SUBSET Paginas : Crear(gs) \/ Borrar(gs)
  \/ \E g \in Paginas : Mapear(g) \/ Escribir(g)
  \/ \E p \in Programas : Pedir(p) \/ \E g \in Paginas : Leer(p, g)

MemoriaSpec == MemoriaInit /\ [][MemoriaNext]_memoriaVars

=============================================================================
