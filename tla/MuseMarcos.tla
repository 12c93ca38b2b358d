------------------------------ MODULE MuseMarcos ------------------------------
(***************************************************************************)
(* The frames of MUSE (memoria/muse/src/muse.c): the pages of the programs, *)
(* which are in a frame or in the swap, the two bit arrays, the modified    *)
(* clock, and the requests as they use them.  Each program has a handler    *)
(* thread; an action is a section of mutex_bitarray or of                   *)
(* mutex_tabla_de_programas, or a piece between two of them that touches    *)
(* what the other handlers use.                                             *)
(*                                                                         *)
(* What a page holds is one value: where a byte is in a page, and which     *)
(* pages a request needs, is the layout of the segments.                    *)
(***************************************************************************)
EXTENDS Integers, Sequences, SequencesExt, FiniteSetsExt

CONSTANTS
  Programas, \* the clients, each with its ocupate_de_este thread
  Marcos,    \* CANT_PAGINAS_MEMORIA
  Ranuras,   \* CANT_PAGINAS_MEMORIA_VIRTUAL
  PagsMax,   \* bound: pages a program may have at once
  SegsMax,   \* bound: segments a program may have at once
  Altas,     \* the allocations that need pages, as [forma, n]
  Valores,   \* what a program may copy to a page
  Archivo,   \* what the mapped file holds
  Nada       \* NULL

IdMarcos   == 0..(Marcos - 1)
IdRanuras  == 0..(Ranuras - 1)
IdPaginas  == Programas \X (0..(PagsMax - 1))
Contenidos == Valores \cup {Archivo}

(* What an allocation does to get its pages: make a segment, add to one, or give a *)
(* page back to one that muse_free left with none.                                *)
Formas == {"segmento", "extension", "rearmado"}

ASSUME MuseSupuesto ==
  /\ Marcos \in Nat \ {0} /\ Ranuras \in Nat /\ PagsMax \in Nat /\ SegsMax \in Nat
  /\ Altas \subseteq [forma : Formas, n : Nat \ {0}]
  /\ Valores # {}
  /\ Nada \notin IdMarcos \cup IdRanuras \cup Contenidos \cup IdPaginas \cup Formas

VARIABLES
  bitMarco, \* bitarray_memoria
  ranuras,  \* the occupied bits of bitarray_memoria_virtual
  puntero,  \* posicion_puntero_clock
  upcm,     \* what each frame holds
  swap,     \* what each slot of the swap holds
  pagina,   \* presencia, bit_marco and bit_swap of each page
  tabla,    \* the tabla_de_segmentos of each program
  lugar,    \* lugar_disponible, in pages
  leido,    \* what the muse_get of each program was answered
  pc,       \* where each handler is
  loc,      \* its local variables
  caido     \* the server died dereferencing NULL

museVars == <<bitMarco, ranuras, puntero, upcm, swap, pagina, tabla, lugar, leido, pc, loc, caido>>
disco    == <<upcm, swap>>
bits     == <<bitMarco, ranuras, puntero>>
cuentas  == <<tabla, lugar, leido>>

PaginaVacia == [presencia |-> FALSE, marco |-> Nada, ranura |-> Nada]
LocalVacio  == [forma |-> Nada, n |-> 0, i |-> 0, seg |-> 0, nuevas |-> <<>>, pag |-> Nada,
                valor |-> Nada, traido |-> Nada, marco |-> Nada, ranura |-> Nada,
                victima |-> Nada, origen |-> Nada, busca |-> 0, vuelta |-> "libre",
                luego |-> "libre"]

MuseInit ==
  /\ bitMarco = [m \in IdMarcos |-> [ocupado |-> FALSE, uso |-> FALSE, modificado |-> FALSE]]
  /\ ranuras = {} /\ puntero = 0
  /\ \E v \in Valores :
       upcm = [m \in IdMarcos |-> v] /\ swap = [r \in IdRanuras |-> v]
  /\ pagina = [g \in IdPaginas |-> PaginaVacia]
  /\ tabla = [p \in Programas |-> <<>>] /\ lugar = Marcos + Ranuras
  /\ leido = [p \in Programas |-> Nada]
  /\ pc = [p \in Programas |-> "libre"] /\ loc = [p \in Programas |-> LocalVacio]
  /\ caido = FALSE

Esta(p, punto)  == ~caido /\ pc[p] = punto
Ir(p, punto, l) == pc' = [pc EXCEPT ![p] = punto] /\ loc' = [loc EXCEPT ![p] = l]
Libre(p)        == Ir(p, "libre", LocalVacio)

PaginasDe(p) == UNION {Range(tabla[p][s].paginas) : s \in DOMAIN tabla[p]}
Visibles     == UNION {PaginasDe(p) : p \in Programas}

-----------------------------------------------------------------------------
(* bit_marco->bit_uso is set, and bit_modificado as the caller says. *)
Usado(m, modificado) ==
  [bitMarco EXCEPT ![m] = [ocupado |-> bitMarco[m].ocupado, uso |-> TRUE, modificado |-> modificado]]

(* asignar_marco_nuevo: a free frame, which bit_libre_memoria marks, or the   *)
(* one the clock frees.  It goes back to loc.vuelta with loc.marco.           *)
MarcosLibres_SinUso == {m \in IdMarcos : ~bitMarco[m].uso}
MarcosLibres == {m \in IdMarcos : ~bitMarco[m].ocupado}

BitLibre(p) ==
  LET m == Min(MarcosLibres) IN
  /\ Esta(p, "bit_libre") /\ MarcosLibres # {}
  /\ bitMarco' = [bitMarco EXCEPT ![m] = [ocupado |-> TRUE, uso |-> TRUE, modificado |-> TRUE]]
  /\ Ir(p, loc[p].vuelta, [loc[p] EXCEPT !.marco = m])
  /\ UNCHANGED <<ranuras, puntero, disco, pagina, cuentas, caido>>

SinBitLibre(p) ==
  /\ Esta(p, "bit_libre") /\ MarcosLibres = {}
  /\ Ir(p, "clock", [loc[p] EXCEPT !.busca = 1])
  /\ UNCHANGED <<bits, disco, pagina, cuentas, caido>>

(* buscar_0_0 and buscar_0_1, in turns and twice.  Both go round the frames    *)
(* from the hand; a find in the first half leaves the hand past it, one in the *)
(* second half on it, and no find where it was.                               *)
Vuelta(k) == (puntero + k) % Marcos
Pasos == 0..(Marcos - 1)
Mano_SinVuelta(k) == puntero + k + 1
Mano(k) == IF puntero + k < Marcos THEN puntero + k + 1 ELSE Vuelta(k)

Sirve(m, busca)  == ~bitMarco[m].uso /\ bitMarco[m].modificado = (busca \in {2, 4})
Hallados(busca)  == {k \in Pasos : Sirve(Vuelta(k), busca)}

(* buscar_0_1 takes the use from the frames it leaves behind. *)
Gastados_Ninguno(busca, pasos) == bitMarco
Gastados(busca, pasos) ==
  IF busca \in {1, 3} THEN bitMarco
  ELSE [m \in IdMarcos |-> [bitMarco[m] EXCEPT !.uso = @ /\ \A k \in pasos : Vuelta(k) # m]]

Buscar(p) ==
  LET busca == loc[p].busca
      k     == Min(Hallados(busca))
  IN
  /\ Esta(p, "clock") /\ busca <= 4 /\ Hallados(busca) # {}
  /\ bitMarco' = Gastados(busca, 0..(k - 1))
  /\ puntero' = Mano(k)
  /\ Ir(p, "buscar_pagina", [loc[p] EXCEPT !.marco = Vuelta(k), !.busca = 0])
  /\ UNCHANGED <<ranuras, disco, pagina, cuentas, caido>>

(* With no frame after the four searches it dereferences NULL. *)
NoHallado(p) ==
  /\ Esta(p, "clock") /\ Hallados(loc[p].busca) = {}
  /\ bitMarco' = Gastados(loc[p].busca, Pasos)
  /\ caido' = (loc[p].busca = 4)
  /\ Ir(p, "clock", [loc[p] EXCEPT !.busca = @ + 1])
  /\ UNCHANGED <<ranuras, puntero, disco, pagina, cuentas>>

(* buscar_pagina_por_bit looks at the tables of all the programs.  A frame     *)
(* whose page is in none of them is handed over as it is.                     *)
Ocupantes(m) == {g \in Visibles : pagina[g].presencia /\ pagina[g].marco = m}

BuscarPagina(p) ==
  LET ocupantes == Ocupantes(loc[p].marco) IN
  /\ Esta(p, "buscar_pagina")
  /\ IF ocupantes = {} THEN Ir(p, loc[p].vuelta, loc[p])
     ELSE \E g \in ocupantes : Ir(p, "a_swap", [loc[p] EXCEPT !.victima = g])
  /\ UNCHANGED <<bits, disco, pagina, cuentas, caido>>

(* pasar_marco_a_swap.  bit_libre_memoria_virtual does not mark what it finds. *)
RanurasLibres == IdRanuras \ ranuras
RanuraLibre   == IF RanurasLibres = {} THEN Nada ELSE Min(RanurasLibres)

ElegirRanura(p) ==
  LET origen == pagina[loc[p].victima].marco IN
  /\ Esta(p, "a_swap")
  /\ caido' = (Nada \in {origen, RanuraLibre})
  /\ Ir(p, "copiar_a_swap", [loc[p] EXCEPT !.origen = origen, !.ranura = RanuraLibre])
  /\ UNCHANGED <<bits, disco, pagina, cuentas>>

Marcar(r) == ranuras \cup {r}

CopiarASwap(p) ==
  /\ Esta(p, "copiar_a_swap")
  /\ swap' = [swap EXCEPT ![loc[p].ranura] = upcm[loc[p].origen]]
  /\ ranuras' = Marcar(loc[p].ranura)
  /\ Ir(p, "desalojar", [loc[p] EXCEPT !.origen = Nada])
  /\ UNCHANGED <<bitMarco, puntero, upcm, pagina, cuentas, caido>>

Desalojada_SigueEnElMarco(g, r) == [pagina[g] EXCEPT !.ranura = r]
Desalojada(g, r) == [presencia |-> FALSE, marco |-> Nada, ranura |-> r]

Desalojar(p) ==
  /\ Esta(p, "desalojar")
  /\ pagina' = [pagina EXCEPT ![loc[p].victima] = Desalojada(loc[p].victima, loc[p].ranura)]
  /\ bitMarco' = Usado(loc[p].marco, FALSE)
  /\ Ir(p, loc[p].vuelta, [loc[p] EXCEPT !.victima = Nada, !.ranura = Nada])
  /\ UNCHANGED <<ranuras, puntero, disco, cuentas, caido>>

AsignarMarco(p) ==
  \/ BitLibre(p) \/ SinBitLibre(p) \/ Buscar(p) \/ NoHallado(p)
  \/ BuscarPagina(p) \/ ElegirRanura(p) \/ CopiarASwap(p) \/ Desalojar(p)

-----------------------------------------------------------------------------
(* obtener_puntero_a_marco of loc.pag, which goes on at loc.luego.             *)
EnMemoria(p) ==
  /\ Esta(p, "obtener") /\ pagina[loc[p].pag].presencia
  /\ Ir(p, "usar", loc[p])
  /\ UNCHANGED <<bits, disco, pagina, cuentas, caido>>

(* The slot is freed first, so that the clock has one to use. *)
TraerDeSwap(p) ==
  LET g == loc[p].pag
      r == pagina[g].ranura
  IN
  /\ Esta(p, "obtener") /\ ~pagina[g].presencia /\ r # Nada
  /\ ranuras' = ranuras \ {r}
  /\ pagina' = [pagina EXCEPT ![g].ranura = Nada]
  /\ Ir(p, "bit_libre", [loc[p] EXCEPT !.traido = swap[r], !.vuelta = "traida"])
  /\ UNCHANGED <<bitMarco, puntero, disco, cuentas, caido>>

Traida(p) ==
  LET g == loc[p].pag IN
  /\ Esta(p, "traida")
  /\ pagina' = [pagina EXCEPT ![g] = [presencia |-> TRUE, marco |-> loc[p].marco, ranura |-> @.ranura]]
  /\ Ir(p, "pegar", loc[p])
  /\ UNCHANGED <<bits, disco, cuentas, caido>>

Pegar(p, desde, hacia) ==
  /\ Esta(p, desde)
  /\ upcm' = [upcm EXCEPT ![loc[p].marco] = loc[p].traido]
  /\ Ir(p, hacia, [loc[p] EXCEPT !.traido = Nada])
  /\ UNCHANGED <<bits, swap, pagina, cuentas, caido>>

Usar(p) ==
  LET l == loc[p]
      m == pagina[l.pag].marco
  IN
  /\ Esta(p, "usar")
  /\ caido' = (m = Nada)
  /\ bitMarco' = IF m = Nada THEN bitMarco ELSE Usado(m, bitMarco[m].modificado)
  /\ Ir(p, l.luego, IF l.luego = "metadatos" THEN [LocalVacio EXCEPT !.seg = l.seg]
                    ELSE [l EXCEPT !.marco = m, !.vuelta = "libre"])
  /\ UNCHANGED <<ranuras, puntero, disco, pagina, cuentas>>

ObtenerPuntero(p) ==
  EnMemoria(p) \/ TraerDeSwap(p) \/ Traida(p) \/ Pegar(p, "pegar", "usar") \/ Usar(p)

-----------------------------------------------------------------------------
ConPaginas(p, s, ps) ==
  [tabla EXCEPT ![p][s] = [mmapeado |-> tabla[p][s].mmapeado, paginas |-> ps]]

(* The segments an allocation may get its pages in: a new one only when the last *)
(* one is not of heap.                                                          *)
Heaps(p)  == {s \in DOMAIN tabla[p] : ~tabla[p][s].mmapeado}
Vacios(p) == {s \in Heaps(p) : tabla[p][s].paginas = <<>>}
Nuevo(p)  == {s \in 1..SegsMax : s = Len(tabla[p]) + 1 /\ s - 1 \notin Heaps(p)}

Destinos(p, forma) ==
  CASE forma = "segmento"  -> Nuevo(p)
    [] forma = "extension" -> Heaps(p) \ Vacios(p)
    [] forma = "rearmado"  -> Vacios(p)

EmpezarAlta(p) ==
  /\ Esta(p, "libre")
  /\ \E a \in {a \in Altas : a.n <= lugar} :
       /\ lugar' = lugar - a.n
       /\ \E s \in Destinos(p, a.forma) :
            Ir(p, "crear", [LocalVacio EXCEPT !.forma = a.forma, !.n = a.n, !.seg = s])
  /\ leido' = [leido EXCEPT ![p] = Nada]
  /\ UNCHANGED <<bits, disco, pagina, tabla, caido>>

EnUso(p)    == PaginasDe(p) \cup Range(loc[p].nuevas)
SinUsar(p)  == {k \in 0..(PagsMax - 1) : <<p, k>> \notin EnUso(p)}
PagNueva(p) == <<p, Min(SinUsar(p))>>

(* A new segment gets its metadata, in the first page and in the last one or    *)
(* two, before it is listed.                                                   *)
TocaAlCrear(p) ==
  IF loc[p].forma # "segmento" THEN {FALSE}
  ELSE IF loc[p].i \in {0, loc[p].n - 1} THEN {TRUE}
  ELSE {FALSE, loc[p].i = loc[p].n - 2}

SeguirCreando(p, l) ==
  \E toca \in TocaAlCrear(p) :
    Ir(p, IF toca THEN "obtener" ELSE "agregar", [l EXCEPT !.luego = "agregar"])

(* The first pages get a frame; the others, a slot that nobody marks. *)
Crear(p) ==
  LET g == PagNueva(p) IN
  /\ Esta(p, "crear") /\ loc[p].i < loc[p].n /\ SinUsar(p) # {}
  /\ IF loc[p].i <= Marcos
     THEN /\ Ir(p, "bit_libre", [loc[p] EXCEPT !.pag = g, !.vuelta = "creada"])
          /\ UNCHANGED pagina
     ELSE /\ SeguirCreando(p, [loc[p] EXCEPT !.pag = g])
          /\ pagina' = [pagina EXCEPT ![g].ranura = RanuraLibre]
  /\ UNCHANGED <<bits, disco, cuentas, caido>>

Creada(p) ==
  LET m     == loc[p].marco
      viejo == loc[p].forma = "rearmado"
  IN
  /\ Esta(p, "creada")
  /\ pagina' = [pagina EXCEPT ![loc[p].pag] = [presencia |-> TRUE, marco |-> m, ranura |-> Nada]]
  /\ bitMarco' = Usado(m, bitMarco[m].modificado \/ ~viejo)
  /\ SeguirCreando(p, loc[p])
  /\ UNCHANGED <<ranuras, puntero, disco, cuentas, caido>>

(* An extension lists each page as it makes it, a segment all at the end. *)
Agregar(p) ==
  LET l == loc[p] IN
  /\ Esta(p, "agregar")
  /\ Ir(p, "crear", [l EXCEPT !.i = @ + 1, !.pag = Nada, !.marco = Nada,
                              !.vuelta = "libre", !.luego = "libre",
                              !.nuevas = IF l.forma = "segmento" THEN Append(@, l.pag) ELSE @])
  /\ tabla' = IF l.forma = "segmento" THEN tabla
              ELSE ConPaginas(p, l.seg, Append(tabla[p][l.seg].paginas, l.pag))
  /\ UNCHANGED <<bits, disco, pagina, lugar, leido, caido>>

AltaHecha(p) ==
  LET l == loc[p] IN
  /\ Esta(p, "crear") /\ l.i = l.n
  /\ IF l.forma = "segmento"
     THEN /\ tabla' = [tabla EXCEPT ![p] = Append(@, [mmapeado |-> FALSE, paginas |-> l.nuevas])]
          /\ Libre(p)
     ELSE /\ Ir(p, "metadatos", [LocalVacio EXCEPT !.seg = l.seg])
          /\ UNCHANGED tabla
  /\ UNCHANGED <<bits, disco, pagina, lugar, leido, caido>>

(* muse_map of a private mapping of a page of a file of its own, which gets no   *)
(* frame yet.                                                                   *)
Mapear(p) ==
  LET g == PagNueva(p) IN
  /\ Esta(p, "libre") /\ lugar > 0 /\ Len(tabla[p]) < SegsMax /\ SinUsar(p) # {}
  /\ lugar' = lugar - 1
  /\ pagina' = [pagina EXCEPT ![g] = PaginaVacia]
  /\ tabla' = [tabla EXCEPT ![p] = Append(@, [mmapeado |-> TRUE, paginas |-> <<g>>])]
  /\ leido' = [leido EXCEPT ![p] = Nada]
  /\ UNCHANGED <<bits, disco, pc, loc, caido>>

-----------------------------------------------------------------------------
(* The metadata of a segment: an allocation that fits writes some, and muse_free *)
(* too, before and after it drops pages from the end.                           *)
EmpezarHeap(p) ==
  /\ Esta(p, "libre")
  /\ \E s \in DOMAIN tabla[p] :
       /\ ~tabla[p][s].mmapeado /\ tabla[p][s].paginas # <<>>
       /\ Ir(p, "metadatos", [LocalVacio EXCEPT !.seg = s])
  /\ leido' = [leido EXCEPT ![p] = Nada]
  /\ UNCHANGED <<bits, disco, pagina, tabla, lugar, caido>>

TocarMetadatos(p) ==
  /\ Esta(p, "metadatos")
  /\ \E g \in Range(tabla[p][loc[p].seg].paginas) :
       Ir(p, "obtener", [loc[p] EXCEPT !.pag = g, !.luego = "metadatos"])
  /\ UNCHANGED <<bits, disco, pagina, cuentas, caido>>

(* list_remove_and_destroy_element at one place, till no page is left there. *)
EmpezarASoltar(p) ==
  /\ Esta(p, "metadatos")
  /\ \E k \in DOMAIN tabla[p][loc[p].seg].paginas :
       Ir(p, "soltar", [loc[p] EXCEPT !.i = k])
  /\ UNCHANGED <<bits, disco, pagina, cuentas, caido>>

QuitarDeLaLista(p) ==
  LET ps == tabla[p][loc[p].seg].paginas IN
  /\ Esta(p, "soltar") /\ loc[p].i \in DOMAIN ps
  /\ tabla' = ConPaginas(p, loc[p].seg, RemoveAt(ps, loc[p].i))
  /\ Ir(p, "destruir", [loc[p] EXCEPT !.pag = ps[loc[p].i], !.n = @ + 1])
  /\ UNCHANGED <<bits, disco, pagina, lugar, leido, caido>>

(* destroy_pagina *)
MarcosDe(gs)  == {pagina[g].marco : g \in gs}
RanurasDe(gs) == {pagina[g].ranura : g \in gs}

Destruir_DejaLaRanura(gs) ==
  /\ bitMarco' = [m \in IdMarcos |-> [bitMarco[m] EXCEPT !.ocupado = @ /\ m \notin MarcosDe(gs)]]
  /\ UNCHANGED ranuras
  /\ pagina' = [g \in IdPaginas |-> IF g \in gs THEN PaginaVacia ELSE pagina[g]]
Destruir(gs) ==
  /\ bitMarco' = [m \in IdMarcos |-> [bitMarco[m] EXCEPT !.ocupado = @ /\ m \notin MarcosDe(gs)]]
  /\ ranuras' = ranuras \ RanurasDe(gs)
  /\ pagina' = [g \in IdPaginas |-> IF g \in gs THEN PaginaVacia ELSE pagina[g]]

DestruirPagina(p) ==
  /\ Esta(p, "destruir")
  /\ Destruir({loc[p].pag})
  /\ Ir(p, "soltar", [loc[p] EXCEPT !.pag = Nada])
  /\ UNCHANGED <<puntero, disco, cuentas, caido>>

DevolverLugar(p) ==
  /\ Esta(p, "soltar") /\ loc[p].i \notin DOMAIN tabla[p][loc[p].seg].paginas
  /\ lugar' = lugar + loc[p].n
  /\ Ir(p, "metadatos", [LocalVacio EXCEPT !.seg = loc[p].seg])
  /\ UNCHANGED <<bits, disco, pagina, tabla, leido, caido>>

HeapListo(p) ==
  /\ Esta(p, "metadatos")
  /\ Libre(p)
  /\ UNCHANGED <<bits, disco, pagina, cuentas, caido>>

-----------------------------------------------------------------------------
(* muse_get and muse_cpy, of one page of the program. *)
EmpezarAcceso(p) ==
  /\ Esta(p, "libre")
  /\ \E g \in PaginasDe(p), v \in Valores \cup {Nada} :
       Ir(p, "acceder", [LocalVacio EXCEPT !.pag = g, !.valor = v, !.luego = "copiar"])
  /\ leido' = [leido EXCEPT ![p] = Nada]
  /\ UNCHANGED <<bits, disco, pagina, tabla, lugar, caido>>

SinCargar(g) == pagina[g].marco = Nada /\ pagina[g].ranura = Nada

Acceder(p) ==
  /\ Esta(p, "acceder") /\ ~SinCargar(loc[p].pag)
  /\ Ir(p, "obtener", loc[p])
  /\ UNCHANGED <<bits, disco, pagina, cuentas, caido>>

(* paginas_de_map_en_memoria *)
CargarMapeo(p) ==
  /\ Esta(p, "acceder") /\ SinCargar(loc[p].pag)
  /\ Ir(p, "bit_libre", [loc[p] EXCEPT !.traido = Archivo, !.vuelta = "cargada"])
  /\ UNCHANGED <<bits, disco, pagina, cuentas, caido>>

Cargada(p) ==
  LET m == loc[p].marco IN
  /\ Esta(p, "cargada")
  /\ pagina' = [pagina EXCEPT ![loc[p].pag] = [presencia |-> TRUE, marco |-> m, ranura |-> Nada]]
  /\ bitMarco' = Usado(m, TRUE)
  /\ Ir(p, "pegar_mapeo", loc[p])
  /\ UNCHANGED <<ranuras, puntero, disco, cuentas, caido>>

Leer(p) ==
  /\ Esta(p, "copiar") /\ loc[p].valor = Nada
  /\ leido' = [leido EXCEPT ![p] = upcm[loc[p].marco]]
  /\ bitMarco' = Usado(loc[p].marco, bitMarco[loc[p].marco].modificado)
  /\ pagina' = [pagina EXCEPT ![loc[p].pag].presencia = TRUE]
  /\ Libre(p)
  /\ UNCHANGED <<ranuras, puntero, disco, tabla, lugar, caido>>

Escribir(p) ==
  LET m == loc[p].marco IN
  /\ Esta(p, "copiar") /\ loc[p].valor # Nada
  /\ bitMarco' = Usado(m, TRUE)
  /\ upcm' = [upcm EXCEPT ![m] = loc[p].valor]
  /\ Libre(p)
  /\ UNCHANGED <<ranuras, puntero, swap, pagina, cuentas, caido>>

-----------------------------------------------------------------------------
(* muse_unmap and muse_close give back the bits but not lugar_disponible. *)
Desmapear(p) ==
  /\ Esta(p, "libre")
  /\ \E s \in DOMAIN tabla[p] :
       /\ tabla[p][s].mmapeado
       /\ tabla' = [tabla EXCEPT ![p] = RemoveAt(@, s)]
       /\ Destruir(Range(tabla[p][s].paginas))
  /\ leido' = [leido EXCEPT ![p] = Nada]
  /\ UNCHANGED <<puntero, disco, lugar, pc, loc, caido>>

Cerrar(p) ==
  /\ Esta(p, "libre") /\ tabla[p] # <<>>
  /\ Destruir(PaginasDe(p))
  /\ tabla' = [tabla EXCEPT ![p] = <<>>]
  /\ leido' = [leido EXCEPT ![p] = Nada]
  /\ UNCHANGED <<puntero, disco, lugar, pc, loc, caido>>

Pedido(p) ==
  \/ EmpezarAlta(p) \/ Crear(p) \/ Creada(p) \/ Agregar(p)
  \/ AltaHecha(p) \/ Mapear(p) \/ EmpezarHeap(p) \/ TocarMetadatos(p) \/ EmpezarASoltar(p)
  \/ QuitarDeLaLista(p) \/ DestruirPagina(p) \/ DevolverLugar(p) \/ HeapListo(p)
  \/ EmpezarAcceso(p) \/ Acceder(p) \/ CargarMapeo(p) \/ Cargada(p)
  \/ Pegar(p, "pegar_mapeo", "obtener") \/ Leer(p) \/ Escribir(p)
  \/ Desmapear(p) \/ Cerrar(p)

MuseNext == \E p \in Programas : AsignarMarco(p) \/ ObtenerPuntero(p) \/ Pedido(p)
MuseSpec == MuseInit /\ [][MuseNext]_museVars

=============================================================================
