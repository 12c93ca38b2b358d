--------------------------------- MODULE Muse ---------------------------------
(***************************************************************************)
(* The properties of the pages of MUSE.                                     *)
(***************************************************************************)
EXTENDS MuseMarcos, FiniteSets

Puntos == {"libre", "crear", "bit_libre", "clock", "buscar_pagina", "a_swap", "copiar_a_swap",
           "desalojar", "creada", "agregar", "obtener", "traida", "cargada", "pegar",
           "pegar_mapeo", "usar", "copiar", "acceder", "metadatos", "soltar", "destruir"}

ONada(S) == S \cup {Nada}

(* The values of the variables are those of the declarations of muse.h. *)
MuseTypeOK ==
  /\ bitMarco \in [IdMarcos -> [ocupado : BOOLEAN, uso : BOOLEAN, modificado : BOOLEAN]]
  /\ ranuras \subseteq IdRanuras /\ puntero \in 0..Marcos
  /\ upcm \in [IdMarcos -> Contenidos] /\ swap \in [IdRanuras -> Contenidos]
  /\ pagina \in [IdPaginas -> [presencia : BOOLEAN, marco : ONada(IdMarcos),
                               ranura : ONada(IdRanuras)]]
  /\ \A p \in Programas : \A s \in DOMAIN tabla[p] :
       tabla[p][s] \in [mmapeado : BOOLEAN, paginas : Seq(IdPaginas)]
  /\ lugar \in 0..(Marcos + Ranuras)
  /\ leido \in [Programas -> ONada(Contenidos)]
  /\ pc \in [Programas -> Puntos] /\ caido \in BOOLEAN

(* The pages that exist: the listed ones and those of a segment in the making. *)
Vivas == Visibles \cup UNION {Range(loc[p].nuevas) : p \in Programas}

(* asignar_marco_nuevo and pasar_marco_a_swap never give a frame or a slot to a  *)
(* page while another one is there, and a page is in one of them at most.       *)
UnDueno ==
  /\ \A g \in Vivas : pagina[g].presencia => pagina[g].ranura = Nada
  /\ \A g, h \in Vivas : g # h =>
       /\ pagina[g].presencia /\ pagina[h].presencia => pagina[g].marco # pagina[h].marco
       /\ pagina[g].ranura = Nada \/ pagina[g].ranura # pagina[h].ranura

(* Between requests the occupied frames are those of the pages there are, the     *)
(* marked slots are of some page, and every page fits in what was taken of       *)
(* lugar_disponible: neither the clock nor muse_free leaves a bit behind.        *)
Reposo == ~caido /\ \A p \in Programas : pc[p] = "libre"
SinPerdidas ==
  Reposo =>
    /\ {m \in IdMarcos : bitMarco[m].ocupado} = MarcosDe({g \in Visibles : pagina[g].presencia})
    /\ ranuras \subseteq RanurasDe(Visibles)
    /\ Cardinality(Visibles) <= Marcos + Ranuras - lugar

(* What was reserved is enough: the four searches of the clock find a frame, a    *)
(* victim finds a slot and a page just brought is still in its frame.            *)
SinNulos == ~caido

(* What a page holds, wherever it is: in transit, in a frame, in a slot or still  *)
(* in the file.                                                                 *)
EnTransito(g) == {p \in Programas : loc[p].pag = g /\ loc[p].traido # Nada}
Contenido(g) ==
  IF g \notin Visibles THEN Nada
  ELSE IF EnTransito(g) # {} THEN loc[CHOOSE p \in EnTransito(g) : TRUE].traido
  ELSE IF pagina[g].presencia THEN upcm[pagina[g].marco]
  ELSE IF pagina[g].ranura # Nada THEN swap[pagina[g].ranura]
  ELSE Archivo

Memoria == INSTANCE MemoriaDePaginas
             WITH Paginas <- IdPaginas, contenido <- [g \in IdPaginas |-> Contenido(g)]

(* muse_get answers what muse_cpy last put in the page, whatever the clock moved in *)
(* between, and no request changes a page but the one it copies to.              *)
ImplementaPaginas == Memoria!MemoriaSpec

=============================================================================
