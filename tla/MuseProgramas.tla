---------------------------- MODULE MuseProgramas ----------------------------
(***************************************************************************)
(* The programs of MUSE, their heaps and their mappings, and what is true of  *)
(* them all.                                                               *)
(***************************************************************************)
EXTENDS MuseHeap, MuseMapeo

(* The rest of a request, once begun: the handler's thread. *)
Atender(p) ==
  \/ AtenderHeap(p)
  \/ MapaTabla(p) \/ BuscarMapeo(p) \/ Publicar(p)
  \/ Cargar(p) \/ Marcar(p) \/ Pegar(p) \/ YaEsta(p) \/ Tocar(p) \/ Terminar(p)
  \/ Bajar(p) \/ Quitar(p) \/ Cerrar(p) \/ Descontar(p) \/ Olvidar(p) \/ Cerrado(p)

(* What the program does. *)
Pedir(p) ==
  \/ Iniciar(p) \/ EmpezarAlloc(p) \/ EmpezarFree(p) \/ CopiarAlHeap(p)
  \/ EmpezarMapa(p) \/ EmpezarAcceso(p) \/ EmpezarUnmap(p) \/ EmpezarCierre(p) \/ Morir(p)

ProgramasNext == \E p \in Programas : Pedir(p) \/ Atender(p)
ProgramasSpec == SegmentosInit /\ [][ProgramasNext]_segmentosVars

(* The handlers' threads run; the programs may ask for nothing.  Room for mappings is  *)
(* never given back, so that the mutexes are not taken for ever by others.             *)
ProgramasJusta == ProgramasSpec /\ \A p \in Programas : WF_segmentosVars(Atender(p))

-----------------------------------------------------------------------------
Puntos == {"nuevo", "libre", "alloc", "revisar", "reservar", "ampliar", "juntar", "mapear",
           "buscar_mapeo", "publicar", "cargar", "traer", "tocar", "bajar", "quitar", "cerrar",
           "descontar", "olvidar", "fin", "muerto"}

DeHeap ==
  [mmapeado : {FALSE}, base : Nat, tamanio : Nat, paginas : Nat, liberadas : Nat,
   heaps : Seq([dir : Nat, espacio : Int, libre : BOOLEAN, indice : Nat])]
DeMapeo ==
  [mmapeado : {TRUE}, base : Nat, tamanio : Nat, archivo : Archivos, lista : 1..Listas]

(* The types of muse.h. *)
SegmentosTypeOK ==
  /\ lugar \in 0..(Paginas * TamPag)
  /\ \A p \in Programas : \A s \in Range(tabla[p]) : s \in DeHeap \/ s \in DeMapeo
  /\ mapeos \in Seq([archivo : Archivos, contador : Nat, lista : 1..Listas])
  /\ {mutexProgramas, mutexMapeo} \subseteq Programas \cup {Nada}
  /\ \A p \in Programas : \A b \in dado[p] :
       b \in [base : Nat, dir : Nat, tam : Nat, estado : {"nuevo", "escrito", "perdido"}]
  /\ pc \in [Programas -> Puntos] /\ caido \in BOOLEAN

(* What a block is for its program: lost when MUSE no longer finds all of it.        *)
Encontrado(p, b) ==
  LET k == SegDe(p, b.dir) IN
  k # 0 /\ tabla[p][k].base = b.base /\ b.dir - b.base + b.tam <= tabla[p][k].tamanio
Vista(p, b) ==
  [dir |-> b.dir, tam |-> b.tam, estado |-> IF Encontrado(p, b) THEN b.estado ELSE "perdido"]

Bloques(p) == IF loc[p].clase = "close" THEN {} ELSE {Vista(p, b) : b \in dado[p]}
Memoria == INSTANCE Asignador WITH bloques <- [p \in Programas |-> Bloques(p)]

(* muse_alloc gives each program blocks apart from each other, that muse_free takes   *)
(* back and muse_cpy fills, whatever was given back, merged, taken again and grown      *)
(* before; and no metadata is written over what a program copied.                      *)
ImplementaAsignador == Memoria!Spec

(* lugar_disponible is never more than there is: what is left, the pages of the heaps   *)
(* and those of the lists that are mapped fit in the memory and the swap.               *)
HeapsDeTodos   == {r \in UNION {{p} \X DOMAIN tabla[p] : p \in Programas} : ~tabla[r[1]][r[2]].mmapeado}
PaginasDeHeaps == UNION {{r} \X (1..tabla[r[1]][r[2]].paginas) : r \in HeapsDeTodos}
ListasDeEntradas == {mapeos[i].lista : i \in DOMAIN mapeos}
PaginasMapeadas  == UNION {{l} \X DOMAIN hojas[l] : l \in ListasDeEntradas}
LugarCierto ==
  lugar + TamPag * (Cardinality(PaginasDeHeaps) + Cardinality(PaginasMapeadas)) <= Paginas * TamPag

(* The segments of a program are one after another, though those of heap shrink and    *)
(* grow.                                                                            *)
SegmentosDisjuntos ==
  \A p \in Programas : \A k \in 2..Len(tabla[p]) :
    tabla[p][k - 1].base + PaginasDe(tabla[p][k - 1]) * TamPag <= tabla[p][k].base

-----------------------------------------------------------------------------
(* What a program sees of a file it maps. *)
EnCarga(l, i) == \E q \in Programas : loc[q].hojaMarcada /\ loc[q].lista = l /\ loc[q].hoja + 1 = i
Imagen(a, l) ==
  [i \in 1..Largo[a] |->
    LET h == (i - 1) \div TamPag + 1 IN
    IF h > Len(hojas[l]) THEN "perdido"
    ELSE IF hojas[l][h] = Nada \/ EnCarga(l, h) THEN archivo[a][i]
    ELSE hojas[l][h][((i - 1) % TamPag) + 1]]
VistaDe(a, p) ==
  IF SegmentosDe(p, a) = {} \/ loc[p].clase = "close" THEN Nada
  ELSE Imagen(a, tabla[p][Min(SegmentosDe(p, a))].lista)

Mapeados == INSTANCE ArchivosMapeados
              WITH disco <- archivo,
                   vista <- [a \in Archivos |-> [p \in Programas |-> VistaDe(a, p)]]

(* The programs that map a file see the same, whoever loads, copies, syncs, unmaps or   *)
(* closes in between.                                                               *)
ImplementaMapeos == Mapeados!Spec

(* The count of an entry is that of the segments with its pages: they are destroyed with *)
(* the last of them, never before and never later.                                     *)
Referencias(l) ==
  {r \in UNION {{p} \X DOMAIN tabla[p] : p \in Programas} :
     LET s == tabla[r[1]][r[2]] IN s.mmapeado /\ s.lista = l}
YaDescontados(l) == {p \in Programas : pc[p] \in {"quitar", "olvidar"} /\ loc[p].lista = l}

CuentaExacta ==
  /\ \A i \in DOMAIN mapeos :
       mapeos[i].contador = Cardinality(Referencias(mapeos[i].lista)) - Cardinality(YaDescontados(mapeos[i].lista))
  /\ \A p \in Programas : \A s \in Range(tabla[p]) :
       s.mmapeado => EntradaDeLista(s.lista) # 0

(* Every request is answered: no handler waits for ever for a mutex. *)
Atendido(p) == pc[p] \in {"nuevo", "libre", "fin", "muerto"} \/ caido
PedidoRespondido == \A p \in Programas : ~Atendido(p) ~> Atendido(p)

=============================================================================
