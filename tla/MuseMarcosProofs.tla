--------------------------- MODULE MuseMarcosProofs ---------------------------
(***************************************************************************)
(* The frames and the slots of MUSE, for one program and any number of      *)
(* frames, slots and pages: each is of one page.                            *)
(***************************************************************************)
EXTENDS Muse, SequenceTheorems, WellFoundedInduction, TLAPS

-----------------------------------------------------------------------------
(* What is proved.  A new segment of several pages may call the clock before  *)
(* it is listed, and an allocation of more than Marcos + 1 leaves slots        *)
(* unmarked: neither is allowed here.                                         *)

UnSoloPrograma == \A p, q \in Programas : p = q
AltasCortas == \A a \in Altas : (a.forma = "segmento" => a.n = 1) /\ a.n <= Marcos + 1

Segmentos == [mmapeado : BOOLEAN, paginas : Seq(IdPaginas)]
LocalBien(l) ==
  /\ DOMAIN l = DOMAIN LocalVacio
  /\ l.n \in Nat /\ l.i \in Nat /\ l.forma \in Formas \cup {Nada} /\ l.nuevas \in Seq(IdPaginas)

MarcosTipo ==
  /\ bitMarco \in [IdMarcos -> [ocupado : BOOLEAN, uso : BOOLEAN, modificado : BOOLEAN]]
  /\ ranuras \subseteq IdRanuras /\ puntero \in 0..Marcos
  /\ pagina \in [IdPaginas -> [presencia : BOOLEAN, marco : ONada(IdMarcos),
                               ranura : ONada(IdRanuras)]]
  /\ tabla \in [Programas -> Seq(Segmentos)]
  /\ pc \in [Programas -> Puntos]
  /\ DOMAIN loc = Programas /\ \A p \in Programas : LocalBien(loc[p])

-----------------------------------------------------------------------------
(* The pages.                                                                *)

Presente(g) == pagina[g].presencia

(* A page is in an occupied frame or in a marked slot, of its own. *)
EnSuLugar ==
  \A g \in IdPaginas :
    /\ ~Presente(g) => pagina[g].marco = Nada
    /\ Presente(g) => /\ pagina[g].marco \in IdMarcos /\ bitMarco[pagina[g].marco].ocupado
                      /\ pagina[g].ranura = Nada
    /\ pagina[g].ranura # Nada => pagina[g].ranura \in ranuras
    /\ \A h \in IdPaginas \ {g} :
         /\ Presente(g) /\ Presente(h) => pagina[g].marco # pagina[h].marco
         /\ pagina[g].ranura = Nada \/ pagina[g].ranura # pagina[h].ranura

(* The handler has no page in a frame but those of its tables and the one it is at. *)
Anotadas ==
  \A p \in Programas : \A g \in IdPaginas :
    Presente(g) => g \in PaginasDe(p) \cup Range(loc[p].nuevas) \cup {loc[p].pag}

-----------------------------------------------------------------------------
(* Where a handler is.                                                       *)

Desalojando == {"a_swap", "copiar_a_swap", "desalojar"}
Buscando    == {"bit_libre", "clock", "buscar_pagina"} \cup Desalojando
Vueltas     == {"creada", "traida", "cargada"}

(* It looks for a frame, or has one that is of no page, for a page with none. *)
PideMarco(p) ==
  LET l == loc[p] IN
  /\ pc[p] \in Buscando => l.vuelta \in Vueltas
  /\ pc[p] \in Buscando \cup Vueltas => l.pag \in IdPaginas /\ ~Presente(l.pag)
  /\ (pc[p] \in Buscando /\ l.vuelta = "traida") \/ pc[p] = "traida" => pagina[l.pag].ranura = Nada
  /\ pc[p] \in Buscando \ {"bit_libre"} => \A m \in IdMarcos : bitMarco[m].ocupado
  /\ pc[p] \in Vueltas \cup Desalojando \cup {"buscar_pagina"} =>
       l.marco \in IdMarcos /\ bitMarco[l.marco].ocupado
  /\ pc[p] \in Vueltas =>
       l.vuelta = pc[p] /\ \A g \in IdPaginas : Presente(g) => pagina[g].marco # l.marco

(* It moves the page of that frame to a slot that is of no page. *)
PideRanura(p) ==
  LET l == loc[p] IN
  /\ pc[p] \in Desalojando =>
       l.victima \in IdPaginas /\ Presente(l.victima) /\ pagina[l.victima].marco = l.marco
  /\ pc[p] \in {"copiar_a_swap", "desalojar"} /\ ~caido =>
       l.ranura \in IdRanuras /\ \A g \in IdPaginas : pagina[g].ranura # l.ranura
  /\ pc[p] = "desalojar" /\ ~caido => l.ranura \in ranuras

(* It makes pages, one at a time. *)
DaDeAlta(p) ==
  LET l == loc[p] IN
  /\ pc[p] \in {"crear", "creada", "agregar"} \/ l.luego = "agregar"
       \/ (pc[p] \in Buscando /\ l.vuelta = "creada") => l.forma # Nada
  /\ l.forma = "segmento" => l.n = 1
  /\ l.forma # Nada => l.n <= Marcos + 1
  /\ l.nuevas # <<>> => pc[p] = "crear" /\ l.forma = "segmento" /\ l.i >= 1

(* It uses a page of the tables, or the one it makes. *)
UsaPagina(p) ==
  LET l == loc[p] IN
  /\ pc[p] \in {"libre", "metadatos", "soltar", "destruir"} => l.forma = Nada
  /\ pc[p] \in {"libre", "crear", "metadatos", "soltar", "destruir"} => l.luego = "libre"
  /\ pc[p] = "copiar" => l.luego = "copiar"
  /\ pc[p] \in {"libre", "crear", "metadatos", "soltar"} => l.pag = Nada
  /\ pc[p] \in {"acceder", "obtener", "pegar_mapeo", "pegar", "usar", "copiar", "agregar", "destruir"}
       => l.pag \in IdPaginas
  /\ pc[p] \in {"acceder", "obtener", "pegar_mapeo", "pegar", "usar"}
       \/ (pc[p] \in Buscando \cup Vueltas /\ l.vuelta # "creada")
       => l.luego \in {"agregar", "metadatos", "copiar"}
  /\ pc[p] \in {"pegar", "usar", "copiar"} => Presente(l.pag)
  /\ l.pag # Nada /\ l.luego \in {"metadatos", "copiar"} => l.pag \in PaginasDe(p)
  /\ pc[p] \in {"metadatos", "soltar", "destruir"} \/ l.luego = "metadatos"
       \/ l.forma \in {"extension", "rearmado"} => l.seg \in DOMAIN tabla[p]

Manejador == \A p \in Programas : PideMarco(p) /\ PideRanura(p) /\ DaDeAlta(p) /\ UsaPagina(p)

MarcosInv == MarcosTipo /\ EnSuLugar /\ Anotadas /\ Manejador

-----------------------------------------------------------------------------
(* Lemmas                                                                    *)

LEMMA MenorDeNaturales ==
  ASSUME NEW S \in SUBSET Nat, S # {}
  PROVE  Min(S) \in S
<1>1. PICK x \in S : \A y \in S : <<y, x>> \notin OpToRel(<, Nat)
  BY NatLessThanWellFounded, WFMin
<1>2. ASSUME NEW y \in S PROVE x <= y
  <2>1. ~(y < x)
    BY <1>1 DEF OpToRel
  <2>2. QED
    BY <2>1
<1>3. QED
  BY <1>2 DEF Min

LEMMA MarcosInicial == MuseInit => MarcosInv
<1> SUFFICES ASSUME MuseInit PROVE MarcosInv
  OBVIOUS
<1> USE MuseSupuesto DEF MuseInit
<1>1. LocalBien(LocalVacio)
  BY EmptySeq DEF LocalBien, LocalVacio
<1>2. MarcosTipo
  <2>1. tabla \in [Programas -> Seq(Segmentos)]
    BY EmptySeq
  <2>2. pc \in [Programas -> Puntos] /\ puntero \in 0..Marcos
    BY DEF Puntos
  <2>3. pagina \in [IdPaginas -> [presencia : BOOLEAN, marco : ONada(IdMarcos), ranura : ONada(IdRanuras)]]
    BY DEF PaginaVacia, ONada
  <2>4. QED
    BY <1>1, <2>1, <2>2, <2>3 DEF MarcosTipo
<1>3. EnSuLugar /\ Anotadas
  BY DEF EnSuLugar, Anotadas, Presente, PaginaVacia
<1>4. ASSUME NEW p \in Programas
      PROVE  PideMarco(p) /\ PideRanura(p) /\ DaDeAlta(p) /\ UsaPagina(p)
  <2>1. pc[p] = "libre" /\ loc[p] = LocalVacio
    OBVIOUS
  <2>2. /\ loc[p].pag = Nada /\ loc[p].forma = Nada /\ loc[p].luego = "libre"
        /\ loc[p].nuevas = <<>>
    BY <2>1 DEF LocalVacio
  <2>3. Nada \notin Formas
    OBVIOUS
  <2>4. QED
    BY <2>1, <2>2, <2>3 DEF PideMarco, PideRanura, DaDeAlta, UsaPagina, Buscando, Desalojando, Vueltas, Formas
<1>5. QED
  BY <1>2, <1>3, <1>4 DEF MarcosInv, Manejador

(* The pages of a table are pages. *)
LEMMA SegmentoDeTabla ==
  ASSUME MarcosTipo, NEW p \in Programas, NEW s \in DOMAIN tabla[p]
  PROVE  tabla[p][s] \in Segmentos /\ tabla[p][s].paginas \in Seq(IdPaginas)
<1>1. tabla[p] \in Seq(Segmentos)
  BY DEF MarcosTipo
<1>2. tabla[p][s] \in Segmentos
  BY <1>1, ElementOfSeq
<1>3. QED
  BY <1>2 DEF Segmentos

LEMMA Listadas ==
  ASSUME MarcosTipo, NEW p \in Programas
  PROVE  PaginasDe(p) \subseteq IdPaginas
<1> SUFFICES ASSUME NEW s \in DOMAIN tabla[p] PROVE Range(tabla[p][s].paginas) \subseteq IdPaginas
  BY DEF PaginasDe
<1>1. tabla[p][s].paginas \in Seq(IdPaginas)
  BY SegmentoDeTabla
<1>2. QED
  BY <1>1, ElementOfSeq DEF Range

(* A slot that is found is of no page. *)
LEMMA RanuraDeNadie ==
  ASSUME MarcosTipo, EnSuLugar, RanuraLibre # Nada
  PROVE  /\ RanuraLibre \in IdRanuras
         /\ \A g \in IdPaginas : pagina[g].ranura # RanuraLibre
<1>1. RanurasLibres # {} /\ RanuraLibre = Min(RanurasLibres)
  BY DEF RanuraLibre
<1>2. RanurasLibres \in SUBSET Nat
  BY MuseSupuesto DEF RanurasLibres, IdRanuras
<1>3. RanuraLibre \in RanurasLibres
  BY <1>1, <1>2, MenorDeNaturales
<1>4. QED
  BY <1>3 DEF RanurasLibres, EnSuLugar

LEMMA VueltaEsMarco ==
  ASSUME puntero \in 0..Marcos, NEW k \in Nat
  PROVE  Vuelta(k) \in IdMarcos
  BY MuseSupuesto DEF Vuelta, IdMarcos

LEMMA PasoALocal ==
  ASSUME MarcosTipo, NEW p \in Programas, NEW punto \in Puntos, NEW l, LocalBien(l), Ir(p, punto, l)
  PROVE  /\ pc' \in [Programas -> Puntos]
         /\ DOMAIN loc' = Programas /\ (\A q \in Programas : LocalBien(loc[q]))'
         /\ pc'[p] = punto /\ loc'[p] = l
  BY DEF Ir, MarcosTipo, LocalBien

(* A step that only moves the handler, and gives or takes the use of frames. *)
LEMMA SoloLocal ==
  ASSUME UnSoloPrograma, MarcosInv, NEW p \in Programas, NEW punto \in Puntos, NEW d, LocalBien(d),
         Ir(p, punto, d), UNCHANGED <<pagina, tabla>>, puntero' \in 0..Marcos,
         ranuras \subseteq ranuras', ranuras' \subseteq IdRanuras,
         bitMarco' \in [IdMarcos -> [ocupado : BOOLEAN, uso : BOOLEAN, modificado : BOOLEAN]],
         \A m \in IdMarcos : bitMarco'[m].ocupado = bitMarco[m].ocupado,
         d.nuevas = loc[p].nuevas,
         \A g \in IdPaginas : Presente(g) => g \in PaginasDe(p) \cup Range(d.nuevas) \cup {d.pag}
  PROVE  /\ pc'[p] = punto /\ loc'[p] = d
         /\ PideMarco(p)' /\ PideRanura(p)' /\ DaDeAlta(p)' /\ UsaPagina(p)' => MarcosInv'
<1> USE DEF MarcosInv
<1>1. /\ pc' \in [Programas -> Puntos]
      /\ DOMAIN loc' = Programas /\ (\A q \in Programas : LocalBien(loc[q]))'
      /\ pc'[p] = punto /\ loc'[p] = d
  BY PasoALocal
<1>2. MarcosTipo'
  BY <1>1 DEF MarcosTipo
<1>3. EnSuLugar'
  BY DEF EnSuLugar, Presente
<1>4. Anotadas'
  BY <1>1 DEF Anotadas, Presente, PaginasDe, UnSoloPrograma
<1>5. QED
  BY <1>1, <1>2, <1>3, <1>4 DEF Manejador, UnSoloPrograma

(* The same page, and the frames as they were. *)
LEMMA MismaPagina ==
  ASSUME UnSoloPrograma, MarcosInv, NEW p \in Programas, NEW punto \in Puntos, NEW d, LocalBien(d),
         Ir(p, punto, d), UNCHANGED <<bitMarco, puntero, pagina, tabla>>,
         ranuras \subseteq ranuras', ranuras' \subseteq IdRanuras,
         d.nuevas = loc[p].nuevas, d.pag = loc[p].pag \/ loc[p].pag \in PaginasDe(p) \cup {Nada}
  PROVE  /\ pc'[p] = punto /\ loc'[p] = d
         /\ PideMarco(p)' /\ PideRanura(p)' /\ DaDeAlta(p)' /\ UsaPagina(p)' => MarcosInv'
<1>1. \A g \in IdPaginas : Presente(g) => g \in PaginasDe(p) \cup Range(d.nuevas) \cup {d.pag}
  BY MuseSupuesto DEF MarcosInv, Anotadas
<1>2. /\ puntero' \in 0..Marcos
      /\ bitMarco' \in [IdMarcos -> [ocupado : BOOLEAN, uso : BOOLEAN, modificado : BOOLEAN]]
      /\ \A m \in IdMarcos : bitMarco'[m].ocupado = bitMarco[m].ocupado
  BY DEF MarcosInv, MarcosTipo
<1>3. QED
  BY <1>1, <1>2, SoloLocal

LEMMA BitLibreInv ==
  ASSUME UnSoloPrograma, MarcosInv, NEW p \in Programas, BitLibre(p)
  PROVE  MarcosInv'
<1> DEFINE l == loc[p]
           m == Min(MarcosLibres)
           d == [l EXCEPT !.marco = m]
<1> USE DEF MarcosInv
<1>1. /\ pc[p] = "bit_libre" /\ MarcosLibres # {} /\ Ir(p, l.vuelta, d)
      /\ bitMarco' = [bitMarco EXCEPT ![m] = [ocupado |-> TRUE, uso |-> TRUE, modificado |-> TRUE]]
      /\ UNCHANGED <<ranuras, puntero, upcm, swap, pagina, tabla, caido>>
  BY DEF BitLibre, Esta, disco, cuentas
<1>2. l.vuelta \in Vueltas /\ LocalBien(l) /\ \A q \in Programas : q = p
  BY <1>1 DEF MarcosTipo, Manejador, PideMarco, Buscando, UnSoloPrograma
<1>3. m \in IdMarcos /\ ~bitMarco[m].ocupado
  BY <1>1, MenorDeNaturales DEF MarcosLibres, IdMarcos
<1> HIDE DEF m
<1>4. /\ LocalBien(d) /\ d.marco = m
      /\ d.pag = l.pag /\ d.vuelta = l.vuelta /\ d.luego = l.luego /\ d.forma = l.forma
      /\ d.n = l.n /\ d.i = l.i /\ d.nuevas = l.nuevas /\ d.seg = l.seg
  BY <1>2 DEF LocalBien, LocalVacio
<1> HIDE DEF d
<1>5. /\ pc' \in [Programas -> Puntos]
      /\ DOMAIN loc' = Programas /\ (\A q \in Programas : LocalBien(loc[q]))'
      /\ pc'[p] = l.vuelta /\ loc'[p] = d
  BY <1>1, <1>2, <1>4, PasoALocal DEF Puntos, Vueltas
<1>6. MarcosTipo'
  BY <1>1, <1>3, <1>5 DEF MarcosTipo
<1>7. \A k \in IdMarcos : bitMarco'[k].ocupado = (k = m \/ bitMarco[k].ocupado)
  BY <1>1, <1>3 DEF MarcosTipo
<1>8. EnSuLugar' /\ Anotadas'
  BY <1>1, <1>2, <1>4, <1>5, <1>7 DEF EnSuLugar, Anotadas, Presente, PaginasDe
<1>9. PideMarco(p)'
  <2>1. pc'[p] \notin Buscando /\ pc'[p] \in Vueltas
    BY <1>2, <1>5 DEF Vueltas, Buscando, Desalojando
  <2>2. /\ l.pag \in IdPaginas /\ ~Presente(l.pag)
        /\ l.vuelta = "traida" => pagina[l.pag].ranura = Nada
    BY <1>1 DEF Manejador, PideMarco, Buscando
  <2>3. \A g \in IdPaginas : Presente(g) => pagina[g].marco # m
    BY <1>3 DEF EnSuLugar
  <2>4. QED
    BY <1>1, <1>3, <1>4, <1>5, <1>7, <2>1, <2>2, <2>3 DEF PideMarco, Presente
<1>10. PideRanura(p)'
  BY <1>1, <1>2, <1>5 DEF PideRanura, Vueltas, Desalojando
<1>11. DaDeAlta(p)' /\ UsaPagina(p)'
  BY <1>1, <1>2, <1>4, <1>5 DEF Manejador, DaDeAlta, UsaPagina, PaginasDe, Presente, Vueltas, Buscando, Desalojando
<1>12. QED
  BY <1>2, <1>6, <1>8, <1>9, <1>10, <1>11 DEF Manejador

LEMMA GastarUso ==
  ASSUME MarcosTipo, NEW busca, NEW pasos
  PROVE  /\ Gastados(busca, pasos) \in [IdMarcos -> [ocupado : BOOLEAN, uso : BOOLEAN, modificado : BOOLEAN]]
         /\ \A m \in IdMarcos : Gastados(busca, pasos)[m].ocupado = bitMarco[m].ocupado
  BY DEF MarcosTipo, Gastados

LEMMA ClockInv ==
  ASSUME UnSoloPrograma, MarcosInv, NEW p \in Programas, SinBitLibre(p) \/ Buscar(p) \/ NoHallado(p)
  PROVE  MarcosInv'
<1> DEFINE l == loc[p]
<1> USE DEF MarcosInv
<1>1. LocalBien(l)
  BY DEF MarcosTipo
<1>2. pc[p] \in Buscando /\ pc[p] \notin Desalojando
  BY DEF SinBitLibre, Buscar, NoHallado, Esta, Buscando, Desalojando
<1>3. \A m \in IdMarcos : bitMarco[m].ocupado
  BY DEF SinBitLibre, Buscar, NoHallado, Esta, MarcosLibres, Manejador, PideMarco, Buscando, Desalojando
<1>4. ASSUME NEW punto \in {"clock", "buscar_pagina"}, NEW d, LocalBien(d), Ir(p, punto, d),
             UNCHANGED <<ranuras, pagina, tabla>>, puntero' \in 0..Marcos,
             bitMarco' \in [IdMarcos -> [ocupado : BOOLEAN, uso : BOOLEAN, modificado : BOOLEAN]],
             \A m \in IdMarcos : bitMarco'[m].ocupado = bitMarco[m].ocupado,
             d.pag = l.pag, d.vuelta = l.vuelta, d.luego = l.luego, d.forma = l.forma,
             d.n = l.n, d.nuevas = l.nuevas, d.seg = l.seg,
             punto = "buscar_pagina" => d.marco \in IdMarcos
      PROVE  MarcosInv'
  <2>1. \A g \in IdPaginas : Presente(g) => g \in PaginasDe(p) \cup Range(d.nuevas) \cup {d.pag}
    BY <1>4 DEF Anotadas
  <2>2. punto \in Puntos
    BY <1>4 DEF Puntos
  <2>3. /\ pc'[p] = punto /\ loc'[p] = d
        /\ PideMarco(p)' /\ PideRanura(p)' /\ DaDeAlta(p)' /\ UsaPagina(p)' => MarcosInv'
    BY <1>4, <2>1, <2>2, SoloLocal DEF MarcosTipo
  <2>4. punto \in Buscando /\ punto \notin Desalojando \cup Vueltas
    BY <1>4 DEF Buscando, Desalojando, Vueltas
  <2>5. PideMarco(p)'
    BY <1>2, <1>3, <1>4, <2>3, <2>4 DEF Manejador, PideMarco, Presente, Vueltas
  <2>6. PideRanura(p)'
    BY <2>3, <2>4 DEF PideRanura, Desalojando
  <2>7. DaDeAlta(p)'
    BY <1>2, <1>4, <2>3, <2>4 DEF Manejador, DaDeAlta, Buscando, Desalojando
  <2>8. UsaPagina(p)'
    BY <1>2, <1>4, <2>3, <2>4 DEF Manejador, UsaPagina, PaginasDe, Presente, Buscando, Desalojando
  <2>9. QED
    BY <2>3, <2>5, <2>6, <2>7, <2>8
<1>5. CASE SinBitLibre(p)
  <2> DEFINE d == [l EXCEPT !.busca = 1]
  <2>1. Ir(p, "clock", d) /\ UNCHANGED <<bitMarco, puntero, ranuras, pagina, tabla>>
    BY <1>5 DEF SinBitLibre, bits, cuentas
  <2>2. /\ LocalBien(d) /\ d.pag = l.pag /\ d.vuelta = l.vuelta /\ d.luego = l.luego /\ d.forma = l.forma
        /\ d.n = l.n /\ d.nuevas = l.nuevas /\ d.seg = l.seg
    BY <1>1 DEF LocalBien, LocalVacio
  <2> HIDE DEF d
  <2>3. QED
    BY <1>4, <2>1, <2>2 DEF MarcosTipo
<1>6. CASE NoHallado(p)
  <2> DEFINE d == [l EXCEPT !.busca = @ + 1]
  <2>1. /\ Ir(p, "clock", d) /\ UNCHANGED <<puntero, ranuras, pagina, tabla>>
        /\ bitMarco' = Gastados(l.busca, Pasos)
    BY <1>6 DEF NoHallado, cuentas
  <2>2. /\ LocalBien(d) /\ d.pag = l.pag /\ d.vuelta = l.vuelta /\ d.luego = l.luego /\ d.forma = l.forma
        /\ d.n = l.n /\ d.nuevas = l.nuevas /\ d.seg = l.seg
    BY <1>1 DEF LocalBien, LocalVacio
  <2> HIDE DEF d
  <2>3. /\ bitMarco' \in [IdMarcos -> [ocupado : BOOLEAN, uso : BOOLEAN, modificado : BOOLEAN]]
        /\ \A m \in IdMarcos : bitMarco'[m].ocupado = bitMarco[m].ocupado
    BY <2>1, GastarUso
  <2>4. puntero' \in 0..Marcos
    BY <2>1 DEF MarcosTipo
  <2>5. QED
    BY <1>4, <2>1, <2>2, <2>3, <2>4
<1>7. CASE Buscar(p)
  <2> DEFINE k == Min(Hallados(l.busca))
             d == [l EXCEPT !.marco = Vuelta(k), !.busca = 0]
  <2>1. /\ Ir(p, "buscar_pagina", d) /\ UNCHANGED <<ranuras, pagina, tabla>>
        /\ bitMarco' = Gastados(l.busca, 0..(k - 1)) /\ puntero' = Mano(k)
        /\ Hallados(l.busca) # {}
    BY <1>7 DEF Buscar, cuentas
  <2>2. k \in Nat
    BY <2>1, MenorDeNaturales DEF Hallados, Pasos
  <2> HIDE DEF k
  <2>3. puntero \in 0..Marcos /\ Vuelta(k) \in IdMarcos
    BY <2>2, VueltaEsMarco DEF MarcosTipo
  <2>4. puntero' \in 0..Marcos
    BY <2>1, <2>2, <2>3, MuseSupuesto DEF Mano, IdMarcos
  <2>5. /\ LocalBien(d) /\ d.pag = l.pag /\ d.vuelta = l.vuelta /\ d.luego = l.luego /\ d.forma = l.forma
        /\ d.n = l.n /\ d.nuevas = l.nuevas /\ d.seg = l.seg /\ d.marco = Vuelta(k)
    BY <1>1 DEF LocalBien, LocalVacio
  <2> HIDE DEF d
  <2>6. /\ bitMarco' \in [IdMarcos -> [ocupado : BOOLEAN, uso : BOOLEAN, modificado : BOOLEAN]]
        /\ \A m \in IdMarcos : bitMarco'[m].ocupado = bitMarco[m].ocupado
    BY <2>1, GastarUso
  <2>7. QED
    BY <1>4, <2>1, <2>3, <2>4, <2>5, <2>6
<1>8. QED
  BY <1>5, <1>6, <1>7

LEMMA BuscarPaginaInv ==
  ASSUME UnSoloPrograma, MarcosInv, NEW p \in Programas, BuscarPagina(p)
  PROVE  MarcosInv'
<1> DEFINE l == loc[p]
<1> USE DEF MarcosInv
<1>1. /\ pc[p] = "buscar_pagina" /\ LocalBien(l) /\ l.vuelta \in Vueltas
      /\ l.pag \in IdPaginas /\ ~Presente(l.pag)
      /\ l.vuelta = "traida" => pagina[l.pag].ranura = Nada
      /\ l.marco \in IdMarcos /\ \A m \in IdMarcos : bitMarco[m].ocupado
      /\ UNCHANGED <<bitMarco, puntero, ranuras, pagina, tabla>>
  BY DEF BuscarPagina, Esta, MarcosTipo, Manejador, PideMarco, Buscando, Desalojando, bits, cuentas
<1>2. l.nuevas = <<>>
  BY <1>1 DEF Manejador, DaDeAlta
<1>3. \A g \in IdPaginas : Presente(g) => g \in Visibles
  BY <1>1, <1>2 DEF Anotadas, Visibles, Range
<1>4. CASE Ocupantes(l.marco) = {}
  <2>1. Ir(p, l.vuelta, l)
    BY <1>4 DEF BuscarPagina
  <2>2. /\ pc'[p] = l.vuelta /\ loc'[p] = l
        /\ PideMarco(p)' /\ PideRanura(p)' /\ DaDeAlta(p)' /\ UsaPagina(p)' => MarcosInv'
    BY <1>1, <2>1, MismaPagina DEF Puntos, Vueltas, MarcosTipo
  <2>3. \A g \in IdPaginas : Presente(g) => pagina[g].marco # l.marco
    BY <1>3, <1>4 DEF Ocupantes, Presente
  <2>4. PideMarco(p)' /\ PideRanura(p)'
    BY <1>1, <2>2, <2>3 DEF PideMarco, PideRanura, Presente, Vueltas, Buscando, Desalojando
  <2>5. DaDeAlta(p)' /\ UsaPagina(p)'
    BY <1>1, <2>2 DEF Manejador, DaDeAlta, UsaPagina, PaginasDe, Presente, Vueltas, Buscando, Desalojando
  <2>6. QED
    BY <2>2, <2>4, <2>5
<1>5. CASE Ocupantes(l.marco) # {}
  <2>1. PICK g \in Ocupantes(l.marco) : Ir(p, "a_swap", [l EXCEPT !.victima = g])
    BY <1>5 DEF BuscarPagina
  <2> DEFINE d == [l EXCEPT !.victima = g]
  <2>2. /\ LocalBien(d) /\ d.pag = l.pag /\ d.vuelta = l.vuelta /\ d.luego = l.luego /\ d.forma = l.forma
        /\ d.n = l.n /\ d.nuevas = l.nuevas /\ d.seg = l.seg /\ d.victima = g /\ d.marco = l.marco
    BY <1>1 DEF LocalBien, LocalVacio
  <2>3. Ir(p, "a_swap", d)
    BY <2>1
  <2> HIDE DEF d
  <2>4. /\ pc'[p] = "a_swap" /\ loc'[p] = d
        /\ PideMarco(p)' /\ PideRanura(p)' /\ DaDeAlta(p)' /\ UsaPagina(p)' => MarcosInv'
    BY <1>1, <2>2, <2>3, MismaPagina DEF Puntos, MarcosTipo
  <2>5. g \in IdPaginas /\ Presente(g) /\ pagina[g].marco = l.marco
    BY <2>1, Listadas DEF Ocupantes, Visibles, Presente
  <2>6. PideMarco(p)' /\ PideRanura(p)'
    BY <1>1, <2>2, <2>4, <2>5 DEF PideMarco, PideRanura, Presente, Vueltas, Buscando, Desalojando
  <2>7. DaDeAlta(p)' /\ UsaPagina(p)'
    BY <1>1, <2>2, <2>4 DEF Manejador, DaDeAlta, UsaPagina, PaginasDe, Presente, Vueltas, Buscando, Desalojando
  <2>8. QED
    BY <2>4, <2>6, <2>7
<1>6. QED
  BY <1>4, <1>5

(* A frame is used: it stays as occupied as it was. *)
LEMMA MarcoUsado ==
  ASSUME MarcosTipo, NEW m \in IdMarcos, NEW v \in BOOLEAN
  PROVE  /\ Usado(m, v) \in [IdMarcos -> [ocupado : BOOLEAN, uso : BOOLEAN, modificado : BOOLEAN]]
         /\ \A k \in IdMarcos : Usado(m, v)[k].ocupado = bitMarco[k].ocupado
  BY DEF MarcosTipo, Usado

(* The victim and the slot are chosen, and the frame copied. *)
LEMMA VictimaInv ==
  ASSUME UnSoloPrograma, MarcosInv, NEW p \in Programas, ElegirRanura(p) \/ CopiarASwap(p)
  PROVE  MarcosInv'
<1> DEFINE l == loc[p]
<1> USE DEF MarcosInv
<1>1. /\ pc[p] \in Desalojando \ {"desalojar"} /\ ~caido /\ LocalBien(l) /\ l.vuelta \in Vueltas
      /\ l.pag \in IdPaginas /\ ~Presente(l.pag)
      /\ l.vuelta = "traida" => pagina[l.pag].ranura = Nada
      /\ l.marco \in IdMarcos /\ \A m \in IdMarcos : bitMarco[m].ocupado
      /\ l.victima \in IdPaginas /\ Presente(l.victima) /\ pagina[l.victima].marco = l.marco
  BY DEF ElegirRanura, CopiarASwap, Esta, MarcosTipo, Manejador, PideMarco, PideRanura, Buscando, Desalojando
<1>2. ASSUME NEW punto \in {"copiar_a_swap", "desalojar"}, NEW d, LocalBien(d), Ir(p, punto, d),
             UNCHANGED <<bitMarco, puntero, pagina, tabla>>,
             ranuras \subseteq ranuras', ranuras' \subseteq IdRanuras,
             d.pag = l.pag, d.vuelta = l.vuelta, d.luego = l.luego, d.forma = l.forma,
             d.n = l.n, d.i = l.i, d.nuevas = l.nuevas, d.seg = l.seg, d.marco = l.marco,
             d.victima = l.victima,
             ~caido' => d.ranura \in IdRanuras /\ \A g \in IdPaginas : pagina[g].ranura # d.ranura,
             punto = "desalojar" /\ ~caido' => d.ranura \in ranuras'
      PROVE  MarcosInv'
  <2>1. /\ pc'[p] = punto /\ loc'[p] = d
        /\ PideMarco(p)' /\ PideRanura(p)' /\ DaDeAlta(p)' /\ UsaPagina(p)' => MarcosInv'
    BY <1>2, MismaPagina DEF Puntos
  <2>2. punto \in Buscando /\ punto \in Desalojando /\ punto \notin Vueltas
    BY <1>2 DEF Buscando, Desalojando, Vueltas
  <2>3. PideMarco(p)'
    BY <1>1, <1>2, <2>1, <2>2 DEF PideMarco, Presente
  <2>4. PideRanura(p)'
    BY <1>1, <1>2, <2>1 DEF PideRanura, Presente
  <2>5. DaDeAlta(p)' /\ UsaPagina(p)'
    BY <1>1, <1>2, <2>1, <2>2 DEF Manejador, DaDeAlta, UsaPagina, PaginasDe, Presente, Vueltas, Buscando, Desalojando
  <2>6. QED
    BY <2>1, <2>3, <2>4, <2>5
<1>3. CASE ElegirRanura(p)
  <2> DEFINE d == [l EXCEPT !.origen = pagina[l.victima].marco, !.ranura = RanuraLibre]
  <2>1. /\ Ir(p, "copiar_a_swap", d) /\ UNCHANGED <<bitMarco, puntero, ranuras, pagina, tabla>>
        /\ ~caido' => RanuraLibre # Nada
    BY <1>3 DEF ElegirRanura, bits, cuentas
  <2>2. /\ LocalBien(d) /\ d.pag = l.pag /\ d.vuelta = l.vuelta /\ d.luego = l.luego /\ d.forma = l.forma
        /\ d.n = l.n /\ d.i = l.i /\ d.nuevas = l.nuevas /\ d.seg = l.seg /\ d.marco = l.marco
        /\ d.victima = l.victima /\ d.ranura = RanuraLibre
    BY <1>1 DEF LocalBien, LocalVacio
  <2> HIDE DEF d
  <2>3. QED
    BY <1>2, <2>1, <2>2, RanuraDeNadie DEF MarcosTipo
<1>4. CASE CopiarASwap(p)
  <2> DEFINE d == [l EXCEPT !.origen = Nada]
  <2>1. /\ Ir(p, "desalojar", d) /\ UNCHANGED <<bitMarco, puntero, pagina, tabla, caido>>
        /\ ranuras' = ranuras \cup {l.ranura} /\ pc[p] = "copiar_a_swap"
    BY <1>4 DEF CopiarASwap, cuentas, Marcar, Esta
  <2>2. /\ LocalBien(d) /\ d.pag = l.pag /\ d.vuelta = l.vuelta /\ d.luego = l.luego /\ d.forma = l.forma
        /\ d.n = l.n /\ d.i = l.i /\ d.nuevas = l.nuevas /\ d.seg = l.seg /\ d.marco = l.marco
        /\ d.victima = l.victima /\ d.ranura = l.ranura
    BY <1>1 DEF LocalBien, LocalVacio
  <2> HIDE DEF d
  <2>3. l.ranura \in IdRanuras /\ \A g \in IdPaginas : pagina[g].ranura # l.ranura
    BY <1>1, <2>1 DEF Manejador, PideRanura
  <2>4. QED
    BY <1>2, <2>1, <2>2, <2>3 DEF MarcosTipo
<1>5. QED
  BY <1>3, <1>4

(* The page of the frame goes to the slot. *)
LEMMA DesalojarInv ==
  ASSUME UnSoloPrograma, MarcosInv, NEW p \in Programas, Desalojar(p)
  PROVE  MarcosInv'
<1> DEFINE l == loc[p]
           v == l.victima
           d == [l EXCEPT !.victima = Nada, !.ranura = Nada]
<1> USE DEF MarcosInv
<1>1. /\ pc[p] = "desalojar" /\ ~caido /\ Ir(p, l.vuelta, d)
      /\ pagina' = [pagina EXCEPT ![v] = [presencia |-> FALSE, marco |-> Nada, ranura |-> l.ranura]]
      /\ bitMarco' = Usado(l.marco, FALSE)
      /\ UNCHANGED <<ranuras, puntero, tabla>>
  BY DEF Desalojar, Esta, cuentas, Desalojada
<1>2. /\ LocalBien(l) /\ l.vuelta \in Vueltas
      /\ l.pag \in IdPaginas /\ ~Presente(l.pag)
      /\ l.vuelta = "traida" => pagina[l.pag].ranura = Nada
      /\ l.marco \in IdMarcos /\ \A m \in IdMarcos : bitMarco[m].ocupado
      /\ v \in IdPaginas /\ Presente(v) /\ pagina[v].marco = l.marco
      /\ l.ranura \in IdRanuras /\ l.ranura \in ranuras /\ \A g \in IdPaginas : pagina[g].ranura # l.ranura
      /\ \A q \in Programas : q = p
  BY <1>1 DEF MarcosTipo, Manejador, PideMarco, PideRanura, Buscando, Desalojando, UnSoloPrograma
<1>3. /\ LocalBien(d) /\ d.pag = l.pag /\ d.vuelta = l.vuelta /\ d.luego = l.luego /\ d.forma = l.forma
      /\ d.n = l.n /\ d.i = l.i /\ d.nuevas = l.nuevas /\ d.seg = l.seg /\ d.marco = l.marco
  BY <1>2 DEF LocalBien, LocalVacio
<1> HIDE DEF d
<1>4. /\ pc' \in [Programas -> Puntos]
      /\ DOMAIN loc' = Programas /\ (\A q \in Programas : LocalBien(loc[q]))'
      /\ pc'[p] = l.vuelta /\ loc'[p] = d
  BY <1>1, <1>2, <1>3, PasoALocal DEF Puntos, Vueltas
<1>5. /\ bitMarco' \in [IdMarcos -> [ocupado : BOOLEAN, uso : BOOLEAN, modificado : BOOLEAN]]
      /\ \A m \in IdMarcos : bitMarco'[m].ocupado
  <2>1. /\ Usado(l.marco, FALSE) \in [IdMarcos -> [ocupado : BOOLEAN, uso : BOOLEAN, modificado : BOOLEAN]]
        /\ \A m \in IdMarcos : Usado(l.marco, FALSE)[m].ocupado = bitMarco[m].ocupado
    <3>1. MarcosTipo /\ l.marco \in IdMarcos
      BY <1>2
    <3>2. QED
      BY ONLY <3>1, MarcoUsado
  <2>2. QED
    BY <1>1, <1>2, <2>1
<1>6. pagina' \in [IdPaginas -> [presencia : BOOLEAN, marco : ONada(IdMarcos), ranura : ONada(IdRanuras)]]
  BY <1>1, <1>2 DEF MarcosTipo, ONada
<1>7. /\ pagina'[v] = [presencia |-> FALSE, marco |-> Nada, ranura |-> l.ranura]
      /\ \A g \in IdPaginas \ {v} : pagina'[g] = pagina[g]
  BY <1>1, <1>2 DEF MarcosTipo
<1>8. MarcosTipo'
  BY <1>1, <1>4, <1>5, <1>6 DEF MarcosTipo
<1>9. EnSuLugar'
  <2> SUFFICES ASSUME NEW g \in IdPaginas, NEW h \in IdPaginas
               PROVE  /\ ~Presente(g)' => pagina'[g].marco = Nada
                      /\ Presente(g)' => /\ pagina'[g].marco \in IdMarcos
                                          /\ bitMarco'[pagina'[g].marco].ocupado
                                          /\ pagina'[g].ranura = Nada
                      /\ pagina'[g].ranura # Nada => pagina'[g].ranura \in ranuras
                      /\ g # h => /\ Presente(g)' /\ Presente(h)' => pagina'[g].marco # pagina'[h].marco
                                  /\ pagina'[g].ranura = Nada \/ pagina'[g].ranura # pagina'[h].ranura
    BY <1>1 DEF EnSuLugar
  <2>1. CASE g = v
    BY <1>2, <1>7, <2>1 DEF Presente
  <2>2. CASE g # v
    BY <1>2, <1>5, <1>7, <2>2 DEF EnSuLugar, Presente
  <2>3. QED
    BY <2>1, <2>2
<1>10. Anotadas'
  BY <1>1, <1>2, <1>3, <1>4, <1>7 DEF Anotadas, Presente, PaginasDe
<1>11. PideMarco(p)'
  <2>1. /\ l.pag # v /\ pagina'[l.pag] = pagina[l.pag]
        /\ \A g \in IdPaginas : Presente(g)' => pagina'[g].marco # l.marco
    BY <1>2, <1>7 DEF EnSuLugar, Presente
  <2>2. l.vuelta \notin Buscando
    BY <1>2 DEF Vueltas, Buscando, Desalojando
  <2>3. QED
    BY <1>2, <1>3, <1>4, <1>5, <2>1, <2>2 DEF PideMarco, Presente
<1>12. PideRanura(p)' /\ DaDeAlta(p)' /\ UsaPagina(p)'
  BY <1>1, <1>2, <1>3, <1>4 DEF Manejador, PideRanura, DaDeAlta, UsaPagina, PaginasDe, Vueltas, Buscando, Desalojando
<1>13. QED
  BY <1>2, <1>8, <1>9, <1>10, <1>11, <1>12 DEF Manejador

LEMMA AsignarMarcoInv ==
  ASSUME UnSoloPrograma, MarcosInv, NEW p \in Programas, AsignarMarco(p)
  PROVE  MarcosInv'
  BY BitLibreInv, ClockInv, BuscarPaginaInv, VictimaInv, DesalojarInv DEF AsignarMarco

-----------------------------------------------------------------------------
(* A page is given the frame its handler has. *)
LEMMA DarMarco ==
  ASSUME MarcosTipo, EnSuLugar, NEW g \in IdPaginas, NEW m \in IdMarcos, bitMarco[m].ocupado,
         \A h \in IdPaginas : Presente(h) => pagina[h].marco # m,
         pagina' = [pagina EXCEPT ![g] = [presencia |-> TRUE, marco |-> m, ranura |-> Nada]],
         \A k \in IdMarcos : bitMarco'[k].ocupado = bitMarco[k].ocupado, ranuras' = ranuras
  PROVE  /\ EnSuLugar'
         /\ pagina' \in [IdPaginas -> [presencia : BOOLEAN, marco : ONada(IdMarcos),
                                       ranura : ONada(IdRanuras)]]
         /\ \A h \in IdPaginas : Presente(h)' = (h = g \/ Presente(h))
<1>1. /\ pagina'[g] = [presencia |-> TRUE, marco |-> m, ranura |-> Nada]
      /\ \A h \in IdPaginas \ {g} : pagina'[h] = pagina[h]
  BY DEF MarcosTipo
<1>2. EnSuLugar'
  BY <1>1, MuseSupuesto DEF EnSuLugar, Presente
<1>3. pagina' \in [IdPaginas -> [presencia : BOOLEAN, marco : ONada(IdMarcos), ranura : ONada(IdRanuras)]]
  BY DEF MarcosTipo, ONada
<1>4. QED
  BY <1>1, <1>2, <1>3 DEF Presente, MarcosTipo

(* Bringing a page starts by freeing its slot. *)
LEMMA TraerDeSwapInv ==
  ASSUME UnSoloPrograma, MarcosInv, NEW p \in Programas, TraerDeSwap(p)
  PROVE  MarcosInv'
<1> DEFINE l == loc[p]
           g == l.pag
           r == pagina[g].ranura
           d == [l EXCEPT !.traido = swap[r], !.vuelta = "traida"]
<1> USE DEF MarcosInv
<1>1. /\ pc[p] = "obtener" /\ ~Presente(g) /\ r # Nada /\ Ir(p, "bit_libre", d)
      /\ pagina' = [pagina EXCEPT ![g].ranura = Nada] /\ ranuras' = ranuras \ {r}
      /\ UNCHANGED <<bitMarco, puntero, tabla>>
  BY DEF TraerDeSwap, Esta, cuentas, Presente
<1>2. /\ LocalBien(l) /\ g \in IdPaginas /\ l.nuevas = <<>>
      /\ l.luego \in {"agregar", "metadatos", "copiar"} /\ \A q \in Programas : q = p
  BY <1>1 DEF MarcosTipo, Manejador, DaDeAlta, UsaPagina, UnSoloPrograma
<1>3. /\ LocalBien(d) /\ d.pag = g /\ d.vuelta = "traida" /\ d.luego = l.luego /\ d.forma = l.forma
      /\ d.n = l.n /\ d.i = l.i /\ d.nuevas = l.nuevas /\ d.seg = l.seg
  BY <1>2 DEF LocalBien, LocalVacio
<1> HIDE DEF d
<1>4. /\ pc' \in [Programas -> Puntos]
      /\ DOMAIN loc' = Programas /\ (\A q \in Programas : LocalBien(loc[q]))'
      /\ pc'[p] = "bit_libre" /\ loc'[p] = d
  BY <1>1, <1>3, PasoALocal DEF Puntos
<1>5. /\ pagina'[g].presencia = FALSE /\ pagina'[g].marco = pagina[g].marco /\ pagina'[g].ranura = Nada
      /\ \A h \in IdPaginas \ {g} : pagina'[h] = pagina[h]
      /\ pagina' \in [IdPaginas -> [presencia : BOOLEAN, marco : ONada(IdMarcos), ranura : ONada(IdRanuras)]]
  <2> DEFINE P == [presencia : BOOLEAN, marco : ONada(IdMarcos), ranura : ONada(IdRanuras)]
             nueva == [pagina[g] EXCEPT !.ranura = Nada]
  <2>1. pagina \in [IdPaginas -> P] /\ pagina[g] \in P
    BY <1>2 DEF MarcosTipo
  <2>2. nueva \in P /\ nueva.presencia = pagina[g].presencia /\ nueva.marco = pagina[g].marco /\ nueva.ranura = Nada
    BY ONLY <2>1 DEF ONada
  <2>3. pagina' = [pagina EXCEPT ![g] = nueva] /\ ~pagina[g].presencia /\ pagina[g].presencia \in BOOLEAN
    BY <1>1, <2>1 DEF Presente
  <2> HIDE DEF P, nueva
  <2>4. pagina' \in [IdPaginas -> P] /\ pagina'[g] = nueva /\ \A h \in IdPaginas \ {g} : pagina'[h] = pagina[h]
    BY <1>2, <2>1, <2>2, <2>3
  <2>5. QED
    BY <2>2, <2>3, <2>4 DEF P
<1>6. MarcosTipo'
  BY <1>1, <1>4, <1>5 DEF MarcosTipo
<1>7. EnSuLugar'
  <2> SUFFICES ASSUME NEW h \in IdPaginas, NEW k \in IdPaginas
               PROVE  /\ ~Presente(h)' => pagina'[h].marco = Nada
                      /\ Presente(h)' => /\ pagina'[h].marco \in IdMarcos
                                          /\ bitMarco[pagina'[h].marco].ocupado
                                          /\ pagina'[h].ranura = Nada
                      /\ pagina'[h].ranura # Nada => pagina'[h].ranura \in ranuras'
                      /\ h # k => /\ Presente(h)' /\ Presente(k)' => pagina'[h].marco # pagina'[k].marco
                                  /\ pagina'[h].ranura = Nada \/ pagina'[h].ranura # pagina'[k].ranura
    BY <1>1 DEF EnSuLugar
  <2>1. CASE h = g
    BY <1>1, <1>2, <1>5, <2>1 DEF EnSuLugar, Presente
  <2>2. CASE h # g
    <3>1. pagina'[h] = pagina[h] /\ (pagina[h].ranura # r \/ pagina[h].ranura = Nada)
      BY <1>1, <1>2, <1>5, <2>2 DEF EnSuLugar
    <3>2. QED
      BY <1>1, <1>2, <1>5, <2>2, <3>1 DEF EnSuLugar, Presente
  <2>3. QED
    BY <2>1, <2>2
<1>8. Anotadas'
  BY <1>1, <1>2, <1>3, <1>4, <1>5 DEF Anotadas, Presente, PaginasDe
<1>9. PideMarco(p)' /\ PideRanura(p)'
  BY <1>2, <1>3, <1>4, <1>5 DEF PideMarco, PideRanura, Presente, Vueltas, Buscando, Desalojando
<1>10. DaDeAlta(p)' /\ UsaPagina(p)'
  BY <1>1, <1>2, <1>3, <1>4 DEF Manejador, DaDeAlta, UsaPagina, PaginasDe, Vueltas, Buscando, Desalojando
<1>11. QED
  BY <1>2, <1>6, <1>7, <1>8, <1>9, <1>10 DEF Manejador

(* The page a handler looked a frame for gets it. *)
LEMMA PaginaConMarco ==
  ASSUME UnSoloPrograma, MarcosInv, NEW p \in Programas, pc[p] \in Vueltas,
         NEW punto \in {"pegar", "pegar_mapeo", "obtener", "agregar"}, NEW d, LocalBien(d), Ir(p, punto, d),
         pagina' = [pagina EXCEPT ![loc[p].pag] =
                      [presencia |-> TRUE, marco |-> loc[p].marco, ranura |-> Nada]],
         bitMarco' \in [IdMarcos -> [ocupado : BOOLEAN, uso : BOOLEAN, modificado : BOOLEAN]],
         \A k \in IdMarcos : bitMarco'[k].ocupado = bitMarco[k].ocupado,
         UNCHANGED <<ranuras, puntero, tabla>>,
         d.pag = loc[p].pag, d.forma = loc[p].forma, d.n = loc[p].n, d.nuevas = loc[p].nuevas,
         d.seg = loc[p].seg, d.luego \in {"agregar", "metadatos", "copiar"},
         d.luego = loc[p].luego \/ (pc[p] = "creada" /\ d.luego = "agregar"),
         punto = "agregar" => pc[p] = "creada"
  PROVE  MarcosInv'
<1> DEFINE l == loc[p]
<1> USE DEF MarcosInv
<1>1. /\ l.pag \in IdPaginas /\ ~Presente(l.pag)
      /\ l.marco \in IdMarcos /\ bitMarco[l.marco].ocupado
      /\ \A g \in IdPaginas : Presente(g) => pagina[g].marco # l.marco
      /\ l.nuevas = <<>> /\ \A q \in Programas : q = p
  BY DEF Manejador, PideMarco, DaDeAlta, Vueltas, UnSoloPrograma
<1>2. /\ pc' \in [Programas -> Puntos]
      /\ DOMAIN loc' = Programas /\ (\A q \in Programas : LocalBien(loc[q]))'
      /\ pc'[p] = punto /\ loc'[p] = d
  BY PasoALocal DEF Puntos
<1>3. /\ EnSuLugar'
      /\ pagina' \in [IdPaginas -> [presencia : BOOLEAN, marco : ONada(IdMarcos),
                                    ranura : ONada(IdRanuras)]]
      /\ \A h \in IdPaginas : Presente(h)' = (h = l.pag \/ Presente(h))
  BY <1>1, DarMarco
<1>4. MarcosTipo'
  BY <1>2, <1>3 DEF MarcosTipo
<1>5. Anotadas'
  BY <1>1, <1>2, <1>3 DEF Anotadas, PaginasDe, Presente
<1>6. punto \notin Buscando \cup Vueltas \cup Desalojando
  BY DEF Buscando, Vueltas, Desalojando
<1>7. PideMarco(p)' /\ PideRanura(p)'
  BY <1>2, <1>6 DEF PideMarco, PideRanura, Buscando, Desalojando
<1>8. DaDeAlta(p)'
  BY <1>1, <1>2, <1>6 DEF Manejador, DaDeAlta
<1>9. UsaPagina(p)'
  BY <1>1, <1>2, <1>3, <1>6 DEF Manejador, UsaPagina, PaginasDe, Vueltas
<1>10. QED
  BY <1>1, <1>3, <1>4, <1>5, <1>7, <1>8, <1>9 DEF Manejador

(* A handler that is at a page which stays where it is. *)
EnPagina == {"acceder", "obtener", "pegar", "pegar_mapeo", "usar"}

LEMMA MismoPedido ==
  ASSUME UnSoloPrograma, MarcosInv, NEW p \in Programas, pc[p] \in EnPagina,
         NEW punto \in EnPagina, NEW d, LocalBien(d), Ir(p, punto, d),
         UNCHANGED <<bitMarco, puntero, ranuras, pagina, tabla>>,
         d.pag = loc[p].pag, d.forma = loc[p].forma, d.n = loc[p].n, d.nuevas = loc[p].nuevas,
         d.seg = loc[p].seg, d.luego = loc[p].luego,
         punto \in {"usar", "pegar"} => Presente(loc[p].pag)
  PROVE  MarcosInv'
<1> USE DEF MarcosInv
<1>1. /\ pc'[p] = punto /\ loc'[p] = d
      /\ PideMarco(p)' /\ PideRanura(p)' /\ DaDeAlta(p)' /\ UsaPagina(p)' => MarcosInv'
  BY MismaPagina DEF Puntos, EnPagina, MarcosTipo
<1>2. PideMarco(p)' /\ PideRanura(p)'
  BY <1>1 DEF PideMarco, PideRanura, EnPagina, Buscando, Desalojando, Vueltas
<1>3. DaDeAlta(p)' /\ UsaPagina(p)'
  BY <1>1 DEF Manejador, DaDeAlta, UsaPagina, PaginasDe, Presente, EnPagina, Buscando, Desalojando, Vueltas
<1>4. QED
  BY <1>1, <1>2, <1>3

LEMMA TraidaInv ==
  ASSUME UnSoloPrograma, MarcosInv, NEW p \in Programas, Traida(p)
  PROVE  MarcosInv'
<1> DEFINE l == loc[p]
<1> USE DEF MarcosInv
<1>1. /\ pc[p] = "traida" /\ Ir(p, "pegar", l) /\ UNCHANGED <<bitMarco, ranuras, puntero, tabla>>
      /\ pagina' = [pagina EXCEPT ![l.pag] = [presencia |-> TRUE, marco |-> l.marco, ranura |-> @.ranura]]
  BY DEF Traida, Esta, bits, cuentas
<1>2. /\ pc[p] \in Vueltas /\ LocalBien(l) /\ l.pag \in IdPaginas /\ pagina[l.pag].ranura = Nada
      /\ l.luego \in {"agregar", "metadatos", "copiar"}
  BY <1>1 DEF MarcosTipo, Manejador, PideMarco, UsaPagina, Vueltas
<1>3. pagina' = [pagina EXCEPT ![l.pag] = [presencia |-> TRUE, marco |-> l.marco, ranura |-> Nada]]
  BY <1>1, <1>2 DEF MarcosTipo
<1>4. QED
  BY <1>1, <1>2, <1>3, PaginaConMarco DEF MarcosTipo

LEMMA PegarInv ==
  ASSUME UnSoloPrograma, MarcosInv, NEW p \in Programas,
         EnMemoria(p) \/ Acceder(p) \/ Pegar(p, "pegar", "usar") \/ Pegar(p, "pegar_mapeo", "obtener")
  PROVE  MarcosInv'
<1> DEFINE l == loc[p]
           d == [l EXCEPT !.traido = Nada]
<1> USE DEF MarcosInv
<1>1. LocalBien(l)
  BY DEF MarcosTipo
<1>2. LocalBien(d) /\ d.pag = l.pag /\ d.luego = l.luego /\ d.forma = l.forma
      /\ d.n = l.n /\ d.nuevas = l.nuevas /\ d.seg = l.seg
  BY <1>1 DEF LocalBien, LocalVacio
<1>3. CASE EnMemoria(p) \/ Acceder(p)
  <2>1. PICK punto \in {"usar", "obtener"} : Ir(p, punto, l) /\ (punto = "usar" => Presente(l.pag))
    BY <1>3 DEF EnMemoria, Acceder, Presente
  <2>2. pc[p] \in EnPagina /\ UNCHANGED <<bitMarco, puntero, ranuras, pagina, tabla>>
    BY <1>3 DEF EnMemoria, Acceder, Esta, EnPagina, bits, cuentas
  <2>3. QED
    BY <1>1, <2>1, <2>2, MismoPedido DEF EnPagina
<1>4. CASE Pegar(p, "pegar", "usar") \/ Pegar(p, "pegar_mapeo", "obtener")
  <2>1. PICK punto \in {"usar", "obtener"} : Ir(p, punto, d) /\ (punto = "usar" => pc[p] = "pegar")
    BY <1>4 DEF Pegar, Esta
  <2>2. pc[p] \in EnPagina /\ UNCHANGED <<bitMarco, puntero, ranuras, pagina, tabla>>
    BY <1>4 DEF Pegar, Esta, EnPagina, bits, cuentas
  <2>3. pc[p] = "pegar" => Presente(l.pag)
    BY DEF Manejador, UsaPagina
  <2> HIDE DEF d
  <2>4. QED
    BY <1>2, <2>1, <2>2, <2>3, MismoPedido DEF EnPagina
<1>5. QED
  BY <1>3, <1>4

LEMMA UsarInv ==
  ASSUME UnSoloPrograma, MarcosInv, NEW p \in Programas, Usar(p)
  PROVE  MarcosInv'
<1> DEFINE l == loc[p]
           m == pagina[l.pag].marco
<1> USE DEF MarcosInv
<1>1. /\ pc[p] = "usar" /\ UNCHANGED <<ranuras, puntero, pagina, tabla>>
      /\ bitMarco' = IF m = Nada THEN bitMarco ELSE Usado(m, bitMarco[m].modificado)
      /\ Ir(p, l.luego, IF l.luego = "metadatos" THEN [LocalVacio EXCEPT !.seg = l.seg]
                        ELSE [l EXCEPT !.marco = m, !.vuelta = "libre"])
  BY DEF Usar, Esta, disco, cuentas
<1>2. /\ LocalBien(l) /\ l.pag \in IdPaginas /\ Presente(l.pag) /\ l.nuevas = <<>>
      /\ l.luego \in {"agregar", "metadatos", "copiar"}
      /\ l.luego = "metadatos" => l.pag \in PaginasDe(p) /\ l.seg \in DOMAIN tabla[p]
  BY <1>1, MuseSupuesto DEF MarcosTipo, Manejador, DaDeAlta, UsaPagina
<1>3. m \in IdMarcos /\ m # Nada
  BY <1>2, MuseSupuesto DEF EnSuLugar
<1>4. /\ bitMarco' \in [IdMarcos -> [ocupado : BOOLEAN, uso : BOOLEAN, modificado : BOOLEAN]]
      /\ \A k \in IdMarcos : bitMarco'[k].ocupado = bitMarco[k].ocupado
      /\ puntero' \in 0..Marcos /\ ranuras' \subseteq IdRanuras
  <2>1. bitMarco' = Usado(m, bitMarco[m].modificado) /\ bitMarco[m].modificado \in BOOLEAN
    BY <1>1, <1>3 DEF MarcosTipo
  <2>2. /\ Usado(m, bitMarco[m].modificado) \in
             [IdMarcos -> [ocupado : BOOLEAN, uso : BOOLEAN, modificado : BOOLEAN]]
        /\ \A k \in IdMarcos : Usado(m, bitMarco[m].modificado)[k].ocupado = bitMarco[k].ocupado
    <3>1. MarcosTipo /\ m \in IdMarcos /\ bitMarco[m].modificado \in BOOLEAN
      BY <1>3, <2>1
    <3>2. QED
      BY ONLY <3>1, MarcoUsado
  <2>3. QED
    BY <1>1, <2>1, <2>2 DEF MarcosTipo
<1>5. CASE l.luego = "metadatos"
  <2> DEFINE d == [LocalVacio EXCEPT !.seg = l.seg]
  <2>1. Ir(p, "metadatos", d)
    BY <1>1, <1>5
  <2>2. LocalBien(d) /\ d.pag = Nada /\ d.forma = Nada /\ d.luego = "libre" /\ d.nuevas = <<>> /\ d.seg = l.seg
    BY EmptySeq DEF LocalBien, LocalVacio
  <2> HIDE DEF d
  <2>3. \A g \in IdPaginas : Presente(g) => g \in PaginasDe(p) \cup Range(d.nuevas) \cup {d.pag}
    BY <1>2, <1>5, <2>2 DEF Anotadas
  <2>4. d.nuevas = l.nuevas /\ ranuras' = ranuras /\ UNCHANGED <<pagina, tabla>>
    BY <1>1, <1>2, <2>2
  <2>5. /\ pc'[p] = "metadatos" /\ loc'[p] = d
        /\ PideMarco(p)' /\ PideRanura(p)' /\ DaDeAlta(p)' /\ UsaPagina(p)' => MarcosInv'
    BY <1>4, <2>1, <2>2, <2>3, <2>4, SoloLocal DEF Puntos
  <2>6. PideMarco(p)' /\ PideRanura(p)'
    BY <2>5 DEF PideMarco, PideRanura, Buscando, Desalojando, Vueltas
  <2>7. DaDeAlta(p)' /\ UsaPagina(p)'
    BY <1>1, <1>2, <1>5, <2>2, <2>5, MuseSupuesto DEF DaDeAlta, UsaPagina, Buscando, Desalojando, Vueltas, Formas
  <2>8. QED
    BY <2>5, <2>6, <2>7
<1>6. CASE l.luego # "metadatos"
  <2> DEFINE d == [l EXCEPT !.marco = m, !.vuelta = "libre"]
  <2>1. Ir(p, l.luego, d)
    BY <1>1, <1>6
  <2>2. LocalBien(d) /\ d.pag = l.pag /\ d.luego = l.luego /\ d.forma = l.forma
        /\ d.n = l.n /\ d.nuevas = l.nuevas /\ d.seg = l.seg
    BY <1>2 DEF LocalBien, LocalVacio
  <2> HIDE DEF d
  <2>3. \A g \in IdPaginas : Presente(g) => g \in PaginasDe(p) \cup Range(d.nuevas) \cup {d.pag}
    BY <2>2 DEF Anotadas
  <2>4. ranuras' = ranuras /\ UNCHANGED <<pagina, tabla>> /\ l.luego \in Puntos
    BY <1>1, <1>2 DEF Puntos
  <2>5. /\ pc'[p] = l.luego /\ loc'[p] = d
        /\ PideMarco(p)' /\ PideRanura(p)' /\ DaDeAlta(p)' /\ UsaPagina(p)' => MarcosInv'
    BY <1>4, <2>1, <2>2, <2>3, <2>4, SoloLocal
  <2>6. PideMarco(p)' /\ PideRanura(p)'
    BY <1>2, <2>5 DEF PideMarco, PideRanura, Buscando, Desalojando, Vueltas
  <2>7. DaDeAlta(p)'
    BY <1>1, <1>2, <1>6, <2>2, <2>5 DEF Manejador, DaDeAlta, Buscando, Desalojando
  <2>8. UsaPagina(p)'
    <3>1. /\ l.luego \in {"agregar", "copiar"} /\ l.pag \in IdPaginas /\ Presente(l.pag)
          /\ l.luego = "copiar" => l.pag \in PaginasDe(p)
          /\ l.forma \in {"extension", "rearmado"} => l.seg \in DOMAIN tabla[p]
      BY <1>1, <1>2, <1>6, MuseSupuesto DEF Manejador, UsaPagina
    <3>2. pagina' = pagina /\ PaginasDe(p)' = PaginasDe(p) /\ tabla' = tabla
      BY <2>4 DEF PaginasDe
    <3>3. pc'[p] = l.luego /\ loc'[p] = d
      BY <2>5
    <3>4. QED
      BY ONLY <2>2, <3>1, <3>2, <3>3 DEF UsaPagina, Presente, Buscando, Desalojando, Vueltas
  <2>9. QED
    BY <2>5, <2>6, <2>7, <2>8
<1>7. QED
  BY <1>5, <1>6

LEMMA ObtenerPunteroInv ==
  ASSUME UnSoloPrograma, MarcosInv, NEW p \in Programas, ObtenerPuntero(p)
  PROVE  MarcosInv'
  BY PegarInv, TraerDeSwapInv, TraidaInv, UsarInv DEF ObtenerPuntero

-----------------------------------------------------------------------------
(* What the operations on lists keep.                                        *)

LEMMA AgregarALista ==
  ASSUME NEW S, NEW lista \in Seq(S), NEW x \in S
  PROVE  /\ Append(lista, x) \in Seq(S) /\ Append(lista, x) # <<>>
         /\ Range(Append(lista, x)) = Range(lista) \cup {x}
<1>1. /\ Append(lista, x) = lista \o <<x>> /\ Append(lista, x) \in Seq(S) /\ Append(lista, x) # <<>>
      /\ <<x>> \in Seq(S)
  BY AppendIsConcat, AppendProperties
<1>2. Range(<<x>>) = {x}
  BY DEF Range
<1>3. Range(lista \o <<x>>) = Range(lista) \cup Range(<<x>>)
  <2> DEFINE uno == <<x>>
  <2>1. uno \in Seq(S)
    BY <1>1
  <2> HIDE DEF uno
  <2>2. Range(lista \o uno) = Range(lista) \cup Range(uno)
    BY <2>1, RangeConcatenation
  <2>3. QED
    BY <2>2 DEF uno
<1>4. QED
  BY <1>1, <1>2, <1>3

LEMMA SacarDeLista ==
  ASSUME NEW S, NEW lista \in Seq(S), NEW i \in DOMAIN lista
  PROVE  /\ RemoveAt(lista, i) \in Seq(S)
         /\ \A x \in Range(lista) : x = lista[i] \/ x \in Range(RemoveAt(lista, i))
<1> DEFINE antes == SubSeq(lista, 1, i-1)
           resto == SubSeq(lista, i+1, Len(lista))
<1>1. i \in 1..Len(lista) /\ Len(lista) \in Nat /\ DOMAIN lista = 1..Len(lista)
  OBVIOUS
<1>2. /\ antes \in Seq(S) /\ Len(antes) = i - 1
      /\ \A j \in 1..(i-1) : antes[j] = lista[j]
  BY <1>1, SubSeqProperties
<1>3. /\ resto \in Seq(S) /\ Len(resto) = Len(lista) - i
      /\ \A j \in 1..(Len(lista) - i) : resto[j] = lista[i + j]
  <2>1. /\ i + 1 \in Int /\ Len(lista) \in Int /\ \A j \in (i+1)..Len(lista) : lista[j] \in S
    BY <1>1
  <2>2. /\ resto \in Seq(S)
        /\ Len(resto) = IF i + 1 <= Len(lista) THEN Len(lista) - (i + 1) + 1 ELSE 0
        /\ \A j \in 1..(Len(lista) - (i + 1) + 1) : resto[j] = lista[(i + 1) + j - 1]
    BY ONLY <2>1, SubSeqProperties
  <2> HIDE DEF resto
  <2>3. \A j \in 1..(Len(lista) - i) : (i + 1) + j - 1 = i + j
    BY <1>1
  <2>4. QED
    BY <1>1, <2>2, <2>3
<1>4. RemoveAt(lista, i) = antes \o resto
  BY DEF RemoveAt
<1> HIDE DEF antes, resto
<1>5. /\ antes \o resto \in Seq(S)
      /\ Range(antes \o resto) = Range(antes) \cup Range(resto)
  BY <1>2, <1>3, ConcatProperties, RangeConcatenation
<1>6. ASSUME NEW j \in DOMAIN lista, j # i PROVE lista[j] \in Range(antes) \cup Range(resto)
  <2>1. CASE j < i
    <3>1. j \in 1..(i-1) /\ DOMAIN antes = 1..(i-1)
      BY <1>1, <1>2, <2>1
    <3>2. QED
      BY <1>2, <3>1 DEF Range
  <2>2. CASE j > i
    <3>1. /\ j - i \in 1..(Len(lista) - i) /\ i + (j - i) = j
          /\ DOMAIN resto = 1..(Len(lista) - i)
      BY <1>1, <1>3, <2>2
    <3>2. QED
      BY <1>3, <3>1 DEF Range
  <2>3. QED
    BY <1>1, <1>6, <2>1, <2>2
<1>7. QED
  BY <1>4, <1>5, <1>6 DEF Range

(* What they do to the pages of a table.                                     *)
PaginasEn(segs) == UNION {Range(s.paginas) : s \in Range(segs)}

LEMMA PaginasDeTabla ==
  ASSUME NEW p \in Programas
  PROVE  PaginasDe(p) = PaginasEn(tabla[p]) /\ PaginasDe(p)' = PaginasEn(tabla'[p])
  BY DEF PaginasDe, PaginasEn, Range

LEMMA SegmentoAgregado ==
  ASSUME NEW segs \in Seq(Segmentos), NEW s \in Segmentos
  PROVE  /\ Append(segs, s) \in Seq(Segmentos)
         /\ PaginasEn(Append(segs, s)) = PaginasEn(segs) \cup Range(s.paginas)
  BY AgregarALista DEF PaginasEn

LEMMA SegmentoSacado ==
  ASSUME NEW segs \in Seq(Segmentos), NEW k \in DOMAIN segs
  PROVE  /\ RemoveAt(segs, k) \in Seq(Segmentos)
         /\ PaginasEn(segs) \subseteq PaginasEn(RemoveAt(segs, k)) \cup Range(segs[k].paginas)
  BY SacarDeLista DEF PaginasEn

LEMMA SegmentoCambiado ==
  ASSUME NEW segs \in Seq(Segmentos), NEW k \in DOMAIN segs, NEW nuevo \in Segmentos
  PROVE  LET otros == [segs EXCEPT ![k] = nuevo] IN
         /\ otros \in Seq(Segmentos) /\ DOMAIN otros = DOMAIN segs
         /\ Range(nuevo.paginas) \subseteq PaginasEn(otros)
         /\ PaginasEn(segs) \subseteq PaginasEn(otros) \cup Range(segs[k].paginas)
<1> DEFINE otros == [segs EXCEPT ![k] = nuevo]
<1>1. /\ otros \in Seq(Segmentos) /\ DOMAIN otros = DOMAIN segs /\ otros[k] = nuevo
      /\ \A j \in DOMAIN segs \ {k} : otros[j] = segs[j]
  BY ExceptSeq
<1> HIDE DEF otros
<1>2. QED
  BY <1>1 DEF PaginasEn, Range, otros

-----------------------------------------------------------------------------
(* The allocations.                                                          *)

LEMMA PaginaNueva ==
  ASSUME MarcosInv, NEW p \in Programas, pc[p] \in {"libre", "crear"}, SinUsar(p) # {}
  PROVE  PagNueva(p) \in IdPaginas /\ ~Presente(PagNueva(p))
<1>1. SinUsar(p) \in SUBSET Nat
  BY MuseSupuesto DEF SinUsar
<1>2. Min(SinUsar(p)) \in SinUsar(p)
  BY <1>1, MenorDeNaturales
<1>3. PagNueva(p) \in IdPaginas /\ PagNueva(p) \notin EnUso(p)
  BY <1>2 DEF SinUsar, PagNueva, IdPaginas
<1>4. loc[p].pag = Nada /\ Nada \notin IdPaginas
  BY MuseSupuesto DEF MarcosInv, Manejador, UsaPagina
<1>5. QED
  BY <1>3, <1>4 DEF MarcosInv, Anotadas, EnUso

LEMMA EmpezarAltaInv ==
  ASSUME UnSoloPrograma, AltasCortas, MarcosInv, NEW p \in Programas, EmpezarAlta(p)
  PROVE  MarcosInv'
<1> DEFINE l == loc[p]
<1> USE DEF MarcosInv
<1>1. /\ pc[p] = "libre" /\ UNCHANGED <<bitMarco, ranuras, puntero, pagina, tabla>>
      /\ l.pag = Nada /\ l.nuevas = <<>>
  BY DEF EmpezarAlta, Esta, bits, Manejador, DaDeAlta, UsaPagina
<1>2. PICK a \in Altas : \E s \in Destinos(p, a.forma) :
        Ir(p, "crear", [LocalVacio EXCEPT !.forma = a.forma, !.n = a.n, !.seg = s])
  BY DEF EmpezarAlta
<1>3. PICK s \in Destinos(p, a.forma) :
        Ir(p, "crear", [LocalVacio EXCEPT !.forma = a.forma, !.n = a.n, !.seg = s])
  BY <1>2
<1>4. /\ a.forma \in Formas /\ a.n \in Nat /\ a.n <= Marcos + 1
      /\ a.forma = "segmento" => a.n = 1
      /\ a.forma \in {"extension", "rearmado"} => s \in DOMAIN tabla[p]
  BY MuseSupuesto DEF AltasCortas, Destinos, Heaps, Vacios
<1> DEFINE d == [LocalVacio EXCEPT !.forma = a.forma, !.n = a.n, !.seg = s]
<1>5. Ir(p, "crear", d)
  BY <1>3
<1>6. /\ LocalBien(d) /\ d.pag = Nada /\ d.forma = a.forma /\ d.luego = "libre" /\ d.vuelta = "libre"
      /\ d.nuevas = <<>> /\ d.seg = s /\ d.n = a.n
  BY <1>4, EmptySeq DEF LocalBien, LocalVacio
<1> HIDE DEF d
<1>7. d.nuevas = l.nuevas /\ ranuras' = ranuras
  BY <1>1, <1>6
<1>8. /\ pc'[p] = "crear" /\ loc'[p] = d
      /\ PideMarco(p)' /\ PideRanura(p)' /\ DaDeAlta(p)' /\ UsaPagina(p)' => MarcosInv'
  BY <1>1, <1>5, <1>6, <1>7, MismaPagina DEF Puntos, MarcosTipo
<1>9. PideMarco(p)' /\ PideRanura(p)'
  BY <1>8 DEF PideMarco, PideRanura, Buscando, Desalojando, Vueltas
<1>10. DaDeAlta(p)'
  BY <1>4, <1>6, <1>8, MuseSupuesto DEF DaDeAlta
<1>11. UsaPagina(p)'
  BY <1>1, <1>4, <1>6, <1>8 DEF UsaPagina, Buscando, Desalojando, Vueltas
<1>12. QED
  BY <1>8, <1>9, <1>10, <1>11

LEMMA CrearInv ==
  ASSUME UnSoloPrograma, MarcosInv, NEW p \in Programas, Crear(p)
  PROVE  MarcosInv'
<1> DEFINE l == loc[p]
           g == PagNueva(p)
           d == [l EXCEPT !.pag = g, !.vuelta = "creada"]
<1> USE DEF MarcosInv
<1>1. pc[p] = "crear" /\ l.i < l.n /\ SinUsar(p) # {} /\ UNCHANGED <<bitMarco, ranuras, puntero, tabla>>
  BY DEF Crear, Esta, bits, cuentas
<1>2. /\ LocalBien(l) /\ l.forma # Nada /\ l.n <= Marcos + 1 /\ l.n \in Nat /\ l.i \in Nat
      /\ l.luego = "libre" /\ l.pag = Nada
      /\ l.nuevas # <<>> => l.forma = "segmento" /\ l.i >= 1
      /\ l.forma = "segmento" => l.n = 1
      /\ l.forma \in {"extension", "rearmado"} => l.seg \in DOMAIN tabla[p]
  BY <1>1 DEF MarcosTipo, LocalBien, Manejador, DaDeAlta, UsaPagina
<1>3. l.nuevas = <<>> /\ l.i <= Marcos
  BY <1>1, <1>2, MuseSupuesto
<1>4. Ir(p, "bit_libre", d) /\ pagina' = pagina
  BY <1>3 DEF Crear
<1>5. g \in IdPaginas /\ ~Presente(g)
  BY <1>1, PaginaNueva
<1> HIDE DEF g
<1>6. /\ LocalBien(d) /\ d.pag = g /\ d.vuelta = "creada" /\ d.forma = l.forma /\ d.luego = "libre"
      /\ d.nuevas = l.nuevas /\ d.seg = l.seg /\ d.n = l.n
  BY <1>2 DEF LocalBien, LocalVacio
<1> HIDE DEF d
<1>7. /\ pc'[p] = "bit_libre" /\ loc'[p] = d
      /\ PideMarco(p)' /\ PideRanura(p)' /\ DaDeAlta(p)' /\ UsaPagina(p)' => MarcosInv'
  BY <1>1, <1>2, <1>4, <1>6, MismaPagina DEF Puntos, MarcosTipo
<1>8. PideMarco(p)' /\ PideRanura(p)'
  BY <1>4, <1>5, <1>6, <1>7 DEF PideMarco, PideRanura, Presente, Buscando, Desalojando, Vueltas
<1>9. DaDeAlta(p)'
  BY <1>2, <1>3, <1>6, <1>7 DEF DaDeAlta
<1>10. UsaPagina(p)'
  BY <1>1, <1>2, <1>6, <1>7 DEF UsaPagina
<1>11. QED
  BY <1>7, <1>8, <1>9, <1>10

LEMMA CreadaInv ==
  ASSUME UnSoloPrograma, MarcosInv, NEW p \in Programas, Creada(p)
  PROVE  MarcosInv'
<1> DEFINE l == loc[p]
           d == [l EXCEPT !.luego = "agregar"]
           v == bitMarco[l.marco].modificado \/ ~(l.forma = "rearmado")
<1> USE DEF MarcosInv
<1>1. /\ pc[p] = "creada" /\ UNCHANGED <<ranuras, puntero, tabla>>
      /\ pagina' = [pagina EXCEPT ![l.pag] = [presencia |-> TRUE, marco |-> l.marco, ranura |-> Nada]]
      /\ bitMarco' = Usado(l.marco, v)
  BY DEF Creada, Esta, disco, cuentas
<1>2. PICK punto \in {"obtener", "agregar"} : Ir(p, punto, d)
  BY DEF Creada, SeguirCreando
<1>3. LocalBien(l) /\ l.marco \in IdMarcos
  BY <1>1 DEF MarcosTipo, Manejador, PideMarco, Vueltas
<1>4. /\ bitMarco' \in [IdMarcos -> [ocupado : BOOLEAN, uso : BOOLEAN, modificado : BOOLEAN]]
      /\ \A k \in IdMarcos : bitMarco'[k].ocupado = bitMarco[k].ocupado
  <2>1. v \in BOOLEAN
    BY <1>3 DEF MarcosTipo
  <2> HIDE DEF v
  <2>2. QED
    BY <1>1, <1>3, <2>1, MarcoUsado
<1>5. /\ LocalBien(d) /\ d.pag = l.pag /\ d.forma = l.forma /\ d.luego = "agregar"
      /\ d.nuevas = l.nuevas /\ d.seg = l.seg /\ d.n = l.n
  BY <1>3 DEF LocalBien, LocalVacio
<1> HIDE DEF d, v
<1>6. pc[p] \in Vueltas
  BY <1>1 DEF Vueltas
<1>7. QED
  BY <1>1, <1>2, <1>4, <1>5, <1>6, PaginaConMarco

(* A step that changes the tables. *)
PasoDeTabla(p, punto, d, segs) ==
  /\ LocalBien(d) /\ Ir(p, punto, d) /\ UNCHANGED <<bitMarco, ranuras, puntero, pagina>>
  /\ segs \in Seq(Segmentos) /\ tabla' = [tabla EXCEPT ![p] = segs]
  /\ \A g \in IdPaginas : Presente(g) => g \in PaginasEn(segs) \cup Range(d.nuevas) \cup {d.pag}

LEMMA OtraTabla ==
  ASSUME UnSoloPrograma, MarcosInv, NEW p \in Programas, NEW punto \in Puntos, NEW d, NEW segs,
         PasoDeTabla(p, punto, d, segs)
  PROVE  /\ pc'[p] = punto /\ loc'[p] = d /\ tabla'[p] = segs
         /\ PideMarco(p)' /\ PideRanura(p)' /\ DaDeAlta(p)' /\ UsaPagina(p)' => MarcosInv'
<1> USE DEF MarcosInv, PasoDeTabla
<1>1. /\ pc' \in [Programas -> Puntos]
      /\ DOMAIN loc' = Programas /\ (\A q \in Programas : LocalBien(loc[q]))'
      /\ pc'[p] = punto /\ loc'[p] = d
  BY PasoALocal
<1>2. tabla' \in [Programas -> Seq(Segmentos)] /\ tabla'[p] = segs
  BY DEF MarcosTipo
<1>3. MarcosTipo'
  BY <1>1, <1>2 DEF MarcosTipo
<1>4. EnSuLugar'
  BY DEF EnSuLugar, Presente
<1>5. PaginasDe(p)' = PaginasEn(segs)
  BY <1>2, PaginasDeTabla
<1>6. Anotadas'
  BY <1>1, <1>5 DEF Anotadas, Presente, UnSoloPrograma
<1>7. QED
  BY <1>1, <1>2, <1>3, <1>4, <1>6 DEF Manejador, UnSoloPrograma

LEMMA AgregarInv ==
  ASSUME UnSoloPrograma, MarcosInv, NEW p \in Programas, Agregar(p)
  PROVE  MarcosInv'
<1> DEFINE l == loc[p]
           ns == IF l.forma = "segmento" THEN Append(l.nuevas, l.pag) ELSE l.nuevas
           d == [l EXCEPT !.i = l.i + 1, !.pag = Nada, !.marco = Nada, !.vuelta = "libre",
                          !.luego = "libre", !.nuevas = ns]
           viejas == tabla[p][l.seg].paginas
           nuevo  == [mmapeado |-> tabla[p][l.seg].mmapeado, paginas |-> Append(viejas, l.pag)]
           segs   == IF l.forma = "segmento" THEN tabla[p] ELSE [tabla[p] EXCEPT ![l.seg] = nuevo]
<1> USE DEF MarcosInv
<1>1. /\ pc[p] = "agregar" /\ UNCHANGED <<bitMarco, ranuras, puntero, pagina>>
      /\ LocalBien(l) /\ l.pag \in IdPaginas /\ l.nuevas = <<>> /\ l.i \in Nat /\ l.n \in Nat
      /\ l.forma \in Formas /\ l.n <= Marcos + 1 /\ (l.forma = "segmento" => l.n = 1)
      /\ l.forma # "segmento" => l.seg \in DOMAIN tabla[p]
  BY DEF Agregar, Esta, bits, MarcosTipo, LocalBien, Manejador, DaDeAlta, UsaPagina, Formas
<1>2. Ir(p, "crear", d)
  BY DEF Agregar
<1>3. ns \in Seq(IdPaginas) /\ (l.forma # "segmento" => ns = <<>>)
      /\ (l.forma = "segmento" => Range(ns) = Range(l.nuevas) \cup {l.pag})
  <2>1. l.nuevas \in Seq(IdPaginas) /\ l.pag \in IdPaginas
    BY <1>1 DEF LocalBien
  <2>2. /\ Append(l.nuevas, l.pag) \in Seq(IdPaginas)
        /\ Range(Append(l.nuevas, l.pag)) = Range(l.nuevas) \cup {l.pag}
    BY <2>1, AgregarALista
  <2>3. QED
    BY <1>1, <2>1, <2>2
<1>4. tabla[p] \in Seq(Segmentos) /\ tabla' = [tabla EXCEPT ![p] = segs]
  BY DEF Agregar, ConPaginas, MarcosTipo
<1>5. ASSUME l.forma # "segmento"
      PROVE  /\ segs \in Seq(Segmentos) /\ DOMAIN segs = DOMAIN tabla[p]
             /\ PaginasEn(tabla[p]) \cup {l.pag} \subseteq PaginasEn(segs)
  <2>1. tabla[p][l.seg] \in Segmentos
    BY <1>1, <1>4, <1>5, ElementOfSeq
  <2>2. nuevo \in Segmentos /\ Range(nuevo.paginas) = Range(viejas) \cup {l.pag}
    BY <1>1, <2>1, AgregarALista DEF Segmentos
  <2>3. segs = [tabla[p] EXCEPT ![l.seg] = nuevo]
    BY <1>5
  <2> HIDE DEF nuevo
  <2>4. QED
    BY <1>1, <1>4, <1>5, <2>2, <2>3, SegmentoCambiado
<1>6. /\ segs \in Seq(Segmentos) /\ DOMAIN segs = DOMAIN tabla[p]
      /\ PaginasEn(tabla[p]) \subseteq PaginasEn(segs)
  BY <1>4, <1>5
<1>7. /\ LocalBien(d) /\ d.pag = Nada /\ d.forma = l.forma /\ d.luego = "libre" /\ d.nuevas = ns
      /\ d.seg = l.seg /\ d.n = l.n /\ d.i = l.i + 1
  <2> HIDE DEF ns
  <2>1. QED
    BY <1>1, <1>3 DEF LocalBien, LocalVacio
<1>8. \A g \in IdPaginas : Presente(g) => g \in PaginasEn(segs) \cup Range(ns) \cup {Nada}
  <2> HIDE DEF ns, segs
  <2>1. \A g \in IdPaginas : Presente(g) => g \in PaginasEn(tabla[p]) \cup {l.pag}
    BY <1>1, PaginasDeTabla DEF Anotadas, Range
  <2>2. l.pag \in PaginasEn(segs) \cup Range(ns)
    BY <1>3, <1>5
  <2>3. QED
    BY <1>6, <2>1, <2>2
<1> HIDE DEF d, ns, segs
<1>9. /\ pc'[p] = "crear" /\ loc'[p] = d /\ tabla'[p] = segs
      /\ PideMarco(p)' /\ PideRanura(p)' /\ DaDeAlta(p)' /\ UsaPagina(p)' => MarcosInv'
  <2>1. PasoDeTabla(p, "crear", d, segs) /\ "crear" \in Puntos
    BY <1>1, <1>2, <1>4, <1>6, <1>7, <1>8 DEF PasoDeTabla, Puntos
  <2>2. QED
    BY <2>1, OtraTabla
<1>10. PideMarco(p)' /\ PideRanura(p)'
  BY <1>9 DEF PideMarco, PideRanura, Buscando, Desalojando, Vueltas
<1>11. DaDeAlta(p)'
  BY <1>1, <1>3, <1>7, <1>9, MuseSupuesto DEF DaDeAlta
<1>12. UsaPagina(p)'
  BY <1>1, <1>6, <1>7, <1>9 DEF UsaPagina, Buscando, Desalojando, Vueltas
<1>13. QED
  BY <1>9, <1>10, <1>11, <1>12

LEMMA LocalDeCero ==
  /\ LocalBien(LocalVacio)
  /\ LocalVacio.pag = Nada /\ LocalVacio.forma = Nada /\ LocalVacio.luego = "libre"
  /\ LocalVacio.nuevas = <<>> /\ LocalVacio.vuelta = "libre"
  BY EmptySeq DEF LocalBien, LocalVacio

(* A handler with no page to look after. *)
LEMMA EnReposo ==
  ASSUME NEW p \in Programas, pc'[p] \in {"libre", "metadatos"}, loc'[p].pag = Nada, loc'[p].forma = Nada,
         loc'[p].luego = "libre", loc'[p].nuevas = <<>>,
         pc'[p] = "metadatos" => loc'[p].seg \in DOMAIN tabla'[p]
  PROVE  PideMarco(p)' /\ PideRanura(p)' /\ DaDeAlta(p)' /\ UsaPagina(p)'
<1>1. PideMarco(p)' /\ PideRanura(p)'
  BY DEF PideMarco, PideRanura, Buscando, Desalojando, Vueltas
<1>2. DaDeAlta(p)'
  BY MuseSupuesto DEF DaDeAlta, Formas, Buscando, Desalojando
<1>3. UsaPagina(p)'
  BY MuseSupuesto DEF UsaPagina, Formas, Buscando, Desalojando, Vueltas
<1>4. QED
  BY <1>1, <1>2, <1>3

LEMMA AltaHechaInv ==
  ASSUME UnSoloPrograma, MarcosInv, NEW p \in Programas, AltaHecha(p)
  PROVE  MarcosInv'
<1> DEFINE l == loc[p]
<1> USE DEF MarcosInv
<1>1. /\ pc[p] = "crear" /\ UNCHANGED <<bitMarco, ranuras, puntero, pagina>>
      /\ LocalBien(l) /\ l.pag = Nada /\ l.forma \in Formas
      /\ l.nuevas \in Seq(IdPaginas) /\ (l.forma # "segmento" => l.nuevas = <<>>)
      /\ l.forma # "segmento" => l.seg \in DOMAIN tabla[p]
      /\ tabla[p] \in Seq(Segmentos)
  BY DEF AltaHecha, Esta, bits, MarcosTipo, LocalBien, Manejador, DaDeAlta, UsaPagina, Formas
<1>2. \A g \in IdPaginas : Presente(g) => g \in PaginasDe(p) \cup Range(l.nuevas)
  BY <1>1, MuseSupuesto DEF Anotadas
<1>3. CASE l.forma = "segmento"
  <2> DEFINE s    == [mmapeado |-> FALSE, paginas |-> l.nuevas]
             segs == Append(tabla[p], s)
  <2>1. tabla' = [tabla EXCEPT ![p] = segs] /\ Ir(p, "libre", LocalVacio)
    BY <1>3 DEF AltaHecha, Libre
  <2>2. s \in Segmentos /\ s.paginas = l.nuevas
    BY <1>1 DEF Segmentos
  <2> HIDE DEF s
  <2>3. segs \in Seq(Segmentos) /\ PaginasEn(segs) = PaginasEn(tabla[p]) \cup Range(l.nuevas)
    BY <1>1, <2>2, SegmentoAgregado
  <2> HIDE DEF segs
  <2>4. \A g \in IdPaginas : Presente(g) => g \in PaginasEn(segs)
    BY <1>2, <2>3, PaginasDeTabla
  <2> DEFINE d == LocalVacio
  <2>5. /\ LocalBien(d) /\ d.pag = Nada /\ d.forma = Nada /\ d.luego = "libre" /\ d.nuevas = <<>>
        /\ Ir(p, "libre", d)
    BY <2>1, LocalDeCero
  <2> HIDE DEF d
  <2>6. /\ pc'[p] = "libre" /\ loc'[p] = d
        /\ PideMarco(p)' /\ PideRanura(p)' /\ DaDeAlta(p)' /\ UsaPagina(p)' => MarcosInv'
    <3>1. PasoDeTabla(p, "libre", d, segs) /\ "libre" \in Puntos
      BY <1>1, <2>1, <2>3, <2>4, <2>5 DEF PasoDeTabla, Puntos
    <3>2. QED
      BY <3>1, OtraTabla
  <2>7. QED
    BY <2>5, <2>6, EnReposo
<1>4. CASE l.forma # "segmento"
  <2> DEFINE d == [LocalVacio EXCEPT !.seg = l.seg]
  <2>1. UNCHANGED tabla /\ Ir(p, "metadatos", d)
    BY <1>4 DEF AltaHecha
  <2>2. /\ LocalBien(d) /\ d.pag = Nada /\ d.forma = Nada /\ d.luego = "libre" /\ d.nuevas = <<>>
        /\ d.seg = l.seg
    BY EmptySeq DEF LocalBien, LocalVacio
  <2> HIDE DEF d
  <2>3. d.nuevas = l.nuevas /\ ranuras' = ranuras
    BY <1>1, <1>4, <2>2
  <2>4. /\ pc'[p] = "metadatos" /\ loc'[p] = d
        /\ PideMarco(p)' /\ PideRanura(p)' /\ DaDeAlta(p)' /\ UsaPagina(p)' => MarcosInv'
    BY <1>1, <2>1, <2>2, <2>3, MismaPagina DEF Puntos, MarcosTipo
  <2>5. QED
    BY <1>1, <1>4, <2>1, <2>2, <2>4, EnReposo
<1>5. QED
  BY <1>3, <1>4

(* A request that has no page between its steps. *)
LEMMA SinPagina ==
  ASSUME UnSoloPrograma, MarcosInv, NEW p \in Programas, pc[p] \in {"libre", "metadatos", "soltar"}
  PROVE  /\ loc[p].pag = Nada /\ loc[p].forma = Nada /\ loc[p].nuevas = <<>> /\ LocalBien(loc[p])
         /\ \A g \in IdPaginas : Presente(g) => g \in PaginasDe(p)
         /\ pc[p] # "libre" => loc[p].seg \in DOMAIN tabla[p]
         /\ loc[p].luego = "libre"
         /\ tabla[p] \in Seq(Segmentos)
<1>1. /\ loc[p].pag = Nada /\ loc[p].forma = Nada /\ loc[p].nuevas = <<>> /\ LocalBien(loc[p])
      /\ pc[p] # "libre" => loc[p].seg \in DOMAIN tabla[p]
      /\ loc[p].luego = "libre"
      /\ tabla[p] \in Seq(Segmentos)
  BY DEF MarcosInv, MarcosTipo, Manejador, DaDeAlta, UsaPagina
<1>2. \A g \in IdPaginas : Presente(g) => g \in PaginasDe(p)
  BY <1>1, MuseSupuesto DEF MarcosInv, Anotadas, Range
<1>3. QED
  BY <1>1, <1>2

(* muse_free and the metadata. *)
LEMMA MetadatosInv ==
  ASSUME UnSoloPrograma, MarcosInv, NEW p \in Programas,
         EmpezarHeap(p) \/ EmpezarASoltar(p) \/ DevolverLugar(p) \/ HeapListo(p)
  PROVE  MarcosInv'
<1> DEFINE l == loc[p]
<1> USE DEF MarcosInv
<1>1. /\ pc[p] \in {"libre", "metadatos", "soltar"}
      /\ UNCHANGED <<bitMarco, ranuras, puntero, pagina, tabla>>
  BY DEF EmpezarHeap, EmpezarASoltar, DevolverLugar, HeapListo, Esta, bits, cuentas
<1>2. /\ l.pag = Nada /\ l.forma = Nada /\ l.nuevas = <<>> /\ LocalBien(l)
      /\ pc[p] # "libre" => l.seg \in DOMAIN tabla[p]
      /\ tabla[p] \in Seq(Segmentos)
  BY <1>1, SinPagina
<1>3. ASSUME NEW punto \in {"libre", "metadatos"}, NEW d, LocalBien(d), Ir(p, punto, d),
             d.pag = Nada, d.forma = Nada, d.luego = "libre", d.nuevas = <<>>,
             punto = "metadatos" => d.seg \in DOMAIN tabla[p]
      PROVE  MarcosInv'
  <2>1. d.nuevas = l.nuevas /\ ranuras' = ranuras
    BY <1>1, <1>2, <1>3
  <2>2. /\ pc'[p] = punto /\ loc'[p] = d
        /\ PideMarco(p)' /\ PideRanura(p)' /\ DaDeAlta(p)' /\ UsaPagina(p)' => MarcosInv'
    BY <1>1, <1>2, <1>3, <2>1, MismaPagina DEF Puntos, MarcosTipo
  <2>3. QED
    BY <1>1, <1>3, <2>2, EnReposo
<1>4. ASSUME NEW s PROVE LET d == [LocalVacio EXCEPT !.seg = s] IN
        /\ LocalBien(d) /\ d.pag = Nada /\ d.forma = Nada /\ d.luego = "libre" /\ d.nuevas = <<>>
        /\ d.seg = s
  BY EmptySeq DEF LocalBien, LocalVacio
<1>5. CASE EmpezarHeap(p)
  <2>1. PICK s \in DOMAIN tabla[p] : Ir(p, "metadatos", [LocalVacio EXCEPT !.seg = s])
    BY <1>5 DEF EmpezarHeap
  <2> DEFINE d == [LocalVacio EXCEPT !.seg = s]
  <2>2. Ir(p, "metadatos", d)
    BY <2>1
  <2>3. LocalBien(d) /\ d.pag = Nada /\ d.forma = Nada /\ d.luego = "libre" /\ d.nuevas = <<>> /\ d.seg = s
    BY <1>4
  <2> HIDE DEF d
  <2>4. QED
    BY <1>3, <2>2, <2>3
<1>6. CASE DevolverLugar(p)
  <2> DEFINE d == [LocalVacio EXCEPT !.seg = l.seg]
  <2>1. Ir(p, "metadatos", d) /\ pc[p] = "soltar"
    BY <1>6 DEF DevolverLugar, Esta
  <2>2. LocalBien(d) /\ d.pag = Nada /\ d.forma = Nada /\ d.luego = "libre" /\ d.nuevas = <<>> /\ d.seg = l.seg
    BY <1>4
  <2> HIDE DEF d
  <2>3. QED
    BY <1>2, <1>3, <2>1, <2>2
<1>7. CASE HeapListo(p)
  <2>1. Ir(p, "libre", LocalVacio)
    BY <1>7 DEF HeapListo, Libre
  <2>2. QED
    BY <1>3, <2>1, LocalDeCero
<1>8. CASE EmpezarASoltar(p)
  <2>1. PICK k \in DOMAIN tabla[p][l.seg].paginas : Ir(p, "soltar", [l EXCEPT !.i = k])
    BY <1>8 DEF EmpezarASoltar
  <2>2. pc[p] = "metadatos" /\ l.seg \in DOMAIN tabla[p]
    BY <1>2, <1>8 DEF EmpezarASoltar, Esta
  <2>3. tabla[p][l.seg].paginas \in Seq(IdPaginas)
    BY <2>2, SegmentoDeTabla
  <2>4. k \in Nat
    <3> DEFINE ps == tabla[p][l.seg].paginas
    <3>1. ps \in Seq(IdPaginas) /\ k \in DOMAIN ps
      BY <2>1, <2>3
    <3> HIDE DEF ps
    <3>2. QED
      BY <3>1
  <2> DEFINE d == [l EXCEPT !.i = k]
  <2>5. Ir(p, "soltar", d)
    BY <2>1
  <2>6. LocalBien(d) /\ d.pag = Nada /\ d.forma = Nada /\ d.luego = l.luego /\ d.nuevas = l.nuevas /\ d.seg = l.seg
    BY <1>2, <2>4 DEF LocalBien, LocalVacio
  <2> HIDE DEF d
  <2>7. /\ pc'[p] = "soltar" /\ loc'[p] = d
        /\ PideMarco(p)' /\ PideRanura(p)' /\ DaDeAlta(p)' /\ UsaPagina(p)' => MarcosInv'
    BY <1>1, <1>2, <2>5, <2>6, MismaPagina DEF Puntos, MarcosTipo
  <2>8. PideMarco(p)' /\ PideRanura(p)'
    BY <2>7 DEF PideMarco, PideRanura, Buscando, Desalojando, Vueltas
  <2>9. l.luego = "libre"
    BY <1>1, SinPagina
  <2>10. DaDeAlta(p)' /\ UsaPagina(p)'
    BY <1>1, <1>2, <2>2, <2>6, <2>7, <2>9, MuseSupuesto DEF DaDeAlta, UsaPagina, Formas, Buscando, Desalojando, Vueltas
  <2>11. QED
    BY <2>7, <2>8, <2>10
<1>9. QED
  BY <1>5, <1>6, <1>7, <1>8

(* A handler goes to a page of its tables. *)
LEMMA IrAPagina ==
  ASSUME UnSoloPrograma, MarcosInv, NEW p \in Programas, TocarMetadatos(p) \/ EmpezarAcceso(p)
  PROVE  MarcosInv'
<1> DEFINE l == loc[p]
<1> USE DEF MarcosInv
<1>1. /\ pc[p] \in {"libre", "metadatos"} /\ UNCHANGED <<bitMarco, ranuras, puntero, pagina, tabla>>
      /\ TocarMetadatos(p) => pc[p] = "metadatos"
  BY DEF TocarMetadatos, EmpezarAcceso, Esta, bits, cuentas
<1>2. /\ l.pag = Nada /\ l.forma = Nada /\ l.nuevas = <<>> /\ LocalBien(l)
      /\ pc[p] # "libre" => l.seg \in DOMAIN tabla[p]
  BY <1>1, SinPagina
<1>3. ASSUME NEW punto \in {"obtener", "acceder"}, NEW g \in PaginasDe(p), NEW d, LocalBien(d), Ir(p, punto, d),
             d.pag = g, d.forma = Nada, d.nuevas = <<>>,
             d.luego = "copiar" \/ (d.luego = "metadatos" /\ d.seg \in DOMAIN tabla[p])
      PROVE  MarcosInv'
  <2>1. d.nuevas = l.nuevas /\ ranuras' = ranuras /\ g \in IdPaginas
    BY <1>1, <1>2, <1>3, Listadas
  <2>2. /\ pc'[p] = punto /\ loc'[p] = d
        /\ PideMarco(p)' /\ PideRanura(p)' /\ DaDeAlta(p)' /\ UsaPagina(p)' => MarcosInv'
    <3>1. punto \in Puntos /\ LocalBien(d) /\ Ir(p, punto, d)
      BY <1>3 DEF Puntos
    <3>2. /\ ranuras \subseteq ranuras' /\ ranuras' \subseteq IdRanuras
          /\ loc[p].pag \in PaginasDe(p) \cup {Nada}
      BY <1>2, <2>1 DEF MarcosTipo
    <3>3. QED
      BY <1>1, <2>1, <3>1, <3>2, MismaPagina
  <2>3. PideMarco(p)' /\ PideRanura(p)'
    BY <2>2 DEF PideMarco, PideRanura, Buscando, Desalojando, Vueltas
  <2>4. DaDeAlta(p)'
    BY <1>3, <2>2, MuseSupuesto DEF DaDeAlta, Formas, Buscando, Desalojando
  <2>5. UsaPagina(p)'
    BY <1>1, <1>3, <2>1, <2>2, MuseSupuesto DEF UsaPagina, PaginasDe, Formas, Buscando, Desalojando, Vueltas
  <2>6. QED
    BY <2>2, <2>3, <2>4, <2>5
<1>4. CASE TocarMetadatos(p)
  <2>1. PICK g \in Range(tabla[p][l.seg].paginas) :
          Ir(p, "obtener", [l EXCEPT !.pag = g, !.luego = "metadatos"])
    BY <1>4 DEF TocarMetadatos
  <2>2. l.seg \in DOMAIN tabla[p]
    BY <1>1, <1>2, <1>4
  <2>3. g \in PaginasDe(p)
    BY <2>1, <2>2 DEF PaginasDe
  <2> DEFINE d == [l EXCEPT !.pag = g, !.luego = "metadatos"]
  <2>4. Ir(p, "obtener", d)
    BY <2>1
  <2>5. LocalBien(d) /\ d.pag = g /\ d.forma = Nada /\ d.luego = "metadatos" /\ d.nuevas = <<>> /\ d.seg = l.seg
    BY <1>2 DEF LocalBien, LocalVacio
  <2> HIDE DEF d
  <2>6. QED
    BY <1>3, <2>2, <2>3, <2>4, <2>5
<1>5. CASE EmpezarAcceso(p)
  <2>1. PICK g \in PaginasDe(p), v \in Valores \cup {Nada} :
          Ir(p, "acceder", [LocalVacio EXCEPT !.pag = g, !.valor = v, !.luego = "copiar"])
    BY <1>5 DEF EmpezarAcceso
  <2> DEFINE d == [LocalVacio EXCEPT !.pag = g, !.valor = v, !.luego = "copiar"]
  <2>2. Ir(p, "acceder", d)
    BY <2>1
  <2>3. LocalBien(d) /\ d.pag = g /\ d.forma = Nada /\ d.luego = "copiar" /\ d.nuevas = <<>>
    BY EmptySeq DEF LocalBien, LocalVacio
  <2> HIDE DEF d
  <2>4. QED
    BY <1>3, <2>2, <2>3
<1>6. QED
  BY <1>4, <1>5

LEMMA QuitarDeLaListaInv ==
  ASSUME UnSoloPrograma, MarcosInv, NEW p \in Programas, QuitarDeLaLista(p)
  PROVE  MarcosInv'
<1> DEFINE l  == loc[p]
           ps == tabla[p][l.seg].paginas
           g  == ps[l.i]
           d  == [l EXCEPT !.pag = g, !.n = l.n + 1]
           nuevo == [mmapeado |-> tabla[p][l.seg].mmapeado, paginas |-> RemoveAt(ps, l.i)]
           segs  == [tabla[p] EXCEPT ![l.seg] = nuevo]
<1> USE DEF MarcosInv
<1>1. /\ pc[p] = "soltar" /\ l.i \in DOMAIN ps /\ UNCHANGED <<bitMarco, ranuras, puntero, pagina>>
      /\ Ir(p, "destruir", d)
  BY DEF QuitarDeLaLista, Esta, bits
<1>2. /\ l.forma = Nada /\ l.nuevas = <<>> /\ LocalBien(l) /\ l.seg \in DOMAIN tabla[p]
      /\ \A h \in IdPaginas : Presente(h) => h \in PaginasDe(p)
      /\ tabla[p] \in Seq(Segmentos)
  BY <1>1, SinPagina
<1>3. tabla[p][l.seg] \in Segmentos /\ ps \in Seq(IdPaginas)
  BY <1>2, SegmentoDeTabla
<1>4. /\ g \in IdPaginas /\ RemoveAt(ps, l.i) \in Seq(IdPaginas)
      /\ \A h \in Range(ps) : h = g \/ h \in Range(RemoveAt(ps, l.i))
  <2>1. ps \in Seq(IdPaginas) /\ l.i \in DOMAIN ps
    BY <1>1, <1>3
  <2> HIDE DEF ps, l
  <2>2. g \in IdPaginas
    BY <2>1, ElementOfSeq
  <2>3. QED
    BY <2>1, <2>2, SacarDeLista
<1>5. nuevo \in Segmentos /\ nuevo.paginas = RemoveAt(ps, l.i)
  BY <1>3, <1>4 DEF Segmentos
<1>6. tabla' = [tabla EXCEPT ![p] = segs]
  BY DEF QuitarDeLaLista, ConPaginas, MarcosTipo
<1> HIDE DEF nuevo
<1>7. /\ segs \in Seq(Segmentos) /\ DOMAIN segs = DOMAIN tabla[p]
      /\ Range(nuevo.paginas) \subseteq PaginasEn(segs)
      /\ PaginasEn(tabla[p]) \subseteq PaginasEn(segs) \cup Range(ps)
  BY <1>2, <1>5, SegmentoCambiado
<1>8. /\ LocalBien(d) /\ d.pag = g /\ d.forma = Nada /\ d.luego = l.luego /\ d.nuevas = <<>>
      /\ d.seg = l.seg
  <2>1. l.n + 1 \in Nat
    BY <1>2 DEF LocalBien
  <2> HIDE DEF g
  <2>2. QED
    BY <1>2, <2>1 DEF LocalBien, LocalVacio
<1> HIDE DEF segs, d, g
<1>9. \A h \in IdPaginas : Presente(h) => h \in PaginasEn(segs) \cup Range(d.nuevas) \cup {d.pag}
  <2>1. \A h \in IdPaginas : Presente(h) => h \in PaginasEn(tabla[p])
    BY <1>2, PaginasDeTabla
  <2>2. QED
    BY <1>4, <1>5, <1>7, <1>8, <2>1
<1>10. /\ pc'[p] = "destruir" /\ loc'[p] = d /\ tabla'[p] = segs
       /\ PideMarco(p)' /\ PideRanura(p)' /\ DaDeAlta(p)' /\ UsaPagina(p)' => MarcosInv'
  <2>1. PasoDeTabla(p, "destruir", d, segs) /\ "destruir" \in Puntos
    BY <1>1, <1>6, <1>7, <1>8, <1>9 DEF PasoDeTabla, Puntos
  <2>2. QED
    BY <2>1, OtraTabla
<1>11. PideMarco(p)' /\ PideRanura(p)'
  BY <1>10 DEF PideMarco, PideRanura, Buscando, Desalojando, Vueltas
<1>12. l.luego = "libre"
  BY <1>1, SinPagina
<1>13. DaDeAlta(p)'
  BY <1>8, <1>10, <1>12, MuseSupuesto DEF DaDeAlta, Formas, Buscando, Desalojando
<1>14. UsaPagina(p)'
  BY <1>2, <1>4, <1>7, <1>8, <1>10, <1>12, MuseSupuesto DEF UsaPagina, Formas, Buscando, Desalojando, Vueltas
<1>15. QED
  BY <1>10, <1>11, <1>13, <1>14

-----------------------------------------------------------------------------
(* destroy_pagina: what the other pages have is left alone.                  *)
LEMMA Destruidas ==
  ASSUME MarcosTipo, EnSuLugar, NEW gs \in SUBSET IdPaginas, Destruir(gs)
  PROVE  /\ bitMarco' \in [IdMarcos -> [ocupado : BOOLEAN, uso : BOOLEAN, modificado : BOOLEAN]]
         /\ ranuras' \subseteq IdRanuras
         /\ pagina' \in [IdPaginas -> [presencia : BOOLEAN, marco : ONada(IdMarcos),
                                       ranura : ONada(IdRanuras)]]
         /\ EnSuLugar'
         /\ \A g \in IdPaginas : Presente(g)' = (Presente(g) /\ g \notin gs)
<1>1. bitMarco' \in [IdMarcos -> [ocupado : BOOLEAN, uso : BOOLEAN, modificado : BOOLEAN]]
  BY DEF Destruir, MarcosTipo
<1>2. \A m \in IdMarcos : bitMarco'[m].ocupado = (bitMarco[m].ocupado /\ m \notin MarcosDe(gs))
  BY DEF Destruir, MarcosTipo
<1>3. ranuras' = ranuras \ RanurasDe(gs)
  BY DEF Destruir
<1>4. pagina' \in [IdPaginas -> [presencia : BOOLEAN, marco : ONada(IdMarcos), ranura : ONada(IdRanuras)]]
  BY DEF Destruir, PaginaVacia, MarcosTipo, ONada
<1>5. /\ \A g \in gs : /\ pagina'[g].presencia = FALSE /\ pagina'[g].marco = Nada
                       /\ pagina'[g].ranura = Nada
      /\ \A g \in IdPaginas \ gs : pagina'[g] = pagina[g]
  BY DEF Destruir, PaginaVacia
<1>6. ASSUME NEW g \in IdPaginas \ gs
      PROVE  /\ Presente(g) => pagina[g].marco \notin MarcosDe(gs)
             /\ pagina[g].ranura # Nada => pagina[g].ranura \notin RanurasDe(gs)
  <2>1. ASSUME NEW h \in gs, Presente(g) PROVE pagina[g].marco # pagina[h].marco
    BY <1>6, <2>1, MuseSupuesto DEF EnSuLugar
  <2>2. ASSUME NEW h \in gs, pagina[g].ranura # Nada PROVE pagina[g].ranura # pagina[h].ranura
    BY <1>6, <2>2 DEF EnSuLugar
  <2>3. QED
    BY <2>1, <2>2 DEF MarcosDe, RanurasDe
<1>7. EnSuLugar'
  <2> SUFFICES ASSUME NEW g \in IdPaginas, NEW h \in IdPaginas
               PROVE  /\ ~Presente(g)' => pagina'[g].marco = Nada
                      /\ Presente(g)' => /\ pagina'[g].marco \in IdMarcos
                                         /\ bitMarco'[pagina'[g].marco].ocupado
                                         /\ pagina'[g].ranura = Nada
                      /\ pagina'[g].ranura # Nada => pagina'[g].ranura \in ranuras'
                      /\ g # h => /\ Presente(g)' /\ Presente(h)' => pagina'[g].marco # pagina'[h].marco
                                  /\ pagina'[g].ranura = Nada \/ pagina'[g].ranura # pagina'[h].ranura
    BY DEF EnSuLugar
  <2>1. CASE g \in gs
    BY <1>5, <2>1 DEF Presente
  <2>2. CASE g \notin gs /\ h \in gs
    BY <1>2, <1>3, <1>5, <1>6, <2>2 DEF EnSuLugar, Presente
  <2>3. CASE g \notin gs /\ h \notin gs
    <3>1. pagina'[g] = pagina[g] /\ pagina'[h] = pagina[h]
      BY <1>5, <2>3
    <3>2. Presente(g) => /\ pagina[g].marco \in IdMarcos /\ bitMarco'[pagina[g].marco].ocupado
                         /\ pagina[g].ranura = Nada
      BY <1>2, <1>6, <2>3 DEF EnSuLugar
    <3>3. pagina[g].ranura # Nada => pagina[g].ranura \in ranuras'
      BY <1>3, <1>6, <2>3 DEF EnSuLugar
    <3>4. QED
      BY <3>1, <3>2, <3>3 DEF EnSuLugar, Presente
  <2>4. QED
    BY <2>1, <2>2, <2>3
<1>8. \A g \in IdPaginas : Presente(g)' = (Presente(g) /\ g \notin gs)
  <2> SUFFICES ASSUME NEW g \in IdPaginas PROVE Presente(g)' = (Presente(g) /\ g \notin gs)
    OBVIOUS
  <2>1. CASE g \in gs
    BY <1>5, <2>1 DEF Presente
  <2>2. CASE g \notin gs
    BY <1>5, <2>2 DEF Presente, MarcosTipo
  <2>3. QED
    BY <2>1, <2>2
<1>9. QED
  BY <1>1, <1>3, <1>4, <1>7, <1>8 DEF MarcosTipo

LEMMA DestruirPaginaInv ==
  ASSUME UnSoloPrograma, MarcosInv, NEW p \in Programas, DestruirPagina(p)
  PROVE  MarcosInv'
<1> DEFINE l == loc[p]
           d == [l EXCEPT !.pag = Nada]
<1> USE DEF MarcosInv
<1>1. /\ pc[p] = "destruir" /\ Destruir({l.pag}) /\ Ir(p, "soltar", d) /\ UNCHANGED <<puntero, tabla>>
  BY DEF DestruirPagina, Esta, cuentas
<1>2. /\ l.pag \in IdPaginas /\ l.forma = Nada /\ l.luego = "libre" /\ l.nuevas = <<>> /\ LocalBien(l)
      /\ l.seg \in DOMAIN tabla[p] /\ \A q \in Programas : q = p
  BY <1>1 DEF MarcosTipo, Manejador, DaDeAlta, UsaPagina, UnSoloPrograma
<1>3. /\ LocalBien(d) /\ d.pag = Nada /\ d.forma = Nada /\ d.luego = "libre" /\ d.nuevas = <<>>
      /\ d.seg = l.seg
  BY <1>2 DEF LocalBien, LocalVacio
<1> HIDE DEF d
<1>4. /\ pc' \in [Programas -> Puntos]
      /\ DOMAIN loc' = Programas /\ (\A q \in Programas : LocalBien(loc[q]))'
      /\ pc'[p] = "soltar" /\ loc'[p] = d
  BY <1>1, <1>3, PasoALocal DEF Puntos
<1>5. /\ bitMarco' \in [IdMarcos -> [ocupado : BOOLEAN, uso : BOOLEAN, modificado : BOOLEAN]]
      /\ ranuras' \subseteq IdRanuras
      /\ pagina' \in [IdPaginas -> [presencia : BOOLEAN, marco : ONada(IdMarcos), ranura : ONada(IdRanuras)]]
      /\ EnSuLugar'
      /\ \A g \in IdPaginas : Presente(g)' = (Presente(g) /\ g \notin {l.pag})
  BY <1>1, <1>2, Destruidas
<1>6. MarcosTipo'
  BY <1>1, <1>4, <1>5 DEF MarcosTipo
<1>7. Anotadas'
  BY <1>1, <1>2, <1>3, <1>4, <1>5 DEF Anotadas, PaginasDe, Presente
<1>8. PideMarco(p)' /\ PideRanura(p)'
  BY <1>4 DEF PideMarco, PideRanura, Buscando, Desalojando, Vueltas
<1>9. DaDeAlta(p)' /\ UsaPagina(p)'
  BY <1>1, <1>2, <1>3, <1>4, MuseSupuesto DEF DaDeAlta, UsaPagina, Formas, Buscando, Desalojando, Vueltas
<1>10. QED
  BY <1>2, <1>5, <1>6, <1>7, <1>8, <1>9 DEF Manejador

-----------------------------------------------------------------------------
(* The requests that act at once on a program at rest.                       *)
LEMMA DeUnaVez ==
  ASSUME UnSoloPrograma, MarcosInv, NEW p \in Programas, pc[p] = "libre", UNCHANGED <<puntero, pc, loc>>,
         bitMarco' \in [IdMarcos -> [ocupado : BOOLEAN, uso : BOOLEAN, modificado : BOOLEAN]],
         ranuras' \subseteq IdRanuras,
         pagina' \in [IdPaginas -> [presencia : BOOLEAN, marco : ONada(IdMarcos),
                                    ranura : ONada(IdRanuras)]],
         EnSuLugar', NEW segs \in Seq(Segmentos), tabla' = [tabla EXCEPT ![p] = segs],
         \A g \in IdPaginas : Presente(g)' => g \in PaginasEn(segs)
  PROVE  MarcosInv'
<1> USE DEF MarcosInv
<1>1. /\ loc[p].pag = Nada /\ loc[p].forma = Nada /\ loc[p].luego = "libre" /\ loc[p].nuevas = <<>>
      /\ \A q \in Programas : q = p
  BY SinPagina DEF UnSoloPrograma
<1>2. MarcosTipo'
  BY DEF MarcosTipo, LocalBien
<1>3. tabla'[p] = segs
  BY DEF MarcosTipo
<1>4. PaginasDe(p)' = PaginasEn(segs)
  BY <1>3, PaginasDeTabla
<1>5. Anotadas'
  BY <1>1, <1>4 DEF Anotadas, Presente
<1>6. PideMarco(p)' /\ PideRanura(p)' /\ DaDeAlta(p)' /\ UsaPagina(p)'
  BY <1>1, EnReposo
<1>7. QED
  BY <1>1, <1>2, <1>5, <1>6 DEF Manejador

LEMMA MapearInv ==
  ASSUME UnSoloPrograma, MarcosInv, NEW p \in Programas, Mapear(p)
  PROVE  MarcosInv'
<1> DEFINE g    == PagNueva(p)
           s    == [mmapeado |-> TRUE, paginas |-> <<g>>]
           segs == Append(tabla[p], s)
<1> USE DEF MarcosInv
<1>1. /\ pc[p] = "libre" /\ SinUsar(p) # {} /\ UNCHANGED <<bitMarco, ranuras, puntero, pc, loc>>
      /\ pagina' = [pagina EXCEPT ![g] = PaginaVacia] /\ tabla' = [tabla EXCEPT ![p] = segs]
  BY DEF Mapear, Esta, bits
<1>2. g \in IdPaginas /\ ~Presente(g)
  BY <1>1, PaginaNueva
<1> HIDE DEF g
<1>3. tabla[p] \in Seq(Segmentos) /\ \A h \in IdPaginas : Presente(h) => h \in PaginasEn(tabla[p])
  BY <1>1, SinPagina, PaginasDeTabla
<1>4. s \in Segmentos
  BY <1>2 DEF Segmentos
<1> HIDE DEF s
<1>5. segs \in Seq(Segmentos) /\ PaginasEn(tabla[p]) \subseteq PaginasEn(segs)
  BY <1>3, <1>4, SegmentoAgregado
<1> HIDE DEF segs
<1>6. /\ pagina'[g].presencia = FALSE /\ pagina'[g].marco = Nada /\ pagina'[g].ranura = Nada
      /\ \A h \in IdPaginas \ {g} : pagina'[h] = pagina[h]
      /\ pagina' \in [IdPaginas -> [presencia : BOOLEAN, marco : ONada(IdMarcos), ranura : ONada(IdRanuras)]]
  BY <1>1, <1>2 DEF MarcosTipo, ONada, PaginaVacia
<1>7. EnSuLugar'
  BY <1>1, <1>6 DEF EnSuLugar, Presente
<1>8. \A h \in IdPaginas : Presente(h)' => h \in PaginasEn(segs)
  BY <1>3, <1>5, <1>6 DEF Presente
<1>9. QED
  BY <1>1, <1>5, <1>6, <1>7, <1>8, DeUnaVez DEF MarcosTipo

LEMMA DesmapearInv ==
  ASSUME UnSoloPrograma, MarcosInv, NEW p \in Programas, Desmapear(p) \/ Cerrar(p)
  PROVE  MarcosInv'
<1> USE DEF MarcosInv
<1>1. pc[p] = "libre" /\ UNCHANGED <<puntero, pc, loc>>
  BY DEF Desmapear, Cerrar, Esta
<1>2. tabla[p] \in Seq(Segmentos) /\ \A h \in IdPaginas : Presente(h) => h \in PaginasEn(tabla[p])
  BY <1>1, SinPagina, PaginasDeTabla
<1>3. ASSUME NEW gs \in SUBSET IdPaginas, Destruir(gs), NEW segs \in Seq(Segmentos),
             tabla' = [tabla EXCEPT ![p] = segs], PaginasEn(tabla[p]) \subseteq PaginasEn(segs) \cup gs
      PROVE  MarcosInv'
  <2>1. /\ bitMarco' \in [IdMarcos -> [ocupado : BOOLEAN, uso : BOOLEAN, modificado : BOOLEAN]]
        /\ ranuras' \subseteq IdRanuras
        /\ pagina' \in [IdPaginas -> [presencia : BOOLEAN, marco : ONada(IdMarcos), ranura : ONada(IdRanuras)]]
        /\ EnSuLugar'
        /\ \A g \in IdPaginas : Presente(g)' = (Presente(g) /\ g \notin gs)
    BY <1>3, Destruidas
  <2>2. \A g \in IdPaginas : Presente(g)' => g \in PaginasEn(segs)
    BY <1>2, <1>3, <2>1
  <2>3. QED
    BY <1>1, <1>3, <2>1, <2>2, DeUnaVez
<1>4. CASE Desmapear(p)
  <2>1. PICK k \in DOMAIN tabla[p] :
          tabla' = [tabla EXCEPT ![p] = RemoveAt(tabla[p], k)] /\ Destruir(Range(tabla[p][k].paginas))
    BY <1>4 DEF Desmapear, MarcosTipo
  <2>2. Range(tabla[p][k].paginas) \subseteq IdPaginas
    BY Listadas DEF PaginasDe
  <2>3. /\ RemoveAt(tabla[p], k) \in Seq(Segmentos)
        /\ PaginasEn(tabla[p]) \subseteq PaginasEn(RemoveAt(tabla[p], k)) \cup Range(tabla[p][k].paginas)
    BY <1>2, SegmentoSacado
  <2>4. QED
    BY <1>3, <2>1, <2>2, <2>3
<1>5. CASE Cerrar(p)
  <2>1. tabla' = [tabla EXCEPT ![p] = <<>>] /\ Destruir(PaginasDe(p))
    BY <1>5 DEF Cerrar
  <2>2. PaginasDe(p) \subseteq IdPaginas /\ PaginasEn(tabla[p]) = PaginasDe(p) /\ <<>> \in Seq(Segmentos)
    BY Listadas, PaginasDeTabla, EmptySeq
  <2>3. QED
    BY <1>3, <2>1, <2>2
<1>6. QED
  BY <1>4, <1>5

-----------------------------------------------------------------------------
(* muse_get and muse_cpy.                                                    *)
LEMMA CargarMapeoInv ==
  ASSUME UnSoloPrograma, MarcosInv, NEW p \in Programas, CargarMapeo(p)
  PROVE  MarcosInv'
<1> DEFINE l == loc[p]
           d == [l EXCEPT !.traido = Archivo, !.vuelta = "cargada"]
<1> USE DEF MarcosInv
<1>1. /\ pc[p] = "acceder" /\ pagina[l.pag].marco = Nada /\ Ir(p, "bit_libre", d)
      /\ UNCHANGED <<bitMarco, ranuras, puntero, pagina, tabla>>
  BY DEF CargarMapeo, Esta, SinCargar, bits, cuentas
<1>2. /\ LocalBien(l) /\ l.pag \in IdPaginas /\ l.nuevas = <<>>
      /\ l.luego \in {"agregar", "metadatos", "copiar"}
  BY <1>1 DEF MarcosTipo, Manejador, DaDeAlta, UsaPagina
<1>3. ~Presente(l.pag)
  BY <1>1, <1>2, MuseSupuesto DEF EnSuLugar
<1>4. /\ LocalBien(d) /\ d.pag = l.pag /\ d.vuelta = "cargada" /\ d.luego = l.luego /\ d.forma = l.forma
      /\ d.n = l.n /\ d.nuevas = l.nuevas /\ d.seg = l.seg
  BY <1>2 DEF LocalBien, LocalVacio
<1> HIDE DEF d
<1>5. /\ pc'[p] = "bit_libre" /\ loc'[p] = d
      /\ PideMarco(p)' /\ PideRanura(p)' /\ DaDeAlta(p)' /\ UsaPagina(p)' => MarcosInv'
  BY <1>1, <1>4, MismaPagina DEF Puntos, MarcosTipo
<1>6. PideMarco(p)' /\ PideRanura(p)'
  BY <1>1, <1>2, <1>3, <1>4, <1>5 DEF PideMarco, PideRanura, Presente, Buscando, Desalojando, Vueltas
<1>7. DaDeAlta(p)'
  BY <1>1, <1>2, <1>4, <1>5 DEF Manejador, DaDeAlta
<1>8. UsaPagina(p)'
  BY <1>1, <1>2, <1>4, <1>5 DEF Manejador, UsaPagina, PaginasDe
<1>9. QED
  BY <1>5, <1>6, <1>7, <1>8

LEMMA CargadaInv ==
  ASSUME UnSoloPrograma, MarcosInv, NEW p \in Programas, Cargada(p)
  PROVE  MarcosInv'
<1> DEFINE l == loc[p]
<1> USE DEF MarcosInv
<1>1. /\ pc[p] = "cargada" /\ Ir(p, "pegar_mapeo", l) /\ UNCHANGED <<ranuras, puntero, tabla>>
      /\ pagina' = [pagina EXCEPT ![l.pag] = [presencia |-> TRUE, marco |-> l.marco, ranura |-> Nada]]
      /\ bitMarco' = Usado(l.marco, TRUE)
  BY DEF Cargada, Esta, disco, cuentas
<1>2. pc[p] \in Vueltas /\ LocalBien(l) /\ l.marco \in IdMarcos /\ l.luego \in {"agregar", "metadatos", "copiar"}
  BY <1>1 DEF MarcosTipo, Manejador, PideMarco, UsaPagina, Vueltas
<1>3. /\ bitMarco' \in [IdMarcos -> [ocupado : BOOLEAN, uso : BOOLEAN, modificado : BOOLEAN]]
      /\ \A k \in IdMarcos : bitMarco'[k].ocupado = bitMarco[k].ocupado
  BY <1>1, <1>2, MarcoUsado
<1>4. QED
  BY <1>1, <1>2, <1>3, PaginaConMarco

LEMMA CopiarInv ==
  ASSUME UnSoloPrograma, MarcosInv, NEW p \in Programas, Leer(p) \/ Escribir(p)
  PROVE  MarcosInv'
<1> DEFINE l == loc[p]
           m == l.marco
<1> USE DEF MarcosInv
<1>1. /\ pc[p] = "copiar" /\ Ir(p, "libre", LocalVacio) /\ UNCHANGED <<ranuras, puntero, tabla>>
      /\ pagina' \in {pagina, [pagina EXCEPT ![l.pag].presencia = TRUE]}
      /\ bitMarco' \in {Usado(m, TRUE), Usado(m, bitMarco[m].modificado)}
  BY DEF Leer, Escribir, Libre, Esta, disco, cuentas
<1>2. /\ l.pag \in IdPaginas /\ Presente(l.pag) /\ l.nuevas = <<>> /\ l.luego = "copiar"
      /\ l.pag \in PaginasDe(p)
  BY <1>1, MuseSupuesto DEF Manejador, DaDeAlta, UsaPagina
<1>3. pagina' = pagina
  <2> DEFINE Registros == [presencia : BOOLEAN, marco : ONada(IdMarcos), ranura : ONada(IdRanuras)]
             otra      == [pagina[l.pag] EXCEPT !.presencia = TRUE]
  <2>1. pagina \in [IdPaginas -> Registros] /\ pagina[l.pag] \in Registros /\ pagina[l.pag].presencia = TRUE
    BY <1>2 DEF MarcosTipo, Presente
  <2>2. otra = pagina[l.pag]
    BY <2>1
  <2>3. [pagina EXCEPT ![l.pag].presencia = TRUE] = [pagina EXCEPT ![l.pag] = otra]
    OBVIOUS
  <2> HIDE DEF otra, Registros
  <2>4. [pagina EXCEPT ![l.pag] = otra] = pagina
    BY <2>1, <2>2
  <2>5. QED
    BY <1>1, <2>3, <2>4
<1>4. /\ bitMarco' \in [IdMarcos -> [ocupado : BOOLEAN, uso : BOOLEAN, modificado : BOOLEAN]]
      /\ \A k \in IdMarcos : bitMarco'[k].ocupado = bitMarco[k].ocupado
  <2>1. CASE m \in IdMarcos
    <3>1. bitMarco[m].modificado \in BOOLEAN
      BY <2>1 DEF MarcosTipo
    <3>2. PICK v \in BOOLEAN : bitMarco' = Usado(m, v)
      BY <1>1, <3>1
    <3>3. QED
      BY <2>1, <3>2, MarcoUsado
  <2>2. CASE m \notin IdMarcos
    BY <1>1, <2>2 DEF Usado, MarcosTipo
  <2>3. QED
    BY <2>1, <2>2
<1>5. \A g \in IdPaginas : Presente(g) => g \in PaginasDe(p) \cup Range(LocalVacio.nuevas) \cup {LocalVacio.pag}
  BY <1>2, LocalDeCero DEF Anotadas, Range
<1>6. LocalVacio.nuevas = l.nuevas /\ ranuras' = ranuras
  BY <1>1, <1>2, LocalDeCero
<1>7. /\ pc'[p] = "libre" /\ loc'[p] = LocalVacio
      /\ PideMarco(p)' /\ PideRanura(p)' /\ DaDeAlta(p)' /\ UsaPagina(p)' => MarcosInv'
  BY <1>1, <1>3, <1>4, <1>5, <1>6, LocalDeCero, SoloLocal DEF Puntos, MarcosTipo
<1>8. QED
  BY <1>7, LocalDeCero, EnReposo

LEMMA PedidoInv ==
  ASSUME UnSoloPrograma, AltasCortas, MarcosInv, NEW p \in Programas, Pedido(p)
  PROVE  MarcosInv'
<1>1. CASE EmpezarAlta(p) \/ Crear(p) \/ Creada(p) \/ Agregar(p) \/ AltaHecha(p) \/ Mapear(p)
  BY <1>1, EmpezarAltaInv, CrearInv, CreadaInv, AgregarInv, AltaHechaInv, MapearInv
<1>2. CASE EmpezarHeap(p) \/ EmpezarASoltar(p) \/ DevolverLugar(p) \/ HeapListo(p)
  BY <1>2, MetadatosInv
<1>3. CASE TocarMetadatos(p) \/ EmpezarAcceso(p)
  BY <1>3, IrAPagina
<1>4. CASE QuitarDeLaLista(p) \/ DestruirPagina(p)
  BY <1>4, QuitarDeLaListaInv, DestruirPaginaInv
<1>5. CASE Acceder(p) \/ Pegar(p, "pegar_mapeo", "obtener")
  BY <1>5, PegarInv
<1>6. CASE CargarMapeo(p) \/ Cargada(p) \/ Leer(p) \/ Escribir(p)
  BY <1>6, CargarMapeoInv, CargadaInv, CopiarInv
<1>7. CASE Desmapear(p) \/ Cerrar(p)
  BY <1>7, DesmapearInv
<1>8. QED
  BY <1>1, <1>2, <1>3, <1>4, <1>5, <1>6, <1>7 DEF Pedido

-----------------------------------------------------------------------------
LEMMA QuietoInv == MarcosInv /\ UNCHANGED museVars => MarcosInv'
<1> SUFFICES ASSUME MarcosInv, UNCHANGED museVars PROVE MarcosInv'
  OBVIOUS
<1>1. UNCHANGED <<bitMarco, ranuras, puntero, pagina, tabla, pc, loc, caido>>
  BY DEF museVars
<1>2. MarcosTipo'
  BY <1>1 DEF MarcosInv, MarcosTipo, LocalBien
<1>3. EnSuLugar' /\ Anotadas'
  BY <1>1 DEF MarcosInv, EnSuLugar, Anotadas, Presente, PaginasDe
<1>4. Manejador'
  BY <1>1 DEF MarcosInv, Manejador, PideMarco, PideRanura, DaDeAlta, UsaPagina, Presente, PaginasDe
<1>5. QED
  BY <1>2, <1>3, <1>4 DEF MarcosInv

(* With one program, new segments of a page and no allocation of more pages   *)
(* than Marcos + 1, asignar_marco_nuevo, the clock, the swap and what frees    *)
(* pages never leave two pages in a frame or in a slot, nor a page in both.    *)
THEOREM UnDuenoConUno == UnSoloPrograma /\ AltasCortas => (MuseSpec => []UnDueno)
<1> SUFFICES ASSUME UnSoloPrograma, AltasCortas PROVE MuseSpec => []UnDueno
  OBVIOUS
<1>1. MarcosInv /\ [MuseNext]_museVars => MarcosInv'
  BY AsignarMarcoInv, ObtenerPunteroInv, PedidoInv, QuietoInv DEF MuseNext
<1>2. MarcosInv => UnDueno
  <2> SUFFICES ASSUME MarcosInv PROVE UnDueno
    OBVIOUS
  <2>1. \A p \in Programas : Range(loc[p].nuevas) \subseteq IdPaginas
    BY ElementOfSeq DEF MarcosInv, MarcosTipo, LocalBien, Range
  <2>2. Vivas \subseteq IdPaginas
    BY <2>1, Listadas DEF MarcosInv, Vivas, Visibles
  <2>3. QED
    BY <2>2 DEF MarcosInv, EnSuLugar, Presente, UnDueno
<1>3. QED
  BY <1>1, <1>2, MarcosInicial, PTL DEF MuseSpec

=============================================================================
