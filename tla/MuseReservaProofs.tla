--------------------------- MODULE MuseReservaProofs ---------------------------
(***************************************************************************)
(* What MUSE takes of lugar_disponible is enough, for one program and any  *)
(* number of frames, slots and pages: the clock always finds a frame and a *)
(* slot, no bit of the two arrays is left behind, and a program reads in   *)
(* its pages what it wrote there, as MemoriaDePaginas promises.            *)
(***************************************************************************)
EXTENDS MuseMarcosProofs, FiniteSetTheorems

-----------------------------------------------------------------------------
(* What is proved, together with MarcosInv.                                  *)

(* An occupied frame has its page, or is of the handler that looks for one. *)
Ocupados ==
  \A m \in IdMarcos : bitMarco[m].ocupado =>
    \/ \E g \in IdPaginas : Presente(g) /\ pagina[g].marco = m
    \/ \E p \in Programas : pc[p] \in Vueltas /\ m = loc[p].marco

(* A marked slot has its page, or is about to. *)
Marcadas ==
  \A r \in ranuras :
    \/ \E g \in IdPaginas : pagina[g].ranura = r
    \/ \E p \in Programas : pc[p] = "desalojar" /\ r = loc[p].ranura

(* A page in the swap is of the handler, and not the one it looks a frame for. *)
Guardadas ==
  \A p \in Programas :
    /\ \A g \in IdPaginas :
         pagina[g].ranura # Nada => g \in EnUso(p) \/ (pc[p] = "destruir" /\ g = loc[p].pag)
    /\ pc[p] \in Buscando \cup Vueltas => pagina[loc[p].pag].ranura = Nada

BitsJustos == Ocupados /\ Marcadas /\ Guardadas

-----------------------------------------------------------------------------
(* No page is listed twice. *)
SinRepetir(ps) == \A i, j \in DOMAIN ps : ps[i] = ps[j] => i = j
SinRepetidas(segs) ==
  /\ \A s \in DOMAIN segs : SinRepetir(segs[s].paginas)
  /\ \A s, t \in DOMAIN segs :
       s # t => Range(segs[s].paginas) \cap Range(segs[t].paginas) = {}

(* The pages of lugar_disponible that a handler took and has not used, or is to  *)
(* give back.                                                                   *)
Reservadas(p) ==
  IF loc[p].forma # Nada THEN loc[p].n - loc[p].i
  ELSE IF pc[p] \in {"soltar", "destruir"} THEN loc[p].n ELSE 0

Alta(p) ==
  LET l == loc[p] IN
  /\ l.forma # Nada => l.i <= l.n /\ (pc[p] # "crear" => l.i < l.n)
  /\ l.forma # Nada /\ l.pag # Nada => l.pag \notin EnUso(p)
  /\ l.nuevas # <<>> => \E g \in IdPaginas : l.nuevas = <<g>> /\ g \notin PaginasDe(p)
  /\ pc[p] = "metadatos" => l.n = 0
  /\ pc[p] = "destruir" => l.pag \notin EnUso(p)

Cuenta ==
  /\ lugar \in 0..(Marcos + Ranuras)
  /\ \A p \in Programas :
       /\ Alta(p) /\ SinRepetidas(tabla[p])
       /\ Cardinality(EnUso(p)) + Reservadas(p) <= Marcos + Ranuras - lugar

-----------------------------------------------------------------------------
(* After buscar_0_1 no frame is in use; after buscar_0_0, all are modified. *)
Reloj ==
  \A p \in Programas : pc[p] = "clock" =>
    /\ loc[p].busca \in 1..4
    /\ loc[p].busca \in {3, 4} => \A m \in IdMarcos : ~bitMarco[m].uso
    /\ loc[p].busca = 4 => \A m \in IdMarcos : bitMarco[m].modificado

(* What the page of the handler holds is on its way to a frame. *)
EnViaje(p) ==
  \/ pc[p] \in {"pegar", "pegar_mapeo"}
  \/ pc[p] \in Buscando \cup Vueltas /\ loc[p].vuelta # "creada"

(* What is moved is what the page held. *)
Trae(p) ==
  LET l == loc[p] IN
  /\ l.valor \in ONada(Valores) /\ l.traido \in ONada(Contenidos)
  /\ l.traido # Nada <=> EnViaje(p)
  /\ pc[p] = "copiar_a_swap" => l.origen = l.marco
  /\ pc[p] = "desalojar" => swap[l.ranura] = upcm[l.marco]
  /\ pc[p] \in {"pegar", "pegar_mapeo", "copiar"} => Presente(l.pag) /\ l.marco = pagina[l.pag].marco

Traen ==
  /\ upcm \in [IdMarcos -> Contenidos] /\ swap \in [IdRanuras -> Contenidos]
  /\ leido \in [Programas -> ONada(Contenidos)]
  /\ \A p \in Programas : Trae(p)

ReservaInv == MarcosInv /\ BitsJustos /\ Cuenta /\ Reloj /\ Traen /\ ~caido
-----------------------------------------------------------------------------
(* The search of the clock.                                                  *)

(* It goes by every frame. *)
LEMMA PasaPorTodos ==
  ASSUME puntero \in 0..Marcos, NEW m \in IdMarcos
  PROVE  \E k \in Pasos : Vuelta(k) = m
<1> USE MuseSupuesto DEF IdMarcos
<1>1. CASE puntero <= m
  <2>1. m - puntero \in Pasos /\ puntero + (m - puntero) = m
    BY <1>1 DEF Pasos
  <2>2. m % Marcos = m
    OBVIOUS
  <2>3. QED
    BY <2>1, <2>2 DEF Vuelta
<1>2. CASE puntero > m
  <2>1. (m - puntero) + Marcos \in Pasos /\ puntero + ((m - puntero) + Marcos) = m + Marcos
    BY <1>2 DEF Pasos
  <2>2. (m + Marcos) % Marcos = m
    OBVIOUS
  <2>3. QED
    BY <2>1, <2>2 DEF Vuelta
<1>3. QED
  BY <1>1, <1>2

LEMMA SinHallar ==
  ASSUME MarcosTipo, NEW busca, Hallados(busca) = {}
  PROVE  /\ \A m \in IdMarcos : ~Sirve(m, busca)
         /\ busca \notin {1, 3} => \A m \in IdMarcos : ~Gastados(busca, Pasos)[m].uso
<1>1. \A m \in IdMarcos : \E k \in Pasos : Vuelta(k) = m
  BY PasaPorTodos DEF MarcosTipo
<1>2. \A m \in IdMarcos : ~Sirve(m, busca)
  BY <1>1 DEF Hallados
<1>3. ASSUME busca \notin {1, 3}, NEW m \in IdMarcos PROVE ~Gastados(busca, Pasos)[m].uso
  BY <1>1, <1>3 DEF Gastados, MarcosTipo
<1>4. QED
  BY <1>2, <1>3

(* NULL is not dereferenced: the fourth search finds a frame. *)
LEMMA ElCuartoHalla ==
  ASSUME MarcosTipo, Reloj, NEW p \in Programas, NoHallado(p)
  PROVE  loc[p].busca \in 1..3 /\ ~caido'
<1>1. pc[p] = "clock" /\ loc[p].busca \in 1..4
  BY DEF NoHallado, Esta, Reloj
<1>2. loc[p].busca # 4
  <2> SUFFICES ASSUME loc[p].busca = 4 PROVE FALSE
    OBVIOUS
  <2>1. 0 \in IdMarcos
    BY MuseSupuesto DEF IdMarcos
  <2>2. ~bitMarco[0].uso /\ bitMarco[0].modificado = TRUE
    BY <1>1, <2>1 DEF Reloj, MarcosTipo
  <2>3. Sirve(0, 4)
    BY <2>2 DEF Sirve
  <2>4. QED
    BY <2>1, <2>3, SinHallar DEF NoHallado
<1>3. caido' = (loc[p].busca = 4)
  BY DEF NoHallado
<1>4. ~caido'
  BY <1>2, <1>3, Zenon
<1>5. QED
  BY <1>1, <1>2, <1>4

(* Nothing else goes to the clock. *)
LEMMA SoloDosAlReloj ==
  ASSUME MarcosInv, NEW p \in Programas, AsignarMarco(p) \/ ObtenerPuntero(p) \/ Pedido(p),
         ~SinBitLibre(p), ~NoHallado(p)
  PROVE  pc'[p] # "clock"
<1>1. ASSUME NEW punto, NEW d, punto # "clock", Ir(p, punto, d) PROVE pc'[p] # "clock"
  BY <1>1 DEF Ir, MarcosInv, MarcosTipo
<1>2. CASE AsignarMarco(p)
  <2>1. pc[p] \in {"bit_libre", "buscar_pagina", "desalojar"} => loc[p].vuelta \in Vueltas
    BY DEF MarcosInv, Manejador, PideMarco, Buscando, Desalojando
  <2>2. CASE BitLibre(p) \/ Desalojar(p)
    <3>1. \E d : Ir(p, loc[p].vuelta, d)
      BY <2>2 DEF BitLibre, Desalojar
    <3>2. loc[p].vuelta # "clock"
      BY <2>1, <2>2 DEF BitLibre, Desalojar, Esta, Vueltas
    <3>3. QED
      BY <1>1, <3>1, <3>2
  <2>3. CASE BuscarPagina(p)
    <3>1. \E punto \in {loc[p].vuelta, "a_swap"} : \E d : Ir(p, punto, d)
      BY <2>3 DEF BuscarPagina
    <3>2. loc[p].vuelta # "clock"
      BY <2>1, <2>3 DEF BuscarPagina, Esta, Vueltas
    <3>3. QED
      BY <1>1, <3>1, <3>2
  <2>4. CASE Buscar(p) \/ ElegirRanura(p) \/ CopiarASwap(p)
    BY <1>1, <2>4 DEF Buscar, ElegirRanura, CopiarASwap
  <2>5. QED
    BY <1>2, <2>2, <2>3, <2>4 DEF AsignarMarco
<1>3. CASE ObtenerPuntero(p)
  <2>1. CASE Usar(p)
    <3>1. loc[p].luego # "clock"
      BY <2>1 DEF Usar, Esta, MarcosInv, Manejador, UsaPagina
    <3>2. QED
      BY <1>1, <2>1, <3>1 DEF Usar
  <2>2. QED
    BY <1>1, <1>3, <2>1 DEF ObtenerPuntero, EnMemoria, TraerDeSwap, Traida, Pegar
<1>4. CASE Pedido(p)
  <2>1. CASE EmpezarAlta(p) \/ Crear(p) \/ Creada(p) \/ Agregar(p) \/ AltaHecha(p)
    BY <1>1, <2>1 DEF EmpezarAlta, Crear, Creada, SeguirCreando, Agregar, AltaHecha, Libre
  <2>2. CASE \/ EmpezarHeap(p) \/ TocarMetadatos(p) \/ EmpezarASoltar(p) \/ QuitarDeLaLista(p)
             \/ DestruirPagina(p) \/ DevolverLugar(p) \/ HeapListo(p)
    BY <1>1, <2>2 DEF EmpezarHeap, TocarMetadatos, EmpezarASoltar, QuitarDeLaLista, DestruirPagina,
                      DevolverLugar, HeapListo, Libre
  <2>3. CASE \/ EmpezarAcceso(p) \/ Acceder(p) \/ CargarMapeo(p) \/ Cargada(p)
             \/ Pegar(p, "pegar_mapeo", "obtener") \/ Leer(p) \/ Escribir(p)
    BY <1>1, <2>3 DEF EmpezarAcceso, Acceder, CargarMapeo, Cargada, Pegar, Leer, Escribir, Libre
  <2>4. CASE Mapear(p) \/ Desmapear(p) \/ Cerrar(p)
    BY <2>4 DEF Mapear, Desmapear, Cerrar, Esta
  <2>5. QED
    BY <1>4, <2>1, <2>2, <2>3, <2>4 DEF Pedido
<1>5. QED
  BY <1>2, <1>3, <1>4

(* The use and the modification of the frames, in a search. *)
LEMMA RelojSePreserva ==
  ASSUME UnSoloPrograma, MarcosInv, Reloj, [MuseNext]_museVars
  PROVE  Reloj'
<1> USE DEF MarcosInv
<1>1. CASE UNCHANGED museVars
  BY <1>1 DEF museVars, Reloj
<1>2. CASE \E p \in Programas : SinBitLibre(p)
  <2>1. PICK p \in Programas : SinBitLibre(p)
    BY <1>2
  <2>2. loc'[p].busca = 1 /\ \A q \in Programas : q = p
    BY <2>1 DEF SinBitLibre, Ir, MarcosTipo, LocalBien, LocalVacio, UnSoloPrograma
  <2>3. QED
    BY <2>2 DEF Reloj
<1>3. CASE \E p \in Programas : NoHallado(p)
  <2>1. PICK p \in Programas : NoHallado(p)
    BY <1>3
  <2> DEFINE busca == loc[p].busca
  <2>2. pc[p] = "clock" /\ Hallados(busca) = {} /\ bitMarco' = Gastados(busca, Pasos)
    BY <2>1 DEF NoHallado, Esta
  <2>3. busca \in 1..3 /\ loc'[p].busca = busca + 1 /\ \A q \in Programas : q = p
    BY <2>1, ElCuartoHalla DEF NoHallado, Ir, MarcosTipo, LocalBien, LocalVacio, UnSoloPrograma
  <2> HIDE DEF busca
  <2>4. \A m \in IdMarcos : ~Sirve(m, busca)
    BY <2>2, SinHallar
  <2>5. CASE busca = 1
    BY <2>3, <2>5 DEF Reloj
  <2>6. CASE busca = 2
    <3>1. \A m \in IdMarcos : ~bitMarco'[m].uso
      BY <2>2, <2>6, SinHallar
    <3>2. QED
      BY <2>3, <2>6, <3>1 DEF Reloj
  <2>7. CASE busca = 3
    <3>1. bitMarco' = bitMarco /\ \A m \in IdMarcos : ~bitMarco[m].uso
      BY <2>2, <2>7 DEF Gastados, Reloj, busca
    <3>2. \A m \in IdMarcos : bitMarco[m].modificado
      BY <2>4, <2>7, <3>1 DEF Sirve, MarcosTipo
    <3>3. QED
      BY <2>3, <2>7, <3>1, <3>2 DEF Reloj
  <2>8. QED
    BY <2>3, <2>5, <2>6, <2>7
<1>4. ASSUME NEW p \in Programas, AsignarMarco(p) \/ ObtenerPuntero(p) \/ Pedido(p), ~SinBitLibre(p), ~NoHallado(p)
      PROVE  pc'[p] # "clock"
  BY <1>4, SoloDosAlReloj
<1>5. QED
  BY <1>1, <1>2, <1>3, <1>4 DEF MuseNext, Reloj, UnSoloPrograma

-----------------------------------------------------------------------------
(* The slot of a victim.                                                     *)

LEMMA PaginasFinitas ==
  ASSUME UnSoloPrograma, NEW p \in Programas, NEW S \in SUBSET IdPaginas
  PROVE  IsFiniteSet(S) /\ Cardinality(S) \in Nat
<1>1. Programas = {p}
  BY DEF UnSoloPrograma
<1>2. IsFiniteSet({p}) /\ IsFiniteSet(0..(PagsMax - 1))
  <2>1. PagsMax - 1 \in Int
    BY MuseSupuesto
  <2>2. IsFiniteSet(0..(PagsMax - 1))
    BY <2>1, FS_Interval
  <2>3. QED
    BY <2>2, FS_Singleton
<1>3. IsFiniteSet(IdPaginas)
  BY <1>1, <1>2, FS_Product DEF IdPaginas
<1>4. QED
  BY <1>3, FS_Subset, FS_CardinalityType

LEMMA EnUsoDePaginas ==
  ASSUME MarcosTipo, NEW p \in Programas
  PROVE  EnUso(p) \subseteq IdPaginas
<1>1. loc[p].nuevas \in Seq(IdPaginas)
  BY DEF MarcosTipo, LocalBien
<1>2. Range(loc[p].nuevas) \subseteq IdPaginas
  BY <1>1, ElementOfSeq DEF Range
<1>3. QED
  BY <1>2, Listadas DEF EnUso

LEMMA EnUsoFinito ==
  ASSUME UnSoloPrograma, MarcosTipo, NEW p \in Programas
  PROVE  IsFiniteSet(EnUso(p)) /\ Cardinality(EnUso(p)) \in Nat
  BY EnUsoDePaginas, PaginasFinitas

(* A set with a page of its own for each element of another is no smaller. *)
LEMMA UnaPorCada ==
  ASSUME UnSoloPrograma, NEW p \in Programas, NEW P \in SUBSET IdPaginas, NEW S, NEW f,
         f \in [P -> S], \A x \in S : \E g \in P : f[g] = x
  PROVE  /\ IsFiniteSet(S) /\ IsFiniteSet(P) /\ Cardinality(S) \in Nat /\ Cardinality(P) \in Nat
         /\ Cardinality(S) <= Cardinality(P)
<1>1. IsFiniteSet(P) /\ Cardinality(P) \in Nat
  BY PaginasFinitas
<1>2. f \in Surjection(P, S)
  BY DEF Surjection
<1>3. QED
  BY <1>1, <1>2, FS_Surjection, FS_CardinalityType

(* Two sets of pages apart, and one page more. *)
LEMMA DosYUna ==
  ASSUME UnSoloPrograma, NEW p \in Programas, NEW P \in SUBSET IdPaginas, NEW Q \in SUBSET IdPaginas,
         P \cap Q = {}, NEW g \in IdPaginas, g \notin P \cup Q, NEW T \in SUBSET IdPaginas,
         P \cup Q \cup {g} \subseteq T
  PROVE  Cardinality(P) + Cardinality(Q) + 1 <= Cardinality(T)
<1>1. /\ IsFiniteSet(P) /\ Cardinality(P) \in Nat /\ IsFiniteSet(Q) /\ Cardinality(Q) \in Nat
      /\ IsFiniteSet(T) /\ Cardinality(T) \in Nat
  BY PaginasFinitas
<1>2. /\ IsFiniteSet(P \cup Q)
      /\ Cardinality(P \cup Q) = Cardinality(P) + Cardinality(Q)
  BY <1>1, FS_Union, FS_EmptySet
<1>3. Cardinality((P \cup Q) \cup {g}) = Cardinality(P) + Cardinality(Q) + 1
  BY <1>2, FS_AddElement
<1>4. Cardinality((P \cup Q) \cup {g}) <= Cardinality(T)
  BY <1>1, FS_Subset
<1>5. QED
  BY <1>3, <1>4

(* The page that needs a frame was counted. *)
LEMMA PedidaContada ==
  ASSUME UnSoloPrograma, MarcosInv, Cuenta, NEW p \in Programas, pc[p] \in Buscando
  PROVE  /\ IsFiniteSet(EnUso(p) \cup {loc[p].pag})
         /\ Cardinality(EnUso(p) \cup {loc[p].pag}) \in Nat
         /\ Cardinality(EnUso(p) \cup {loc[p].pag}) <= Marcos + Ranuras
<1> DEFINE l == loc[p]
           n == Cardinality(EnUso(p))
<1>1. IsFiniteSet(EnUso(p)) /\ n \in Nat
  BY EnUsoFinito DEF MarcosInv
<1>2. /\ IsFiniteSet(EnUso(p) \cup {l.pag})
      /\ Cardinality(EnUso(p) \cup {l.pag}) = IF l.pag \in EnUso(p) THEN n ELSE n + 1
  BY <1>1, FS_AddElement
<1>3. pc[p] \notin {"crear", "soltar", "destruir"}
  BY DEF Buscando, Desalojando
<1>4. lugar \in Nat /\ n + Reservadas(p) <= Marcos + Ranuras - lugar /\ Alta(p)
  BY DEF Cuenta
<1>5. l.n \in Nat /\ l.i \in Nat
  BY DEF MarcosInv, MarcosTipo, LocalBien
<1>6. CASE l.forma # Nada
  <2>1. l.i < l.n /\ Reservadas(p) = l.n - l.i
    BY <1>3, <1>4, <1>6 DEF Alta, Reservadas
  <2>2. QED
    BY <1>1, <1>2, <1>4, <1>5, <2>1, MuseSupuesto
<1>7. CASE l.forma = Nada
  <2>1. Reservadas(p) = 0
    BY <1>3, <1>7 DEF Reservadas
  <2>2. /\ l.vuelta \in Vueltas /\ l.vuelta # "creada" /\ l.pag \in IdPaginas
        /\ l.luego \in {"agregar", "metadatos", "copiar"} /\ l.luego # "agregar"
    BY <1>7 DEF MarcosInv, Manejador, PideMarco, DaDeAlta, UsaPagina
  <2>3. l.pag \in EnUso(p)
    BY <2>2, MuseSupuesto DEF MarcosInv, Manejador, UsaPagina, EnUso
  <2>4. QED
    BY <1>1, <1>2, <1>4, <2>1, <2>3, MuseSupuesto
<1>8. QED
  BY <1>6, <1>7

LEMMA HayRanura ==
  ASSUME UnSoloPrograma, MarcosInv, BitsJustos, Cuenta, NEW p \in Programas, pc[p] = "a_swap"
  PROVE  RanurasLibres # {}
<1> DEFINE l == loc[p]
           enMarco  == {g \in IdPaginas : Presente(g)}
           enRanura == {g \in IdPaginas : pagina[g].ranura # Nada}
           T == EnUso(p) \cup {l.pag}
<1>1. /\ pc[p] \in Buscando /\ pc[p] \notin Vueltas \cup {"bit_libre", "desalojar", "destruir"}
      /\ \A q \in Programas : q = p
  BY DEF Buscando, Desalojando, Vueltas, UnSoloPrograma
<1>2. l.pag \in IdPaginas /\ ~Presente(l.pag) /\ pagina[l.pag].ranura = Nada
  BY <1>1 DEF MarcosInv, Manejador, PideMarco, BitsJustos, Guardadas
<1>3. Marcos <= Cardinality(enMarco)
  <2> DEFINE f == [g \in enMarco |-> pagina[g].marco]
  <2>1. \A m \in IdMarcos : \E g \in enMarco : f[g] = m
    BY <1>1 DEF BitsJustos, Ocupados, MarcosInv, Manejador, PideMarco
  <2>2. f \in [enMarco -> IdMarcos]
    BY DEF MarcosInv, EnSuLugar
  <2> HIDE DEF f, enMarco
  <2>3. Cardinality(IdMarcos) <= Cardinality(enMarco)
    BY <2>1, <2>2, UnaPorCada DEF enMarco
  <2>4. Cardinality(IdMarcos) = Marcos
    BY MuseSupuesto, FS_Interval DEF IdMarcos
  <2>5. QED
    BY <2>3, <2>4
<1>4. Cardinality(ranuras) <= Cardinality(enRanura) /\ Cardinality(ranuras) \in Nat
  <2> DEFINE f == [g \in enRanura |-> pagina[g].ranura]
  <2>1. \A r \in ranuras : \E g \in enRanura : f[g] = r
    BY <1>1, MuseSupuesto DEF BitsJustos, Marcadas, MarcosInv, MarcosTipo
  <2>2. f \in [enRanura -> ranuras]
    BY DEF MarcosInv, EnSuLugar
  <2> HIDE DEF f, enRanura
  <2>3. enRanura \in SUBSET IdPaginas
    BY DEF enRanura
  <2>4. QED
    BY <2>1, <2>2, <2>3, UnaPorCada
<1>5. enMarco \cap enRanura = {} /\ l.pag \notin enMarco \cup enRanura
  BY <1>2 DEF MarcosInv, EnSuLugar
<1>6. T \in SUBSET IdPaginas /\ enMarco \cup enRanura \cup {l.pag} \subseteq T
  <2>1. T \in SUBSET IdPaginas
    BY <1>2, EnUsoDePaginas DEF MarcosInv
  <2>2. enMarco \subseteq T
    BY DEF MarcosInv, Anotadas, EnUso
  <2>3. enRanura \subseteq T
    BY <1>1 DEF BitsJustos, Guardadas
  <2>4. QED
    BY <2>1, <2>2, <2>3
<1>7. Cardinality(T) <= Marcos + Ranuras /\ Cardinality(T) \in Nat
  BY <1>1, PedidaContada
<1>8. /\ Cardinality(enMarco) + Cardinality(enRanura) + 1 <= Cardinality(T)
      /\ Cardinality(enMarco) \in Nat /\ Cardinality(enRanura) \in Nat
  <2>1. enMarco \in SUBSET IdPaginas /\ enRanura \in SUBSET IdPaginas
    OBVIOUS
  <2> HIDE DEF enMarco, enRanura, T
  <2>2. QED
    BY <1>2, <1>5, <1>6, <2>1, DosYUna, PaginasFinitas
<1>9. Cardinality(ranuras) < Ranuras
  <2> HIDE DEF enMarco, enRanura, T
  <2>1. QED
    BY <1>3, <1>4, <1>7, <1>8, MuseSupuesto
<1>10. Cardinality(IdRanuras) = Ranuras
  BY MuseSupuesto, FS_Interval DEF IdRanuras
<1>11. ranuras # IdRanuras /\ ranuras \subseteq IdRanuras
  BY <1>4, <1>9, <1>10, MuseSupuesto DEF MarcosInv, MarcosTipo
<1>12. QED
  BY <1>11 DEF RanurasLibres

(* NULL is not dereferenced: the victim gets a slot, and a page just brought is in *)
(* its frame.                                                                    *)
LEMMA NadieCae ==
  ASSUME UnSoloPrograma, MarcosInv, BitsJustos, Cuenta, Reloj, ~caido, NEW p \in Programas,
         AsignarMarco(p) \/ ObtenerPuntero(p) \/ Pedido(p)
  PROVE  ~caido'
<1>1. CASE NoHallado(p)
  BY <1>1, ElCuartoHalla DEF MarcosInv
<1>2. CASE ElegirRanura(p)
  <2>1. pc[p] = "a_swap"
    BY <1>2 DEF ElegirRanura, Esta
  <2>2. pagina[loc[p].victima].marco # Nada
    BY <2>1, MuseSupuesto DEF MarcosInv, Manejador, PideMarco, PideRanura, Desalojando
  <2>3. RanuraLibre # Nada
    <3>1. RanurasLibres # {} /\ RanurasLibres \in SUBSET Nat
      BY <2>1, HayRanura, MuseSupuesto DEF RanurasLibres, IdRanuras
    <3>2. Min(RanurasLibres) \in IdRanuras
      BY <3>1, MenorDeNaturales DEF RanurasLibres
    <3>3. QED
      BY <3>1, <3>2, MuseSupuesto DEF RanuraLibre
  <2>4. caido' = (Nada \in {pagina[loc[p].victima].marco, RanuraLibre})
    BY <1>2 DEF ElegirRanura
  <2>5. QED
    BY <2>2, <2>3, <2>4, Zenon
<1>3. CASE Usar(p)
  <2>1. pc[p] = "usar" /\ caido' = (pagina[loc[p].pag].marco = Nada)
    BY <1>3 DEF Usar, Esta
  <2>2. loc[p].pag \in IdPaginas /\ Presente(loc[p].pag)
    BY <2>1 DEF MarcosInv, Manejador, UsaPagina
  <2>3. pagina[loc[p].pag].marco # Nada
    BY <2>2, MuseSupuesto DEF MarcosInv, EnSuLugar
  <2>4. QED
    BY <2>1, <2>3, Zenon
<1>4. CASE ~NoHallado(p) /\ ~ElegirRanura(p) /\ ~Usar(p)
  <2>1. caido' = caido
    BY <1>4 DEF AsignarMarco, ObtenerPuntero, Pedido, BitLibre, SinBitLibre, Buscar, BuscarPagina, CopiarASwap,
         Desalojar, EnMemoria, TraerDeSwap, Traida, Pegar, EmpezarAlta, Crear, Creada, Agregar, AltaHecha,
         Mapear, EmpezarHeap, TocarMetadatos, EmpezarASoltar, QuitarDeLaLista, DestruirPagina, DevolverLugar,
         HeapListo, EmpezarAcceso, Acceder, CargarMapeo, Cargada, Leer, Escribir, Desmapear, Cerrar
  <2>2. QED
    BY <2>1
<1>5. QED
  BY <1>1, <1>2, <1>3, <1>4

-----------------------------------------------------------------------------
(* The bits of the frames and of the slots.                                  *)

LEMMA IrA ==
  ASSUME MarcosInv, NEW p \in Programas, NEW punto, NEW d, Ir(p, punto, d)
  PROVE  pc'[p] = punto /\ loc'[p] = d
  BY DEF Ir, MarcosInv, MarcosTipo

(* A step of the handler that leaves the pages where they are. *)
LEMMA MismosBits ==
  ASSUME UnSoloPrograma, MarcosInv, BitsJustos, NEW p \in Programas, NEW punto, NEW d, Ir(p, punto, d),
         UNCHANGED <<pagina, ranuras>>, \A m \in IdMarcos : bitMarco'[m].ocupado = bitMarco[m].ocupado,
         EnUso(p) \subseteq EnUso(p)', pc[p] \notin {"desalojar", "destruir"},
         pc[p] \in Vueltas => punto \in Vueltas /\ d.marco = loc[p].marco,
         punto \in Buscando \cup Vueltas => pagina[d.pag].ranura = Nada
  PROVE  BitsJustos'
<1>1. pc'[p] = punto /\ loc'[p] = d /\ \A q \in Programas : q = p
  BY IrA DEF UnSoloPrograma
<1>2. Ocupados'
  BY <1>1 DEF BitsJustos, Ocupados, Presente
<1>3. Marcadas'
  BY <1>1 DEF BitsJustos, Marcadas
<1>4. Guardadas'
  BY <1>1 DEF BitsJustos, Guardadas
<1>5. QED
  BY <1>2, <1>3, <1>4 DEF BitsJustos

LEMMA BitLibreBits ==
  ASSUME UnSoloPrograma, MarcosInv, BitsJustos, NEW p \in Programas, BitLibre(p), EnUso(p)' = EnUso(p)
  PROVE  BitsJustos'
<1> DEFINE l == loc[p]
           m == Min(MarcosLibres)
           d == [l EXCEPT !.marco = m]
<1>1. /\ pc[p] = "bit_libre" /\ Ir(p, l.vuelta, d) /\ UNCHANGED <<ranuras, pagina>>
      /\ bitMarco' = [bitMarco EXCEPT ![m] = [ocupado |-> TRUE, uso |-> TRUE, modificado |-> TRUE]]
  BY DEF BitLibre, Esta
<1>2. pc[p] \in Buscando /\ pc[p] \notin Vueltas \cup {"desalojar", "destruir"} /\ l.vuelta \in Vueltas
  BY <1>1 DEF Buscando, Desalojando, Vueltas, MarcosInv, Manejador, PideMarco
<1>3. d.marco = m /\ d.pag = l.pag
  BY DEF MarcosInv, MarcosTipo, LocalBien, LocalVacio
<1> HIDE DEF m, d
<1>4. pc'[p] = l.vuelta /\ loc'[p] = d /\ \A q \in Programas : q = p
  BY <1>1, IrA DEF UnSoloPrograma
<1>5. \A k \in IdMarcos : k = m \/ bitMarco'[k] = bitMarco[k]
  BY <1>1 DEF MarcosInv, MarcosTipo
<1>6. Ocupados'
  BY <1>1, <1>2, <1>3, <1>4, <1>5 DEF BitsJustos, Ocupados, Presente
<1>7. Marcadas'
  BY <1>1, <1>2, <1>4 DEF BitsJustos, Marcadas
<1>8. Guardadas'
  BY <1>1, <1>2, <1>3, <1>4 DEF BitsJustos, Guardadas
<1>9. QED
  BY <1>6, <1>7, <1>8 DEF BitsJustos

LEMMA CopiarASwapBits ==
  ASSUME UnSoloPrograma, MarcosInv, BitsJustos, NEW p \in Programas, CopiarASwap(p), EnUso(p)' = EnUso(p)
  PROVE  BitsJustos'
<1> DEFINE l == loc[p]
           d == [l EXCEPT !.origen = Nada]
<1>1. /\ pc[p] = "copiar_a_swap" /\ Ir(p, "desalojar", d) /\ UNCHANGED <<bitMarco, pagina>>
      /\ ranuras' = ranuras \cup {l.ranura}
  BY DEF CopiarASwap, Esta, Marcar, cuentas
<1>2. /\ pc[p] \in Buscando /\ pc[p] \notin Vueltas \cup {"desalojar", "destruir"}
      /\ "desalojar" \in Buscando /\ "desalojar" \notin Vueltas
  BY <1>1 DEF Buscando, Desalojando, Vueltas
<1>3. d.ranura = l.ranura /\ d.pag = l.pag
  BY DEF MarcosInv, MarcosTipo, LocalBien, LocalVacio
<1> HIDE DEF d
<1>4. pc'[p] = "desalojar" /\ loc'[p] = d /\ \A q \in Programas : q = p
  BY <1>1, IrA DEF UnSoloPrograma
<1>5. Ocupados'
  BY <1>1, <1>2, <1>4 DEF BitsJustos, Ocupados, Presente
<1>6. Marcadas'
  BY <1>1, <1>2, <1>3, <1>4 DEF BitsJustos, Marcadas
<1>7. Guardadas'
  BY <1>1, <1>2, <1>3, <1>4 DEF BitsJustos, Guardadas
<1>8. QED
  BY <1>5, <1>6, <1>7 DEF BitsJustos

LEMMA DesalojarBits ==
  ASSUME UnSoloPrograma, MarcosInv, BitsJustos, NEW p \in Programas, Desalojar(p), EnUso(p)' = EnUso(p)
  PROVE  BitsJustos'
<1> DEFINE l == loc[p]
           v == l.victima
           d == [l EXCEPT !.victima = Nada, !.ranura = Nada]
<1>1. /\ pc[p] = "desalojar" /\ ~caido /\ Ir(p, l.vuelta, d) /\ UNCHANGED ranuras
      /\ pagina' = [pagina EXCEPT ![v] = [presencia |-> FALSE, marco |-> Nada, ranura |-> l.ranura]]
      /\ bitMarco' = Usado(l.marco, FALSE)
  BY DEF Desalojar, Esta, Desalojada
<1>2. /\ l.vuelta \in Vueltas /\ l.marco \in IdMarcos /\ v \in IdPaginas /\ Presente(v)
      /\ pagina[v].marco = l.marco /\ l.pag \in IdPaginas /\ ~Presente(l.pag)
      /\ pagina[l.pag].ranura = Nada /\ l.vuelta \notin Buscando
  BY <1>1 DEF MarcosInv, Manejador, PideMarco, PideRanura, BitsJustos, Guardadas, Buscando, Desalojando, Vueltas
<1>3. d.marco = l.marco /\ d.pag = l.pag
  BY DEF MarcosInv, MarcosTipo, LocalBien, LocalVacio
<1> HIDE DEF d
<1>4. pc'[p] = l.vuelta /\ loc'[p] = d /\ \A q \in Programas : q = p
  BY <1>1, IrA DEF UnSoloPrograma
<1>5. \A k \in IdMarcos : bitMarco'[k].ocupado = bitMarco[k].ocupado
  BY <1>1, <1>2, MarcoUsado DEF MarcosInv
<1>6. /\ pagina'[v].presencia = FALSE /\ pagina'[v].ranura = l.ranura
      /\ \A g \in IdPaginas \ {v} : pagina'[g] = pagina[g]
  BY <1>1, <1>2 DEF MarcosInv, MarcosTipo
<1>7. Ocupados'
  <2> SUFFICES ASSUME NEW m \in IdMarcos, bitMarco'[m].ocupado, m # l.marco
               PROVE  \E g \in IdPaginas : Presente(g)' /\ pagina'[g].marco = m
    BY <1>2, <1>3, <1>4 DEF Ocupados
  <2>1. PICK g \in IdPaginas : Presente(g) /\ pagina[g].marco = m
    BY <1>1, <1>4, <1>5 DEF BitsJustos, Ocupados, Vueltas
  <2>2. g # v
    BY <1>2, <2>1
  <2>3. QED
    BY <1>6, <2>1, <2>2 DEF Presente
<1>8. Marcadas'
  <2> SUFFICES ASSUME NEW r \in ranuras, r # l.ranura PROVE \E g \in IdPaginas : pagina'[g].ranura = r
    BY <1>1, <1>2, <1>6 DEF Marcadas
  <2>1. PICK g \in IdPaginas : pagina[g].ranura = r
    BY <1>4 DEF BitsJustos, Marcadas
  <2>2. r # Nada
    BY MuseSupuesto DEF MarcosInv, MarcosTipo
  <2>3. g # v
    BY <1>2, <2>1, <2>2 DEF MarcosInv, EnSuLugar
  <2>4. QED
    BY <1>6, <2>1, <2>3
<1>9. Guardadas'
  <2>1. v \in EnUso(p)
    BY <1>2 DEF MarcosInv, Anotadas, EnUso
  <2>2. pagina'[l.pag].ranura = Nada
    BY <1>2, <1>6
  <2>3. \A g \in IdPaginas : pagina'[g].ranura # Nada => g \in EnUso(p)
    BY <1>1, <1>6, <2>1 DEF BitsJustos, Guardadas
  <2>4. QED
    BY <1>3, <1>4, <2>2, <2>3 DEF Guardadas
<1>10. QED
  BY <1>7, <1>8, <1>9 DEF BitsJustos

LEMMA TraerDeSwapBits ==
  ASSUME UnSoloPrograma, MarcosInv, BitsJustos, NEW p \in Programas, TraerDeSwap(p), EnUso(p)' = EnUso(p)
  PROVE  BitsJustos'
<1> DEFINE l == loc[p]
           g == l.pag
           r == pagina[g].ranura
           d == [l EXCEPT !.traido = swap[r], !.vuelta = "traida"]
<1>1. /\ pc[p] = "obtener" /\ ~Presente(g) /\ r # Nada /\ Ir(p, "bit_libre", d)
      /\ pagina' = [pagina EXCEPT ![g].ranura = Nada] /\ ranuras' = ranuras \ {r}
      /\ UNCHANGED bitMarco
  BY DEF TraerDeSwap, Esta, Presente
<1>2. g \in IdPaginas
  BY <1>1 DEF MarcosInv, Manejador, UsaPagina
<1>3. d.pag = g
  BY DEF MarcosInv, MarcosTipo, LocalBien, LocalVacio
<1> HIDE DEF d
<1>4. pc'[p] = "bit_libre" /\ loc'[p] = d /\ \A q \in Programas : q = p
  BY <1>1, IrA DEF UnSoloPrograma
<1>5. /\ pagina'[g].presencia = pagina[g].presencia /\ pagina'[g].ranura = Nada
      /\ \A h \in IdPaginas \ {g} : pagina'[h] = pagina[h]
  BY <1>1, <1>2 DEF MarcosInv, MarcosTipo
<1>6. Ocupados'
  <2> SUFFICES ASSUME NEW m \in IdMarcos, bitMarco[m].ocupado
               PROVE  \E h \in IdPaginas : Presente(h)' /\ pagina'[h].marco = m
    BY <1>1 DEF Ocupados
  <2>1. PICK h \in IdPaginas : Presente(h) /\ pagina[h].marco = m
    BY <1>1, <1>4 DEF BitsJustos, Ocupados, Vueltas
  <2>2. QED
    BY <1>1, <1>5, <2>1 DEF Presente
<1>7. Marcadas'
  <2> SUFFICES ASSUME NEW x \in ranuras, x # r PROVE \E h \in IdPaginas : pagina'[h].ranura = x
    BY <1>1 DEF Marcadas
  <2>1. PICK h \in IdPaginas : pagina[h].ranura = x
    BY <1>1, <1>4 DEF BitsJustos, Marcadas
  <2>2. QED
    BY <1>5, <2>1
<1>8. Guardadas'
  <2>1. \A h \in IdPaginas : pagina'[h].ranura # Nada => h \in EnUso(p)
    BY <1>1, <1>5 DEF BitsJustos, Guardadas
  <2>2. QED
    BY <1>3, <1>4, <1>5, <2>1 DEF Guardadas
<1>9. QED
  BY <1>6, <1>7, <1>8 DEF BitsJustos

(* The page a handler looked a frame for gets it. *)
LEMMA ConMarcoBits ==
  ASSUME UnSoloPrograma, MarcosInv, BitsJustos, NEW p \in Programas, pc[p] \in Vueltas,
         NEW punto, NEW d, Ir(p, punto, d), punto \notin Buscando \cup Vueltas,
         pagina' = [pagina EXCEPT ![loc[p].pag] =
                      [presencia |-> TRUE, marco |-> loc[p].marco, ranura |-> Nada]],
         \A m \in IdMarcos : bitMarco'[m].ocupado = bitMarco[m].ocupado, UNCHANGED ranuras,
         EnUso(p)' = EnUso(p)
  PROVE  BitsJustos'
<1> DEFINE g == loc[p].pag
<1>1. /\ pc'[p] = punto /\ (\A q \in Programas : q = p) /\ pc[p] \notin {"desalojar", "destruir"}
      /\ g \in IdPaginas /\ ~Presente(g) /\ pagina[g].ranura = Nada
  BY IrA DEF UnSoloPrograma, Vueltas, MarcosInv, Manejador, PideMarco, BitsJustos, Guardadas
<1>2. /\ pagina'[g] = [presencia |-> TRUE, marco |-> loc[p].marco, ranura |-> Nada]
      /\ \A h \in IdPaginas \ {g} : pagina'[h] = pagina[h]
  BY <1>1 DEF MarcosInv, MarcosTipo
<1>3. Ocupados'
  <2> SUFFICES ASSUME NEW m \in IdMarcos, bitMarco[m].ocupado
               PROVE  \E h \in IdPaginas : Presente(h)' /\ pagina'[h].marco = m
    BY DEF Ocupados
  <2>1. CASE m = loc[p].marco
    BY <1>1, <1>2, <2>1 DEF Presente
  <2>2. CASE m # loc[p].marco
    <3>1. PICK h \in IdPaginas : Presente(h) /\ pagina[h].marco = m
      BY <1>1, <2>2 DEF BitsJustos, Ocupados
    <3>2. QED
      BY <1>1, <1>2, <3>1 DEF Presente
  <2>3. QED
    BY <2>1, <2>2
<1>4. Marcadas'
  <2> SUFFICES ASSUME NEW r \in ranuras PROVE \E h \in IdPaginas : pagina'[h].ranura = r
    BY DEF Marcadas
  <2>1. PICK h \in IdPaginas : pagina[h].ranura = r
    BY <1>1 DEF BitsJustos, Marcadas
  <2>2. r # Nada
    BY MuseSupuesto DEF MarcosInv, MarcosTipo
  <2>3. QED
    BY <1>1, <1>2, <2>1, <2>2
<1>5. Guardadas'
  <2>1. \A h \in IdPaginas : pagina'[h].ranura # Nada => h \in EnUso(p)
    BY <1>1, <1>2 DEF BitsJustos, Guardadas
  <2>2. QED
    BY <1>1, <2>1 DEF Guardadas
<1>6. QED
  BY <1>3, <1>4, <1>5 DEF BitsJustos

(* destroy_pagina frees the frame and the slot that the page has, and no other. *)
LEMMA DestruirBits ==
  ASSUME UnSoloPrograma, MarcosInv, BitsJustos, NEW p \in Programas, NEW gs \in SUBSET IdPaginas,
         Destruir(gs), pc[p] \notin Vueltas \cup {"desalojar"}, pc'[p] \notin Buscando \cup Vueltas,
         pc[p] = "destruir" => loc[p].pag \in gs, EnUso(p) \subseteq EnUso(p)' \cup gs
  PROVE  BitsJustos'
<1>1. \A q \in Programas : q = p
  BY DEF UnSoloPrograma
<1>2. /\ \A m \in IdMarcos : bitMarco'[m].ocupado = (bitMarco[m].ocupado /\ m \notin MarcosDe(gs))
      /\ ranuras' = ranuras \ RanurasDe(gs)
  BY DEF Destruir, MarcosInv, MarcosTipo
<1>3. /\ \A g \in gs : pagina'[g].ranura = Nada
      /\ \A g \in IdPaginas \ gs : pagina'[g] = pagina[g]
  BY DEF Destruir, PaginaVacia
<1>4. Ocupados'
  <2> SUFFICES ASSUME NEW m \in IdMarcos, bitMarco[m].ocupado, m \notin MarcosDe(gs)
               PROVE  \E h \in IdPaginas : Presente(h)' /\ pagina'[h].marco = m
    BY <1>2 DEF Ocupados
  <2>1. PICK h \in IdPaginas : Presente(h) /\ pagina[h].marco = m
    BY <1>1 DEF BitsJustos, Ocupados
  <2>2. h \notin gs
    BY <2>1 DEF MarcosDe
  <2>3. QED
    BY <1>3, <2>1, <2>2 DEF Presente
<1>5. Marcadas'
  <2> SUFFICES ASSUME NEW r \in ranuras, r \notin RanurasDe(gs)
               PROVE  \E h \in IdPaginas : pagina'[h].ranura = r
    BY <1>2 DEF Marcadas
  <2>1. PICK h \in IdPaginas : pagina[h].ranura = r
    BY <1>1 DEF BitsJustos, Marcadas
  <2>2. h \notin gs
    BY <2>1 DEF RanurasDe
  <2>3. QED
    BY <1>3, <2>1, <2>2
<1>6. Guardadas'
  <2>1. ASSUME NEW g \in IdPaginas, pagina'[g].ranura # Nada PROVE g \in EnUso(p)'
    <3>1. g \notin gs /\ pagina[g].ranura # Nada
      BY <1>3, <2>1
    <3>2. QED
      BY <3>1 DEF BitsJustos, Guardadas
  <2>2. QED
    BY <1>1, <2>1 DEF Guardadas
<1>7. QED
  BY <1>4, <1>5, <1>6 DEF BitsJustos

-----------------------------------------------------------------------------
(* The lists without repetitions.                                            *)

LEMMA PosicionesAlSacar ==
  ASSUME NEW S, NEW lista \in Seq(S), NEW i \in DOMAIN lista
  PROVE  /\ RemoveAt(lista, i) \in Seq(S) /\ DOMAIN RemoveAt(lista, i) = 1..(Len(lista) - 1)
         /\ \A j \in 1..(Len(lista) - 1) : RemoveAt(lista, i)[j] = lista[IF j < i THEN j ELSE j + 1]
<1> DEFINE antes == SubSeq(lista, 1, i-1)
           resto == SubSeq(lista, i+1, Len(lista))
           n == Len(lista)
<1>1. i \in 1..n /\ n \in Nat /\ DOMAIN lista = 1..n
  OBVIOUS
<1>2. /\ antes \in Seq(S) /\ Len(antes) = i - 1
      /\ \A j \in 1..(i-1) : antes[j] = lista[j]
  BY <1>1, SubSeqProperties
<1>3. /\ resto \in Seq(S) /\ Len(resto) = n - i
      /\ \A j \in 1..(n - i) : resto[j] = lista[i + j]
  <2>1. /\ i + 1 \in Int /\ Len(lista) \in Int /\ \A j \in (i+1)..Len(lista) : lista[j] \in S
    BY <1>1
  <2>2. /\ resto \in Seq(S)
        /\ Len(resto) = IF i + 1 <= Len(lista) THEN Len(lista) - (i + 1) + 1 ELSE 0
        /\ \A j \in 1..(Len(lista) - (i + 1) + 1) : resto[j] = lista[(i + 1) + j - 1]
    BY ONLY <2>1, SubSeqProperties
  <2> HIDE DEF resto
  <2>3. \A j \in 1..(Len(lista) - i) : (i + 1) + j - 1 = i + j
    BY <1>1
  <2>4. /\ Len(lista) - (i + 1) + 1 = Len(lista) - i
        /\ (IF i + 1 <= Len(lista) THEN Len(lista) - (i + 1) + 1 ELSE 0) = Len(lista) - i
    BY <1>1
  <2>5. Len(resto) = Len(lista) - i /\ \A j \in 1..(Len(lista) - i) : resto[j] = lista[i + j]
    BY ONLY <2>2, <2>3, <2>4
  <2>6. QED
    BY <2>2, <2>5
<1>4. RemoveAt(lista, i) = antes \o resto
  BY DEF RemoveAt
<1> HIDE DEF antes, resto, n
<1>5. /\ antes \o resto \in Seq(S) /\ Len(antes \o resto) = (i - 1) + (n - i)
      /\ \A j \in 1..((i - 1) + (n - i)) :
           (antes \o resto)[j] = IF j <= i - 1 THEN antes[j] ELSE resto[j - (i - 1)]
  <2>1. /\ antes \o resto \in Seq(S) /\ Len(antes \o resto) = Len(antes) + Len(resto)
        /\ \A j \in 1..(Len(antes) + Len(resto)) :
             (antes \o resto)[j] = IF j <= Len(antes) THEN antes[j] ELSE resto[j - Len(antes)]
    BY <1>2, <1>3, ConcatProperties
  <2>2. QED
    BY ONLY <1>2, <1>3, <2>1
<1>6. (i - 1) + (n - i) = n - 1
  BY <1>1
<1>7. ASSUME NEW j \in 1..(n - 1)
      PROVE  (antes \o resto)[j] = lista[IF j < i THEN j ELSE j + 1]
  <2>1. CASE j < i
    <3>1. j \in 1..(i - 1) /\ j <= i - 1
      BY <1>1, <2>1
    <3>2. QED
      BY <1>2, <1>5, <1>6, <2>1, <3>1
  <2>2. CASE ~(j < i)
    <3>1. ~(j <= i - 1) /\ j - (i - 1) \in 1..(n - i) /\ i + (j - (i - 1)) = j + 1
      BY <1>1, <2>2
    <3>2. QED
      BY <1>3, <1>5, <1>6, <2>2, <3>1
  <2>3. QED
    BY <2>1, <2>2
<1>8. DOMAIN (antes \o resto) = 1..(n - 1)
  BY <1>5, <1>6
<1>9. QED
  BY <1>4, <1>5, <1>7, <1>8 DEF n

LEMMA SacarDeListaSinRepetir ==
  ASSUME NEW S, NEW lista \in Seq(S), NEW i \in DOMAIN lista, SinRepetir(lista)
  PROVE  SinRepetir(RemoveAt(lista, i)) /\ Range(RemoveAt(lista, i)) = Range(lista) \ {lista[i]}
<1> DEFINE n == Len(lista)
           otra == RemoveAt(lista, i)
<1>1. n \in Nat /\ DOMAIN lista = 1..n /\ i \in 1..n
  OBVIOUS
<1>2. /\ DOMAIN otra = 1..(n - 1)
      /\ \A j \in 1..(n - 1) : otra[j] = lista[IF j < i THEN j ELSE j + 1]
  BY PosicionesAlSacar
<1> HIDE DEF n, otra
<1>3. \A j \in 1..(n - 1) : (IF j < i THEN j ELSE j + 1) \in (1..n) \ {i}
  BY <1>1
<1>4. SinRepetir(otra)
  <2> SUFFICES ASSUME NEW j \in 1..(n - 1), NEW k \in 1..(n - 1), otra[j] = otra[k] PROVE j = k
    BY <1>2 DEF SinRepetir
  <2>1. (IF j < i THEN j ELSE j + 1) = (IF k < i THEN k ELSE k + 1)
    BY <1>1, <1>2, <1>3 DEF SinRepetir
  <2>2. QED
    BY <1>1, <2>1
<1>5. ASSUME NEW x \in Range(otra) PROVE x \in Range(lista) \ {lista[i]}
  <2>1. PICK j \in 1..(n - 1) : x = otra[j]
    BY <1>2 DEF Range
  <2>2. QED
    BY <1>1, <1>2, <1>3, <2>1 DEF SinRepetir, Range
<1>6. ASSUME NEW x \in Range(lista), x # lista[i] PROVE x \in Range(otra)
  <2>1. PICK j \in 1..n : x = lista[j]
    BY <1>1 DEF Range
  <2>2. CASE j < i
    <3>1. j \in 1..(n - 1)
      BY <1>1, <2>2
    <3>2. QED
      BY <1>2, <2>1, <2>2, <3>1 DEF Range
  <2>3. CASE j > i
    <3>1. j - 1 \in 1..(n - 1) /\ ~(j - 1 < i) /\ (j - 1) + 1 = j
      BY <1>1, <2>3
    <3>2. QED
      BY <1>2, <2>1, <3>1 DEF Range
  <2>4. QED
    BY <1>1, <1>6, <2>1, <2>2, <2>3
<1>7. QED
  BY <1>4, <1>5, <1>6 DEF otra

LEMMA AgregarSinRepetir ==
  ASSUME NEW S, NEW lista \in Seq(S), NEW x \in S, SinRepetir(lista), x \notin Range(lista)
  PROVE  SinRepetir(Append(lista, x))
<1> DEFINE n == Len(lista)
           otra == Append(lista, x)
<1>1. /\ n \in Nat /\ DOMAIN lista = 1..n /\ DOMAIN otra = 1..(n + 1) /\ otra[n + 1] = x
      /\ \A j \in 1..n : otra[j] = lista[j]
  BY AppendProperties
<1> HIDE DEF n, otra
<1>2. \A j \in 1..(n + 1) : j = n + 1 \/ (j \in 1..n /\ otra[j] # x)
  BY <1>1 DEF Range
<1>3. ASSUME NEW j \in 1..(n + 1), NEW k \in 1..(n + 1), otra[j] = otra[k] PROVE j = k
  BY <1>1, <1>2, <1>3 DEF SinRepetir
<1>4. QED
  BY <1>1, <1>3 DEF SinRepetir, otra

(* The tables without repetitions. *)
LEMMA SegmentoAgregadoAparte ==
  ASSUME NEW segs \in Seq(Segmentos), NEW s \in Segmentos, SinRepetidas(segs), SinRepetir(s.paginas),
         Range(s.paginas) \cap PaginasEn(segs) = {}
  PROVE  SinRepetidas(Append(segs, s))
<1> DEFINE n == Len(segs)
           otros == Append(segs, s)
<1>1. /\ n \in Nat /\ DOMAIN segs = 1..n /\ DOMAIN otros = 1..(n + 1) /\ otros[n + 1] = s
      /\ \A j \in 1..n : otros[j] = segs[j]
  BY AppendProperties
<1> HIDE DEF n, otros
<1>2. \A j \in 1..n : Range(s.paginas) \cap Range(segs[j].paginas) = {}
  <2>1. \A j \in 1..n : segs[j] \in Range(segs)
    BY <1>1 DEF Range
  <2>2. QED
    BY <2>1 DEF PaginasEn
<1>3. \A j \in 1..(n + 1) : j = n + 1 \/ j \in 1..n
  BY <1>1
<1>4. \A j \in DOMAIN otros : SinRepetir(otros[j].paginas)
  BY <1>1, <1>3 DEF SinRepetidas
<1>5. ASSUME NEW j \in DOMAIN otros, NEW k \in DOMAIN otros, j # k
      PROVE  Range(otros[j].paginas) \cap Range(otros[k].paginas) = {}
  BY <1>1, <1>2, <1>3, <1>5 DEF SinRepetidas
<1>6. QED
  BY <1>4, <1>5 DEF SinRepetidas, otros

LEMMA SegmentoSacadoAparte ==
  ASSUME NEW segs \in Seq(Segmentos), NEW k \in DOMAIN segs, SinRepetidas(segs)
  PROVE  SinRepetidas(RemoveAt(segs, k)) /\ PaginasEn(RemoveAt(segs, k)) \subseteq PaginasEn(segs)
<1> DEFINE n == Len(segs)
           otros == RemoveAt(segs, k)
           de(j) == IF j < k THEN j ELSE j + 1
<1>1. n \in Nat /\ DOMAIN segs = 1..n /\ k \in 1..n
  OBVIOUS
<1>2. DOMAIN otros = 1..(n - 1) /\ \A j \in 1..(n - 1) : otros[j] = segs[de(j)]
  BY PosicionesAlSacar
<1> HIDE DEF n, otros
<1>3. /\ \A j \in 1..(n - 1) : de(j) \in 1..n
      /\ \A i, j \in 1..(n - 1) : i # j => de(i) # de(j)
  BY <1>1
<1> HIDE DEF de
<1>4. SinRepetidas(otros)
  <2>1. \A j \in DOMAIN otros : SinRepetir(otros[j].paginas)
    BY <1>1, <1>2, <1>3 DEF SinRepetidas
  <2>2. ASSUME NEW i \in DOMAIN otros, NEW j \in DOMAIN otros, i # j
        PROVE  Range(otros[i].paginas) \cap Range(otros[j].paginas) = {}
    <3>1. de(i) \in DOMAIN segs /\ de(j) \in DOMAIN segs /\ de(i) # de(j)
      BY <1>1, <1>2, <1>3, <2>2
    <3>2. otros[i] = segs[de(i)] /\ otros[j] = segs[de(j)]
      BY <1>2, <2>2
    <3>3. QED
      BY <3>1, <3>2 DEF SinRepetidas
  <2>3. QED
    BY <2>1, <2>2 DEF SinRepetidas
<1>5. PaginasEn(otros) \subseteq PaginasEn(segs)
  BY <1>1, <1>2, <1>3 DEF PaginasEn, Range
<1>6. QED
  BY <1>4, <1>5 DEF otros

LEMMA SegmentoCambiadoAparte ==
  ASSUME NEW segs \in Seq(Segmentos), NEW k \in DOMAIN segs, NEW nuevo \in Segmentos, SinRepetidas(segs),
         SinRepetir(nuevo.paginas),
         \A g \in Range(nuevo.paginas) : g \in Range(segs[k].paginas) \/ g \notin PaginasEn(segs)
  PROVE  LET otros == [segs EXCEPT ![k] = nuevo] IN
         /\ SinRepetidas(otros)
         /\ PaginasEn(otros) = (PaginasEn(segs) \ Range(segs[k].paginas)) \cup Range(nuevo.paginas)
<1> DEFINE otros == [segs EXCEPT ![k] = nuevo]
<1>1. /\ DOMAIN otros = DOMAIN segs /\ otros[k] = nuevo
      /\ \A j \in DOMAIN segs \ {k} : otros[j] = segs[j]
  OBVIOUS
<1> HIDE DEF otros
<1>2. ASSUME NEW j \in DOMAIN segs \ {k}
      PROVE  /\ Range(nuevo.paginas) \cap Range(segs[j].paginas) = {}
             /\ Range(segs[k].paginas) \cap Range(segs[j].paginas) = {}
             /\ Range(segs[j].paginas) \subseteq PaginasEn(segs)
  <2>1. Range(segs[k].paginas) \cap Range(segs[j].paginas) = {}
    BY <1>2 DEF SinRepetidas
  <2>2. segs[j] \in Range(segs)
    BY <1>2 DEF Range
  <2>3. Range(segs[j].paginas) \subseteq PaginasEn(segs)
    BY <2>2 DEF PaginasEn
  <2>4. QED
    BY <2>1, <2>3
<1>3. SinRepetidas(otros)
  BY <1>1, <1>2 DEF SinRepetidas
<1>4. PaginasEn(otros) = (PaginasEn(segs) \ Range(segs[k].paginas)) \cup Range(nuevo.paginas)
  <2>1. \A x : x \in PaginasEn(otros) <=> \E j \in DOMAIN segs : x \in Range(otros[j].paginas)
    BY <1>1 DEF PaginasEn, Range
  <2>2. \A x : x \in PaginasEn(segs) <=> \E j \in DOMAIN segs : x \in Range(segs[j].paginas)
    BY DEF PaginasEn, Range
  <2>3. QED
    BY <1>1, <1>2, <2>1, <2>2
<1>5. QED
  BY <1>3, <1>4 DEF otros

-----------------------------------------------------------------------------
(* What was taken of lugar_disponible.                                       *)

LEMMA EnUsoCon ==
  ASSUME NEW p \in Programas
  PROVE  /\ EnUso(p) = PaginasEn(tabla[p]) \cup Range(loc[p].nuevas)
         /\ EnUso(p)' = PaginasEn(tabla'[p]) \cup Range(loc'[p].nuevas)
  BY PaginasDeTabla DEF EnUso, Range

LEMMA CuentaDe ==
  ASSUME UnSoloPrograma, MarcosInv, Cuenta, NEW p \in Programas
  PROVE  /\ Alta(p) /\ SinRepetidas(tabla[p]) /\ lugar \in Nat /\ lugar <= Marcos + Ranuras
         /\ IsFiniteSet(EnUso(p)) /\ Cardinality(EnUso(p)) \in Nat /\ Reservadas(p) \in Nat
         /\ Cardinality(EnUso(p)) + Reservadas(p) <= Marcos + Ranuras - lugar
         /\ loc[p].n \in Nat /\ loc[p].i \in Nat
<1>1. /\ Alta(p) /\ SinRepetidas(tabla[p]) /\ lugar \in Nat /\ lugar <= Marcos + Ranuras
      /\ Cardinality(EnUso(p)) + Reservadas(p) <= Marcos + Ranuras - lugar
  BY MuseSupuesto DEF Cuenta
<1>2. loc[p].n \in Nat /\ loc[p].i \in Nat
  BY DEF MarcosInv, MarcosTipo, LocalBien
<1>3. Reservadas(p) \in Nat
  BY <1>1, <1>2 DEF Alta, Reservadas
<1>4. QED
  BY <1>1, <1>2, <1>3, EnUsoFinito DEF MarcosInv

LEMMA CuentaHecha ==
  ASSUME UnSoloPrograma, NEW p \in Programas, Alta(p)', SinRepetidas(tabla'[p]), lugar' \in Nat,
         Cardinality(EnUso(p)') \in Nat, Reservadas(p)' \in Nat,
         Cardinality(EnUso(p)') + Reservadas(p)' <= Marcos + Ranuras - lugar'
  PROVE  Cuenta'
<1>1. \A q \in Programas : q = p
  BY DEF UnSoloPrograma
<1>2. lugar' \in 0..(Marcos + Ranuras)
  BY MuseSupuesto
<1>3. QED
  BY <1>1, <1>2 DEF Cuenta

(* A step that does not touch the count. *)
LEMMA MismaAlta ==
  ASSUME UnSoloPrograma, MarcosInv, Cuenta, NEW p \in Programas, NEW punto, NEW d, Ir(p, punto, d),
         UNCHANGED <<tabla, lugar>>, pc[p] \notin {"crear", "soltar", "destruir"},
         punto \notin {"metadatos", "soltar", "destruir"},
         d.nuevas = loc[p].nuevas, d.pag = loc[p].pag, d.forma = loc[p].forma, d.n = loc[p].n,
         d.i = loc[p].i
  PROVE  Cuenta' /\ EnUso(p)' = EnUso(p)
<1>1. pc'[p] = punto /\ loc'[p] = d /\ PaginasDe(p)' = PaginasDe(p) /\ tabla'[p] = tabla[p]
  BY IrA DEF PaginasDe
<1>2. EnUso(p)' = EnUso(p)
  BY <1>1, EnUsoCon
<1>3. Reservadas(p)' = Reservadas(p)
  BY <1>1 DEF Reservadas
<1>4. Alta(p)'
  BY <1>1, <1>2, CuentaDe DEF Alta
<1>5. QED
  BY <1>1, <1>2, <1>3, <1>4, CuentaDe, CuentaHecha

(* A step that leaves the handler with no page to make. *)
LEMMA SinAlta ==
  ASSUME UnSoloPrograma, MarcosInv, Cuenta, NEW p \in Programas, NEW punto, NEW d, Ir(p, punto, d),
         UNCHANGED <<tabla, lugar>>, loc[p].nuevas = <<>>, d.nuevas = <<>>, d.forma = Nada,
         d.n \in Nat, d.n = 0 \/ (punto # "metadatos" /\ d.n <= Reservadas(p)), punto # "destruir"
  PROVE  Cuenta' /\ EnUso(p)' = EnUso(p)
<1>1. pc'[p] = punto /\ loc'[p] = d /\ tabla'[p] = tabla[p]
  BY IrA
<1>2. EnUso(p)' = EnUso(p)
  BY <1>1, EnUsoCon
<1>3. Reservadas(p)' \in Nat /\ Reservadas(p)' <= Reservadas(p)
  BY <1>1, CuentaDe DEF Reservadas
<1>4. Alta(p)'
  BY <1>1 DEF Alta
<1>5. Cardinality(EnUso(p)) + Reservadas(p)' <= Marcos + Ranuras - lugar
  <2>1. /\ Cardinality(EnUso(p)) + Reservadas(p) <= Marcos + Ranuras - lugar /\ lugar \in Nat
        /\ Cardinality(EnUso(p)) \in Nat /\ Reservadas(p) \in Nat
    BY CuentaDe
  <2>2. Marcos \in Nat /\ Ranuras \in Nat
    BY MuseSupuesto
  <2>3. QED
    BY ONLY <1>3, <2>1, <2>2
<1>6. QED
  BY <1>1, <1>2, <1>3, <1>4, <1>5, CuentaDe, CuentaHecha

(* Looking for a frame and using a page. *)
LEMMA BusquedaCuenta ==
  ASSUME UnSoloPrograma, MarcosInv, Cuenta, NEW p \in Programas, AsignarMarco(p)
  PROVE  Cuenta' /\ EnUso(p)' = EnUso(p)
<1> DEFINE l == loc[p]
<1>1. /\ UNCHANGED <<tabla, lugar>> /\ pc[p] \in Buscando
      /\ \E punto \in {"clock", "buscar_pagina", "a_swap", "copiar_a_swap", "desalojar", l.vuelta} : \E d :
           /\ Ir(p, punto, d)
           /\ d.nuevas = l.nuevas /\ d.pag = l.pag /\ d.forma = l.forma /\ d.n = l.n /\ d.i = l.i
  <2> DEFINE Igual(d) == d.nuevas = l.nuevas /\ d.pag = l.pag /\ d.forma = l.forma /\ d.n = l.n /\ d.i = l.i
  <2>1. DOMAIN l = DOMAIN LocalVacio
    BY DEF MarcosInv, MarcosTipo, LocalBien
  <2>2. \A x, y : /\ Igual(l) /\ Igual([l EXCEPT !.marco = x]) /\ Igual([l EXCEPT !.busca = x])
                  /\ Igual([l EXCEPT !.marco = x, !.busca = y]) /\ Igual([l EXCEPT !.victima = x])
                  /\ Igual([l EXCEPT !.origen = x, !.ranura = y]) /\ Igual([l EXCEPT !.origen = x])
                  /\ Igual([l EXCEPT !.victima = x, !.ranura = y])
    BY <2>1 DEF LocalVacio
  <2>3. SUFFICES /\ UNCHANGED <<tabla, lugar>> /\ pc[p] \in Buscando
                 /\ \E punto \in {"clock", "buscar_pagina", "a_swap", "copiar_a_swap", "desalojar", l.vuelta} : \E d :
                      Ir(p, punto, d) /\ Igual(d)
    OBVIOUS
  <2> HIDE DEF Igual
  <2>4. CASE BitLibre(p)
    BY <2>2, <2>4 DEF BitLibre, Esta, cuentas, Buscando
  <2>5. CASE Desalojar(p)
    BY <2>2, <2>5 DEF Desalojar, Esta, cuentas, Buscando, Desalojando
  <2>6. CASE SinBitLibre(p)
    BY <2>2, <2>6 DEF SinBitLibre, Esta, cuentas, Buscando
  <2>7. CASE Buscar(p)
    BY <2>2, <2>7 DEF Buscar, Esta, cuentas, Buscando
  <2>8. CASE NoHallado(p)
    BY <2>2, <2>8 DEF NoHallado, Esta, cuentas, Buscando
  <2>9. CASE BuscarPagina(p)
    BY <2>2, <2>9 DEF BuscarPagina, Esta, cuentas, Buscando
  <2>10. CASE ElegirRanura(p)
    BY <2>2, <2>10 DEF ElegirRanura, Esta, cuentas, Buscando, Desalojando
  <2>11. CASE CopiarASwap(p)
    BY <2>2, <2>11 DEF CopiarASwap, Esta, cuentas, Buscando, Desalojando
  <2>12. QED
    BY <2>4, <2>5, <2>6, <2>7, <2>8, <2>9, <2>10, <2>11 DEF AsignarMarco
<1>2. l.vuelta \in Vueltas
  BY <1>1 DEF MarcosInv, Manejador, PideMarco
<1>3. PICK punto \in {"clock", "buscar_pagina", "a_swap", "copiar_a_swap", "desalojar", l.vuelta} :
        \E d : /\ Ir(p, punto, d)
               /\ d.nuevas = l.nuevas /\ d.pag = l.pag /\ d.forma = l.forma /\ d.n = l.n /\ d.i = l.i
  BY <1>1
<1>4. punto \notin {"metadatos", "soltar", "destruir"} /\ pc[p] \notin {"crear", "soltar", "destruir"}
  BY <1>1, <1>2 DEF Vueltas, Buscando, Desalojando
<1>5. QED
  BY <1>1, <1>3, <1>4, MismaAlta

LEMMA BusquedaBits ==
  ASSUME UnSoloPrograma, MarcosInv, BitsJustos, Cuenta, NEW p \in Programas, AsignarMarco(p)
  PROVE  BitsJustos'
<1> DEFINE l == loc[p]
<1>1. EnUso(p)' = EnUso(p)
  BY BusquedaCuenta
<1>2. LocalBien(l)
  BY DEF MarcosInv, MarcosTipo
<1>3. ASSUME pc[p] \in Buscando \ {"desalojar"}, NEW punto, NEW d, Ir(p, punto, d), d.pag = l.pag,
             UNCHANGED <<pagina, ranuras>>, \A m \in IdMarcos : bitMarco'[m].ocupado = bitMarco[m].ocupado
      PROVE  BitsJustos'
  <2>1. pagina[l.pag].ranura = Nada
    BY <1>3 DEF BitsJustos, Guardadas
  <2>2. pc[p] \notin Vueltas \cup {"desalojar", "destruir"}
    BY <1>3 DEF Buscando, Desalojando, Vueltas
  <2>3. QED
    BY <1>1, <1>3, <2>1, <2>2, MismosBits
<1>4. CASE SinBitLibre(p)
  <2> DEFINE d == [l EXCEPT !.busca = 1]
  <2>1. d.pag = l.pag
    BY <1>2 DEF LocalBien, LocalVacio
  <2>2. pc[p] = "bit_libre" /\ Ir(p, "clock", d) /\ UNCHANGED <<bitMarco, pagina, ranuras>>
    BY <1>4 DEF SinBitLibre, Esta, bits
  <2> HIDE DEF d
  <2>3. QED
    BY <1>3, <2>1, <2>2 DEF Buscando
<1>5. CASE NoHallado(p)
  <2> DEFINE d == [l EXCEPT !.busca = @ + 1]
  <2>1. d.pag = l.pag
    BY <1>2 DEF LocalBien, LocalVacio
  <2>2. /\ pc[p] = "clock" /\ Ir(p, "clock", d) /\ UNCHANGED <<pagina, ranuras>>
        /\ bitMarco' = Gastados(l.busca, Pasos)
    BY <1>5 DEF NoHallado, Esta
  <2> HIDE DEF d
  <2>3. \A m \in IdMarcos : bitMarco'[m].ocupado = bitMarco[m].ocupado
    BY <2>2, GastarUso DEF MarcosInv
  <2>4. QED
    BY <1>3, <2>1, <2>2, <2>3 DEF Buscando
<1>6. CASE Buscar(p)
  <2> DEFINE k == Min(Hallados(l.busca))
             d == [l EXCEPT !.marco = Vuelta(k), !.busca = 0]
  <2>1. d.pag = l.pag
    BY <1>2 DEF LocalBien, LocalVacio
  <2>2. /\ pc[p] = "clock" /\ Ir(p, "buscar_pagina", d) /\ UNCHANGED <<pagina, ranuras>>
        /\ bitMarco' = Gastados(l.busca, 0..(k - 1))
    BY <1>6 DEF Buscar, Esta
  <2> HIDE DEF d, k
  <2>3. \A m \in IdMarcos : bitMarco'[m].ocupado = bitMarco[m].ocupado
    BY <2>2, GastarUso DEF MarcosInv
  <2>4. QED
    BY <1>3, <2>1, <2>2, <2>3 DEF Buscando
<1>7. CASE BuscarPagina(p)
  <2>1. \A g : [l EXCEPT !.victima = g].pag = l.pag
    BY <1>2 DEF LocalBien, LocalVacio
  <2>2. pc[p] = "buscar_pagina" /\ UNCHANGED <<bitMarco, pagina, ranuras>>
    BY <1>7 DEF BuscarPagina, Esta, bits
  <2>3. CASE Ocupantes(l.marco) = {}
    BY <1>3, <1>7, <2>2, <2>3 DEF BuscarPagina, Buscando
  <2>4. CASE Ocupantes(l.marco) # {}
    <3>1. PICK g \in Ocupantes(l.marco) : Ir(p, "a_swap", [l EXCEPT !.victima = g])
      BY <1>7, <2>4 DEF BuscarPagina
    <3>2. QED
      BY <1>3, <2>1, <2>2, <3>1 DEF Buscando
  <2>5. QED
    BY <2>3, <2>4
<1>8. CASE ElegirRanura(p)
  <2> DEFINE d == [l EXCEPT !.origen = pagina[l.victima].marco, !.ranura = RanuraLibre]
  <2>1. d.pag = l.pag
    BY <1>2 DEF LocalBien, LocalVacio
  <2>2. pc[p] = "a_swap" /\ Ir(p, "copiar_a_swap", d) /\ UNCHANGED <<bitMarco, pagina, ranuras>>
    BY <1>8 DEF ElegirRanura, Esta, bits
  <2> HIDE DEF d
  <2>3. QED
    BY <1>3, <2>1, <2>2 DEF Buscando, Desalojando
<1>9. CASE BitLibre(p) \/ CopiarASwap(p) \/ Desalojar(p)
  BY <1>1, <1>9, BitLibreBits, CopiarASwapBits, DesalojarBits
<1>10. QED
  BY <1>4, <1>5, <1>6, <1>7, <1>8, <1>9 DEF AsignarMarco

(* A page is brought, or given a frame, and used. *)
MueveUna(p) ==
  \/ EnMemoria(p) \/ TraerDeSwap(p) \/ Traida(p) \/ Pegar(p, "pegar", "usar") \/ Creada(p) \/ Acceder(p)
  \/ CargarMapeo(p) \/ Cargada(p) \/ Pegar(p, "pegar_mapeo", "obtener")

LEMMA MueveUnaCuenta ==
  ASSUME UnSoloPrograma, MarcosInv, Cuenta, NEW p \in Programas, MueveUna(p)
  PROVE  Cuenta' /\ EnUso(p)' = EnUso(p)
<1> DEFINE l == loc[p]
           Igual(d) == d.nuevas = l.nuevas /\ d.pag = l.pag /\ d.forma = l.forma /\ d.n = l.n /\ d.i = l.i
           Destino == {"usar", "bit_libre", "pegar", "obtener", "agregar", "pegar_mapeo"}
<1>1. \A x, y : /\ Igual(l) /\ Igual([l EXCEPT !.traido = x]) /\ Igual([l EXCEPT !.luego = x])
                /\ Igual([l EXCEPT !.traido = x, !.vuelta = y])
  BY DEF MarcosInv, MarcosTipo, LocalBien, LocalVacio
<1>2. /\ UNCHANGED <<tabla, lugar>> /\ pc[p] \notin {"crear", "soltar", "destruir"}
      /\ \E punto \in Destino : \E d : Ir(p, punto, d) /\ Igual(d)
  <2> HIDE DEF Igual
  <2>1. CASE EnMemoria(p) \/ Acceder(p)
    BY <1>1, <2>1 DEF EnMemoria, Acceder, Esta, cuentas
  <2>2. CASE TraerDeSwap(p) \/ CargarMapeo(p)
    BY <1>1, <2>2 DEF TraerDeSwap, CargarMapeo, Esta, cuentas
  <2>3. CASE Traida(p) \/ Cargada(p)
    BY <1>1, <2>3 DEF Traida, Cargada, Esta, cuentas
  <2>4. CASE Pegar(p, "pegar", "usar") \/ Pegar(p, "pegar_mapeo", "obtener")
    BY <1>1, <2>4 DEF Pegar, Esta, cuentas
  <2>5. CASE Creada(p)
    BY <1>1, <2>5 DEF Creada, SeguirCreando, Esta, cuentas
  <2>6. QED
    BY <2>1, <2>2, <2>3, <2>4, <2>5 DEF MueveUna
<1>3. PICK punto \in Destino : \E d : Ir(p, punto, d) /\ Igual(d)
  BY <1>2
<1>4. punto \notin {"metadatos", "soltar", "destruir"}
  OBVIOUS
<1>5. QED
  BY <1>2, <1>3, <1>4, MismaAlta

LEMMA MueveUnaBits ==
  ASSUME UnSoloPrograma, MarcosInv, BitsJustos, Cuenta, NEW p \in Programas, MueveUna(p)
  PROVE  BitsJustos'
<1> DEFINE l == loc[p]
<1>1. EnUso(p)' = EnUso(p)
  BY MueveUnaCuenta
<1>2. LocalBien(l)
  BY DEF MarcosInv, MarcosTipo
<1>3. CASE EnMemoria(p) \/ Acceder(p)
  <2>1. \E punto \in {"usar", "obtener"} : Ir(p, punto, l)
    BY <1>3 DEF EnMemoria, Acceder
  <2>2. pc[p] \in {"obtener", "acceder"} /\ UNCHANGED <<bitMarco, pagina, ranuras>>
    BY <1>3 DEF EnMemoria, Acceder, Esta, bits
  <2>3. QED
    BY <1>1, <2>1, <2>2, MismosBits DEF Buscando, Desalojando, Vueltas
<1>4. CASE Pegar(p, "pegar", "usar") \/ Pegar(p, "pegar_mapeo", "obtener")
  <2>1. \E punto \in {"usar", "obtener"} : Ir(p, punto, [l EXCEPT !.traido = Nada])
    BY <1>4 DEF Pegar
  <2>2. pc[p] \in {"pegar", "pegar_mapeo"} /\ UNCHANGED <<bitMarco, pagina, ranuras>>
    BY <1>4 DEF Pegar, Esta, bits
  <2>3. QED
    BY <1>1, <2>1, <2>2, MismosBits DEF Buscando, Desalojando, Vueltas
<1>5. CASE TraerDeSwap(p)
  BY <1>1, <1>5, TraerDeSwapBits
<1>6. CASE Traida(p)
  <2>1. /\ pc[p] = "traida" /\ Ir(p, "pegar", l) /\ UNCHANGED <<bitMarco, ranuras>>
        /\ pagina' = [pagina EXCEPT ![l.pag] = [presencia |-> TRUE, marco |-> l.marco, ranura |-> @.ranura]]
    BY <1>6 DEF Traida, Esta, bits
  <2>2. l.pag \in IdPaginas /\ pagina[l.pag].ranura = Nada
    BY <2>1 DEF MarcosInv, Manejador, PideMarco, Vueltas
  <2>3. pagina' = [pagina EXCEPT ![l.pag] = [presencia |-> TRUE, marco |-> l.marco, ranura |-> Nada]]
    BY <2>1, <2>2 DEF MarcosInv, MarcosTipo
  <2>4. pc[p] \in Vueltas /\ "pegar" \notin Buscando \cup Vueltas
    BY <2>1 DEF Buscando, Desalojando, Vueltas
  <2>5. QED
    BY <1>1, <2>1, <2>3, <2>4, ConMarcoBits
<1>7. CASE Creada(p) \/ Cargada(p)
  <2>1. PICK v \in {TRUE, bitMarco[l.marco].modificado \/ ~(l.forma = "rearmado")} :
             bitMarco' = Usado(l.marco, v)
    BY <1>7 DEF Creada, Cargada
  <2>2. /\ pc[p] \in Vueltas /\ UNCHANGED ranuras
        /\ pagina' = [pagina EXCEPT ![l.pag] = [presencia |-> TRUE, marco |-> l.marco, ranura |-> Nada]]
    BY <1>7 DEF Creada, Cargada, Esta, Vueltas
  <2>3. \E punto \in {"obtener", "agregar", "pegar_mapeo"} : \E d : Ir(p, punto, d)
    BY <1>7 DEF Creada, Cargada, SeguirCreando
  <2>4. l.marco \in IdMarcos
    BY <2>2 DEF MarcosInv, Manejador, PideMarco
  <2>5. v \in BOOLEAN
    BY <2>4 DEF MarcosInv, MarcosTipo
  <2>6. \A m \in IdMarcos : bitMarco'[m].ocupado = bitMarco[m].ocupado
    BY <2>1, <2>4, <2>5, MarcoUsado DEF MarcosInv
  <2>7. {"obtener", "agregar", "pegar_mapeo"} \cap (Buscando \cup Vueltas) = {}
    BY DEF Buscando, Desalojando, Vueltas
  <2>8. QED
    BY <1>1, <2>2, <2>3, <2>6, <2>7, ConMarcoBits
<1>8. CASE CargarMapeo(p)
  <2> DEFINE d == [l EXCEPT !.traido = Archivo, !.vuelta = "cargada"]
  <2>1. d.pag = l.pag
    BY <1>2 DEF LocalBien, LocalVacio
  <2>2. /\ pc[p] = "acceder" /\ Ir(p, "bit_libre", d) /\ UNCHANGED <<bitMarco, pagina, ranuras>>
        /\ pagina[l.pag].ranura = Nada
    BY <1>8 DEF CargarMapeo, SinCargar, Esta, bits
  <2> HIDE DEF d
  <2>3. pc[p] \notin Vueltas \cup {"desalojar", "destruir"}
    BY <2>2 DEF Vueltas
  <2>4. QED
    BY <1>1, <2>1, <2>2, <2>3, MismosBits
<1>9. QED
  BY <1>3, <1>4, <1>5, <1>6, <1>7, <1>8 DEF MueveUna

LEMMA UsarReserva ==
  ASSUME UnSoloPrograma, MarcosInv, BitsJustos, Cuenta, NEW p \in Programas, Usar(p)
  PROVE  BitsJustos' /\ Cuenta'
<1> DEFINE l == loc[p]
           m == pagina[l.pag].marco
<1>1. /\ pc[p] = "usar" /\ UNCHANGED <<ranuras, pagina, tabla, lugar>>
      /\ bitMarco' = IF m = Nada THEN bitMarco ELSE Usado(m, bitMarco[m].modificado)
      /\ Ir(p, l.luego, IF l.luego = "metadatos" THEN [LocalVacio EXCEPT !.seg = l.seg]
                        ELSE [l EXCEPT !.marco = m, !.vuelta = "libre"])
  BY DEF Usar, Esta, cuentas
<1>2. l.pag \in IdPaginas /\ Presente(l.pag) /\ l.nuevas = <<>> /\ l.luego \in {"agregar", "metadatos", "copiar"}
  BY <1>1 DEF MarcosInv, Manejador, DaDeAlta, UsaPagina
<1>3. m \in IdMarcos /\ m # Nada
  BY <1>2, MuseSupuesto DEF MarcosInv, EnSuLugar
<1>4. \A k \in IdMarcos : bitMarco'[k].ocupado = bitMarco[k].ocupado
  <2>1. bitMarco' = Usado(m, bitMarco[m].modificado) /\ bitMarco[m].modificado \in BOOLEAN
    BY <1>1, <1>3 DEF MarcosInv, MarcosTipo
  <2> HIDE DEF m
  <2>2. QED
    BY <1>3, <2>1, MarcoUsado DEF MarcosInv
<1>5. ASSUME NEW d, Ir(p, l.luego, d), Cuenta' /\ EnUso(p)' = EnUso(p) PROVE BitsJustos' /\ Cuenta'
  <2>1. l.luego \notin Buscando \cup Vueltas /\ pc[p] \notin Vueltas \cup {"desalojar", "destruir"}
    BY <1>1, <1>2 DEF Buscando, Desalojando, Vueltas
  <2>2. QED
    BY <1>1, <1>4, <1>5, <2>1, MismosBits
<1>6. CASE l.luego = "metadatos"
  <2> DEFINE d == [LocalVacio EXCEPT !.seg = l.seg]
  <2>1. Ir(p, l.luego, d) /\ d.nuevas = <<>> /\ d.forma = Nada /\ d.n = 0
    BY <1>1, <1>6 DEF LocalVacio
  <2> HIDE DEF d
  <2>2. QED
    BY <1>1, <1>2, <1>5, <2>1, SinAlta
<1>7. CASE l.luego # "metadatos"
  <2> DEFINE d == [l EXCEPT !.marco = m, !.vuelta = "libre"]
  <2>1. Ir(p, l.luego, d)
    BY <1>1, <1>7
  <2>2. d.nuevas = l.nuevas /\ d.pag = l.pag /\ d.forma = l.forma /\ d.n = l.n /\ d.i = l.i
    BY DEF MarcosInv, MarcosTipo, LocalBien, LocalVacio
  <2> HIDE DEF d
  <2>3. QED
    BY <1>1, <1>2, <1>5, <1>7, <2>1, <2>2, MismaAlta
<1>8. QED
  BY <1>6, <1>7

(* muse_get only says of the page what it is. *)
LEMMA LeerDejaLaPagina ==
  ASSUME MarcosInv, NEW p \in Programas, Leer(p)
  PROVE  pagina' = pagina
<1> DEFINE g == loc[p].pag
           Registros == [presencia : BOOLEAN, marco : ONada(IdMarcos), ranura : ONada(IdRanuras)]
           otra == [pagina[g] EXCEPT !.presencia = TRUE]
<1>1. g \in IdPaginas /\ Presente(g) /\ pagina' = [pagina EXCEPT ![g].presencia = TRUE]
  BY DEF Leer, Esta, MarcosInv, Manejador, UsaPagina
<1>2. pagina \in [IdPaginas -> Registros] /\ pagina[g] \in Registros /\ pagina[g].presencia = TRUE
  BY <1>1 DEF MarcosInv, MarcosTipo, Presente
<1>3. otra = pagina[g] /\ [pagina EXCEPT ![g].presencia = TRUE] = [pagina EXCEPT ![g] = otra]
  BY <1>2
<1> HIDE DEF otra, Registros
<1>4. QED
  BY <1>1, <1>2, <1>3

(* The steps that neither take nor give back a page. *)
SinPaginas(p) ==
  \/ EmpezarHeap(p) \/ TocarMetadatos(p) \/ EmpezarASoltar(p) \/ HeapListo(p)
  \/ EmpezarAcceso(p) \/ Leer(p) \/ Escribir(p)

LEMMA SinPaginasReserva ==
  ASSUME UnSoloPrograma, MarcosInv, BitsJustos, Cuenta, NEW p \in Programas, SinPaginas(p)
  PROVE  BitsJustos' /\ Cuenta'
<1> DEFINE l == loc[p]
<1>1. /\ pc[p] \in {"libre", "metadatos", "copiar"} /\ UNCHANGED <<ranuras, tabla, lugar>>
      /\ pagina' = pagina /\ l.nuevas = <<>>
  <2>1. UNCHANGED <<ranuras, tabla, lugar>> /\ pc[p] \in {"libre", "metadatos", "copiar"}
    BY DEF SinPaginas, EmpezarHeap, TocarMetadatos, EmpezarASoltar, HeapListo, EmpezarAcceso, Leer, Escribir,
           Esta, bits, cuentas
  <2>2. pagina' = pagina
    BY LeerDejaLaPagina DEF SinPaginas, EmpezarHeap, TocarMetadatos, EmpezarASoltar, HeapListo, EmpezarAcceso,
                            Escribir
  <2>3. QED
    BY <2>1, <2>2 DEF MarcosInv, Manejador, DaDeAlta
<1>2. \A m \in IdMarcos : bitMarco'[m].ocupado = bitMarco[m].ocupado
  <2>1. CASE Leer(p) \/ Escribir(p)
    <3> DEFINE m == l.marco
    <3>1. PICK v \in {TRUE, bitMarco[m].modificado} : bitMarco' = Usado(m, v)
      BY <2>1 DEF Leer, Escribir
    <3>2. CASE m \in IdMarcos
      <4>1. v \in BOOLEAN
        BY <3>1, <3>2 DEF MarcosInv, MarcosTipo
      <4>2. QED
        BY <3>1, <3>2, <4>1, MarcoUsado DEF MarcosInv
    <3>3. CASE m \notin IdMarcos
      BY <3>1, <3>3 DEF Usado, MarcosInv, MarcosTipo
    <3>4. QED
      BY <3>2, <3>3
  <2>2. QED
    BY <2>1 DEF SinPaginas, EmpezarHeap, TocarMetadatos, EmpezarASoltar, HeapListo, EmpezarAcceso, bits
<1>3. ASSUME NEW punto \in {"libre", "metadatos", "obtener", "soltar", "acceder"}, NEW d, Ir(p, punto, d),
             d.nuevas = <<>>, d.forma = Nada, d.n = 0
      PROVE  BitsJustos' /\ Cuenta'
  <2>1. Cuenta' /\ EnUso(p)' = EnUso(p)
    BY <1>1, <1>3, SinAlta
  <2>2. /\ pc[p] \notin Vueltas \cup {"desalojar", "destruir"} /\ punto \notin Buscando \cup Vueltas
    BY <1>1, <1>3 DEF Buscando, Desalojando, Vueltas
  <2>3. QED
    BY <1>1, <1>2, <1>3, <2>1, <2>2, MismosBits
<1>4. CASE HeapListo(p) \/ Leer(p) \/ Escribir(p)
  <2>1. Ir(p, "libre", LocalVacio)
    BY <1>4 DEF HeapListo, Leer, Escribir, Libre
  <2>2. LocalVacio.nuevas = <<>> /\ LocalVacio.forma = Nada /\ LocalVacio.n = 0
    BY DEF LocalVacio
  <2>3. QED
    BY <1>3, <2>1, <2>2
<1>5. CASE EmpezarHeap(p)
  <2>1. PICK s \in DOMAIN tabla[p] : Ir(p, "metadatos", [LocalVacio EXCEPT !.seg = s])
    BY <1>5 DEF EmpezarHeap
  <2> DEFINE d == [LocalVacio EXCEPT !.seg = s]
  <2>2. d.nuevas = <<>> /\ d.forma = Nada /\ d.n = 0 /\ Ir(p, "metadatos", d)
    BY <2>1 DEF LocalVacio
  <2> HIDE DEF d
  <2>3. QED
    BY <1>3, <2>2
<1>6. CASE EmpezarAcceso(p)
  <2>1. PICK g \in PaginasDe(p), v \in Valores \cup {Nada} :
          Ir(p, "acceder", [LocalVacio EXCEPT !.pag = g, !.valor = v, !.luego = "copiar"])
    BY <1>6 DEF EmpezarAcceso
  <2> DEFINE d == [LocalVacio EXCEPT !.pag = g, !.valor = v, !.luego = "copiar"]
  <2>2. d.nuevas = <<>> /\ d.forma = Nada /\ d.n = 0 /\ Ir(p, "acceder", d)
    BY <2>1 DEF LocalVacio
  <2> HIDE DEF d
  <2>3. QED
    BY <1>3, <2>2
<1>7. CASE TocarMetadatos(p) \/ EmpezarASoltar(p)
  <2>1. pc[p] = "metadatos"
    BY <1>7 DEF TocarMetadatos, EmpezarASoltar, Esta
  <2>2. l.forma = Nada /\ l.n = 0 /\ LocalBien(l)
    BY <2>1, SinPagina, CuentaDe DEF Alta
  <2>3. CASE TocarMetadatos(p)
    <3>1. PICK g : Ir(p, "obtener", [l EXCEPT !.pag = g, !.luego = "metadatos"])
      BY <2>3 DEF TocarMetadatos
    <3> DEFINE d == [l EXCEPT !.pag = g, !.luego = "metadatos"]
    <3>2. d.nuevas = <<>> /\ d.forma = Nada /\ d.n = 0 /\ Ir(p, "obtener", d)
      BY <1>1, <2>2, <3>1 DEF LocalBien, LocalVacio
    <3> HIDE DEF d
    <3>3. QED
      BY <1>3, <3>2
  <2>4. CASE EmpezarASoltar(p)
    <3>1. PICK k : Ir(p, "soltar", [l EXCEPT !.i = k])
      BY <2>4 DEF EmpezarASoltar
    <3> DEFINE d == [l EXCEPT !.i = k]
    <3>2. d.nuevas = <<>> /\ d.forma = Nada /\ d.n = 0 /\ Ir(p, "soltar", d)
      BY <1>1, <2>2, <3>1 DEF LocalBien, LocalVacio
    <3> HIDE DEF d
    <3>3. QED
      BY <1>3, <3>2
  <2>5. QED
    BY <1>7, <2>3, <2>4
<1>8. QED
  BY <1>4, <1>5, <1>6, <1>7 DEF SinPaginas

-----------------------------------------------------------------------------
(* The allocations.                                                          *)

LEMMA EmpezarAltaReserva ==
  ASSUME UnSoloPrograma, MarcosInv, BitsJustos, Cuenta, NEW p \in Programas, EmpezarAlta(p)
  PROVE  BitsJustos' /\ Cuenta'
<1> DEFINE l == loc[p]
<1>1. /\ pc[p] = "libre" /\ UNCHANGED <<bitMarco, ranuras, pagina, tabla>> /\ l.nuevas = <<>>
      /\ l.forma = Nada
  BY SinPagina DEF EmpezarAlta, Esta, bits
<1>2. PICK a \in Altas : /\ a.n <= lugar /\ lugar' = lugar - a.n
                          /\ \E s \in Destinos(p, a.forma) :
                               Ir(p, "crear", [LocalVacio EXCEPT !.forma = a.forma, !.n = a.n, !.seg = s])
  BY DEF EmpezarAlta
<1>3. PICK s : Ir(p, "crear", [LocalVacio EXCEPT !.forma = a.forma, !.n = a.n, !.seg = s])
  BY <1>2
<1>4. a.n \in Nat \ {0} /\ a.forma # Nada
  BY MuseSupuesto
<1> DEFINE d == [LocalVacio EXCEPT !.forma = a.forma, !.n = a.n, !.seg = s]
<1>5. Ir(p, "crear", d) /\ d.nuevas = <<>> /\ d.pag = Nada /\ d.forma = a.forma /\ d.n = a.n /\ d.i = 0
  BY <1>3 DEF LocalVacio
<1> HIDE DEF d
<1>6. pc'[p] = "crear" /\ loc'[p] = d /\ tabla'[p] = tabla[p]
  BY <1>1, <1>5, IrA
<1>7. EnUso(p)' = EnUso(p)
  BY <1>1, <1>5, <1>6, EnUsoCon
<1>8. Alta(p)'
  BY <1>4, <1>5, <1>6 DEF Alta
<1>9. Reservadas(p)' = a.n
  BY <1>4, <1>5, <1>6 DEF Reservadas
<1>10. lugar' \in Nat /\ Cardinality(EnUso(p)) + a.n <= Marcos + Ranuras - lugar'
  <2>1. /\ Cardinality(EnUso(p)) + Reservadas(p) <= Marcos + Ranuras - lugar /\ lugar \in Nat
        /\ Cardinality(EnUso(p)) \in Nat /\ Reservadas(p) \in Nat
    BY CuentaDe
  <2>2. Marcos \in Nat /\ Ranuras \in Nat
    BY MuseSupuesto
  <2>3. QED
    BY ONLY <1>2, <1>4, <2>1, <2>2
<1>11. Cuenta'
  BY <1>4, <1>6, <1>7, <1>8, <1>9, <1>10, CuentaDe, CuentaHecha
<1>12. BitsJustos'
  BY <1>1, <1>5, <1>7, MismosBits DEF Buscando, Desalojando, Vueltas
<1>13. QED
  BY <1>11, <1>12

LEMMA NuevaSinUsar ==
  ASSUME MarcosInv, NEW p \in Programas, SinUsar(p) # {}
  PROVE  PagNueva(p) \in IdPaginas /\ PagNueva(p) \notin EnUso(p)
<1>1. SinUsar(p) \in SUBSET Nat
  BY MuseSupuesto DEF SinUsar
<1>2. Min(SinUsar(p)) \in SinUsar(p)
  BY <1>1, MenorDeNaturales
<1>3. QED
  BY <1>2 DEF SinUsar, PagNueva, IdPaginas

LEMMA CrearReserva ==
  ASSUME UnSoloPrograma, MarcosInv, BitsJustos, Cuenta, NEW p \in Programas, Crear(p)
  PROVE  BitsJustos' /\ Cuenta'
<1> DEFINE l == loc[p]
           g == PagNueva(p)
           d == [l EXCEPT !.pag = g, !.vuelta = "creada"]
<1>1. /\ pc[p] = "crear" /\ l.i < l.n /\ SinUsar(p) # {} /\ UNCHANGED <<bitMarco, ranuras, tabla, lugar>>
  BY DEF Crear, Esta, bits, cuentas
<1>2. l.n \in Nat /\ l.i \in Nat /\ l.n <= Marcos + 1 /\ l.forma # Nada
  BY <1>1 DEF MarcosInv, MarcosTipo, LocalBien, Manejador, DaDeAlta
<1>3. Ir(p, "bit_libre", d) /\ pagina' = pagina
  BY <1>1, <1>2, MuseSupuesto DEF Crear
<1>4. g \in IdPaginas /\ g \notin EnUso(p)
  BY <1>1, NuevaSinUsar
<1> HIDE DEF g
<1>5. d.pag = g /\ d.nuevas = l.nuevas /\ d.forma = l.forma /\ d.n = l.n /\ d.i = l.i
  BY DEF MarcosInv, MarcosTipo, LocalBien, LocalVacio
<1> HIDE DEF d
<1>6. pc'[p] = "bit_libre" /\ loc'[p] = d /\ tabla'[p] = tabla[p] /\ PaginasDe(p)' = PaginasDe(p)
  BY <1>1, <1>3, IrA DEF PaginasDe
<1>7. EnUso(p)' = EnUso(p)
  BY <1>5, <1>6, EnUsoCon
<1>8. Alta(p)'
  BY <1>1, <1>2, <1>4, <1>5, <1>6, <1>7, CuentaDe DEF Alta
<1>9. Reservadas(p)' = Reservadas(p)
  BY <1>2, <1>5, <1>6 DEF Reservadas
<1>10. Cuenta'
  BY <1>1, <1>6, <1>7, <1>8, <1>9, CuentaDe, CuentaHecha
<1>11. pagina[g].ranura = Nada
  BY <1>1, <1>4 DEF BitsJustos, Guardadas
<1>12. pc[p] \notin Vueltas \cup {"desalojar", "destruir"}
  BY <1>1 DEF Vueltas
<1>13. BitsJustos'
  BY <1>1, <1>3, <1>5, <1>7, <1>11, <1>12, MismosBits
<1>14. QED
  BY <1>10, <1>13

(* A page that was not in use is now. *)
LEMMA UnaMas ==
  ASSUME UnSoloPrograma, MarcosInv, Cuenta, NEW p \in Programas, NEW g, g \notin EnUso(p),
         EnUso(p)' = EnUso(p) \cup {g}
  PROVE  Cardinality(EnUso(p)') = Cardinality(EnUso(p)) + 1
  BY CuentaDe, FS_AddElement

LEMMA AgregarReserva ==
  ASSUME UnSoloPrograma, MarcosInv, BitsJustos, Cuenta, NEW p \in Programas, Agregar(p)
  PROVE  BitsJustos' /\ Cuenta'
<1> DEFINE l == loc[p]
           ns == IF l.forma = "segmento" THEN Append(l.nuevas, l.pag) ELSE l.nuevas
           d == [l EXCEPT !.i = l.i + 1, !.pag = Nada, !.marco = Nada, !.vuelta = "libre",
                          !.luego = "libre", !.nuevas = ns]
           ps == tabla[p][l.seg].paginas
           nuevo == [mmapeado |-> tabla[p][l.seg].mmapeado, paginas |-> Append(ps, l.pag)]
           segs   == IF l.forma = "segmento" THEN tabla[p] ELSE [tabla[p] EXCEPT ![l.seg] = nuevo]
<1>1. /\ pc[p] = "agregar" /\ UNCHANGED <<bitMarco, ranuras, pagina, lugar>>
      /\ l.pag \in IdPaginas /\ l.nuevas = <<>> /\ l.forma \in Formas /\ l.forma # Nada
      /\ l.forma # "segmento" => l.seg \in DOMAIN tabla[p]
      /\ tabla[p] \in Seq(Segmentos)
  BY MuseSupuesto DEF Agregar, Esta, bits, MarcosInv, MarcosTipo, LocalBien, Manejador, DaDeAlta, UsaPagina, Formas
<1>2. Ir(p, "crear", d) /\ tabla' = [tabla EXCEPT ![p] = segs]
  BY DEF Agregar, ConPaginas, MarcosInv, MarcosTipo
<1>3. l.i < l.n /\ l.pag \notin EnUso(p) /\ l.n \in Nat /\ l.i \in Nat
  BY <1>1, CuentaDe, MuseSupuesto DEF Alta
<1>4. /\ l.forma = "segmento" => ns = <<l.pag>>
      /\ l.forma # "segmento" => ns = <<>>
  BY <1>1
<1>5. Range(<<l.pag>>) = {l.pag} /\ Range(<<>>) = {}
  BY DEF Range
<1>6. ASSUME l.forma # "segmento"
      PROVE  SinRepetidas(segs) /\ PaginasEn(segs) = PaginasEn(tabla[p]) \cup {l.pag}
  <2>1. tabla[p][l.seg] \in Segmentos /\ ps \in Seq(IdPaginas)
    BY <1>1, <1>6, SegmentoDeTabla DEF MarcosInv
  <2>2. SinRepetidas(tabla[p]) /\ SinRepetir(ps)
    BY <1>1, <1>6, CuentaDe DEF SinRepetidas
  <2>3. l.pag \notin PaginasEn(tabla[p])
    BY <1>3, EnUsoCon
  <2>4. Range(ps) \subseteq PaginasEn(tabla[p])
    <3>1. tabla[p][l.seg] \in Range(tabla[p])
      BY <1>1, <1>6 DEF Range
    <3>2. QED
      BY <3>1 DEF PaginasEn
  <2>5. /\ Append(ps, l.pag) \in Seq(IdPaginas) /\ Range(Append(ps, l.pag)) = Range(ps) \cup {l.pag}
        /\ SinRepetir(Append(ps, l.pag))
    <3> HIDE DEF ps
    <3>1. ps \in Seq(IdPaginas) /\ l.pag \notin Range(ps)
      BY <2>1, <2>3, <2>4
    <3>2. QED
      BY <1>1, <2>2, <3>1, AgregarALista, AgregarSinRepetir
  <2>6. nuevo \in Segmentos /\ nuevo.paginas = Append(ps, l.pag)
    BY <2>1, <2>5 DEF Segmentos
  <2>7. segs = [tabla[p] EXCEPT ![l.seg] = nuevo]
    BY <1>6
  <2>8. \A g \in Range(nuevo.paginas) : g \in Range(ps) \/ g \notin PaginasEn(tabla[p])
    BY <2>3, <2>5, <2>6
  <2> HIDE DEF nuevo, segs
  <2>9. /\ SinRepetidas(segs)
        /\ PaginasEn(segs) = (PaginasEn(tabla[p]) \ Range(ps)) \cup Range(nuevo.paginas)
    <3>1. /\ tabla[p] \in Seq(Segmentos) /\ l.seg \in DOMAIN tabla[p] /\ nuevo \in Segmentos
          /\ SinRepetidas(tabla[p]) /\ SinRepetir(nuevo.paginas)
          /\ \A g \in Range(nuevo.paginas) :
               g \in Range(tabla[p][l.seg].paginas) \/ g \notin PaginasEn(tabla[p])
      BY <1>1, <1>6, <2>2, <2>5, <2>6, <2>8
    <3>2. /\ SinRepetidas([tabla[p] EXCEPT ![l.seg] = nuevo])
          /\ PaginasEn([tabla[p] EXCEPT ![l.seg] = nuevo]) =
               (PaginasEn(tabla[p]) \ Range(tabla[p][l.seg].paginas)) \cup Range(nuevo.paginas)
      BY ONLY <3>1, SegmentoCambiadoAparte
    <3>3. QED
      BY <2>7, <3>2
  <2>10. QED
    BY <2>4, <2>5, <2>6, <2>9
<1>7. SinRepetidas(segs)
  <2>1. SinRepetidas(tabla[p])
    BY CuentaDe
  <2>2. CASE l.forma = "segmento"
    BY <2>1, <2>2
  <2>3. CASE l.forma # "segmento"
    BY <1>6, <2>3
  <2>4. QED
    BY <2>2, <2>3
<1>8. /\ d.pag = Nada /\ d.forma = l.forma /\ d.nuevas = ns /\ d.n = l.n /\ d.i = l.i + 1
  <2> HIDE DEF ns
  <2>1. QED
    BY DEF MarcosInv, MarcosTipo, LocalBien, LocalVacio
<1>9. l.forma = "segmento" => segs = tabla[p]
  OBVIOUS
<1> HIDE DEF d, ns, segs
<1>10. pc'[p] = "crear" /\ loc'[p] = d /\ tabla'[p] = segs
  BY <1>2, IrA DEF MarcosInv, MarcosTipo
<1>11. EnUso(p)' = EnUso(p) \cup {l.pag}
  <2>1. EnUso(p) = PaginasEn(tabla[p]) \cup Range(l.nuevas) /\ EnUso(p)' = PaginasEn(segs) \cup Range(ns)
    BY <1>8, <1>10, EnUsoCon
  <2>2. CASE l.forma = "segmento"
    <3>1. segs = tabla[p] /\ Range(ns) = {l.pag} /\ Range(l.nuevas) = {}
      BY <1>1, <1>4, <1>5, <1>9, <2>2
    <3>2. QED
      BY <2>1, <3>1
  <2>3. CASE l.forma # "segmento"
    BY <1>1, <1>4, <1>5, <1>6, <2>1, <2>3
  <2>4. QED
    BY <2>2, <2>3
<1>12. Cardinality(EnUso(p)') = Cardinality(EnUso(p)) + 1
  BY <1>3, <1>11, UnaMas
<1>13. Alta(p)'
  <2>1. ns # <<>> => ns = <<l.pag>> /\ l.pag \notin PaginasEn(segs)
    BY <1>3, <1>4, <1>9, EnUsoCon
  <2>2. PaginasDe(p)' = PaginasEn(segs)
    BY <1>10, PaginasDeTabla
  <2>3. d.i <= d.n
    BY <1>3, <1>8
  <2>4. QED
    BY <1>1, <1>8, <1>10, <2>1, <2>2, <2>3 DEF Alta
<1>14. Reservadas(p)' = l.n - (l.i + 1) /\ Reservadas(p) = l.n - l.i
  BY <1>1, <1>8, <1>10 DEF Reservadas
<1>15. /\ Reservadas(p)' \in Nat /\ Cardinality(EnUso(p)') \in Nat
       /\ Cardinality(EnUso(p)') + Reservadas(p)' <= Marcos + Ranuras - lugar'
  <2>1. /\ Cardinality(EnUso(p)) + Reservadas(p) <= Marcos + Ranuras - lugar /\ lugar \in Nat
        /\ Cardinality(EnUso(p)) \in Nat /\ lugar' = lugar
    BY <1>1, CuentaDe
  <2>2. Marcos \in Nat /\ Ranuras \in Nat
    BY MuseSupuesto
  <2>3. QED
    BY ONLY <1>3, <1>12, <1>14, <2>1, <2>2
<1>16. Cuenta'
  BY <1>1, <1>7, <1>10, <1>13, <1>15, CuentaDe, CuentaHecha
<1>17. BitsJustos'
  BY <1>1, <1>2, <1>11, MismosBits DEF Buscando, Desalojando, Vueltas
<1>18. QED
  BY <1>16, <1>17

LEMMA AltaHechaReserva ==
  ASSUME UnSoloPrograma, MarcosInv, BitsJustos, Cuenta, NEW p \in Programas, AltaHecha(p)
  PROVE  BitsJustos' /\ Cuenta'
<1> DEFINE l == loc[p]
<1>1. /\ pc[p] = "crear" /\ l.i = l.n /\ UNCHANGED <<bitMarco, ranuras, pagina, lugar>>
      /\ l.nuevas \in Seq(IdPaginas) /\ (l.forma # "segmento" => l.nuevas = <<>>)
      /\ l.forma # Nada /\ tabla[p] \in Seq(Segmentos)
      /\ LocalVacio.nuevas = <<>> /\ LocalVacio.forma = Nada
  BY DEF AltaHecha, Esta, bits, MarcosInv, MarcosTipo, LocalBien, Manejador, DaDeAlta, LocalVacio
<1>2. ASSUME NEW punto \in {"libre", "metadatos"}, NEW d, Ir(p, punto, d), EnUso(p) \subseteq EnUso(p)'
      PROVE  BitsJustos'
  <2>1. punto \notin Buscando \cup Vueltas /\ pc[p] \notin Vueltas \cup {"desalojar", "destruir"}
    BY <1>1, <1>2 DEF Buscando, Desalojando, Vueltas
  <2>2. QED
    BY <1>1, <1>2, <2>1, MismosBits
<1>3. CASE l.forma = "segmento"
  <2> DEFINE s == [mmapeado |-> FALSE, paginas |-> l.nuevas]
             segs == Append(tabla[p], s)
  <2>1. tabla' = [tabla EXCEPT ![p] = segs] /\ Ir(p, "libre", LocalVacio)
    BY <1>3 DEF AltaHecha, Libre
  <2>2. s \in Segmentos /\ s.paginas = l.nuevas
    BY <1>1 DEF Segmentos
  <2>3. SinRepetir(l.nuevas) /\ Range(l.nuevas) \cap PaginasEn(tabla[p]) = {} /\ SinRepetidas(tabla[p])
    <3>1. l.nuevas # <<>> => \E g \in IdPaginas : l.nuevas = <<g>> /\ g \notin PaginasEn(tabla[p])
      BY CuentaDe, PaginasDeTabla DEF Alta
    <3>2. CASE l.nuevas = <<>>
      <4>1. SinRepetir(<<>>) /\ Range(<<>>) = {}
        BY DEF SinRepetir, Range
      <4>2. QED
        BY <3>2, <4>1, CuentaDe
    <3>3. CASE l.nuevas # <<>>
      <4>1. PICK g \in IdPaginas : l.nuevas = <<g>> /\ g \notin PaginasEn(tabla[p])
        BY <3>1, <3>3
      <4>2. SinRepetir(<<g>>) /\ Range(<<g>>) = {g}
        BY DEF SinRepetir, Range
      <4>3. QED
        BY <4>1, <4>2, CuentaDe
    <3>4. QED
      BY <3>2, <3>3
  <2> HIDE DEF s
  <2>4. SinRepetidas(segs) /\ PaginasEn(segs) = PaginasEn(tabla[p]) \cup Range(l.nuevas)
    BY <1>1, <2>2, <2>3, SegmentoAgregado, SegmentoAgregadoAparte
  <2> HIDE DEF segs
  <2>5. pc'[p] = "libre" /\ loc'[p] = LocalVacio /\ tabla'[p] = segs
    BY <2>1, IrA DEF MarcosInv, MarcosTipo
  <2>6. EnUso(p)' = EnUso(p)
    <3>1. Range(<<>>) = {}
      BY DEF Range
    <3>2. QED
      BY <1>1, <2>4, <2>5, <3>1, EnUsoCon
  <2>7. Alta(p)'
    BY <1>1, <2>5 DEF Alta
  <2>8. Reservadas(p)' = 0 /\ Reservadas(p) = 0
    BY <1>1, <2>5, CuentaDe DEF Reservadas
  <2>9. Cuenta'
    BY <1>1, <2>4, <2>5, <2>6, <2>7, <2>8, CuentaDe, CuentaHecha
  <2>10. QED
    BY <1>2, <2>1, <2>6, <2>9
<1>4. CASE l.forma # "segmento"
  <2> DEFINE d == [LocalVacio EXCEPT !.seg = l.seg]
  <2>1. UNCHANGED tabla /\ Ir(p, "metadatos", d)
    BY <1>4 DEF AltaHecha
  <2>2. d.nuevas = <<>> /\ d.forma = Nada /\ d.n = 0
    BY DEF LocalVacio
  <2> HIDE DEF d
  <2>3. Cuenta' /\ EnUso(p)' = EnUso(p)
    BY <1>1, <1>4, <2>1, <2>2, SinAlta
  <2>4. QED
    BY <1>2, <2>1, <2>3
<1>5. QED
  BY <1>3, <1>4

(* The requests that act at once on a program at rest. *)
LEMMA DeUnaVezCuenta ==
  ASSUME UnSoloPrograma, MarcosInv, Cuenta, NEW p \in Programas, pc[p] = "libre", UNCHANGED <<pc, loc>>,
         NEW segs, tabla' = [tabla EXCEPT ![p] = segs], SinRepetidas(segs), lugar' \in Nat,
         Cardinality(PaginasEn(segs)) \in Nat,
         Cardinality(EnUso(p)) \in Nat /\ Reservadas(p) = 0 /\ EnUso(p) = PaginasEn(tabla[p])
           => Cardinality(PaginasEn(segs)) <= Marcos + Ranuras - lugar'
  PROVE  Cuenta' /\ EnUso(p)' = PaginasEn(segs) /\ EnUso(p) = PaginasEn(tabla[p])
<1>1. /\ pc'[p] = "libre" /\ loc'[p] = loc[p] /\ loc[p].nuevas = <<>> /\ loc[p].forma = Nada
      /\ tabla'[p] = segs /\ Range(<<>>) = {}
  BY SinPagina DEF MarcosInv, MarcosTipo, Range
<1>2. EnUso(p)' = PaginasEn(segs) /\ EnUso(p) = PaginasEn(tabla[p])
  BY <1>1, EnUsoCon
<1>3. Reservadas(p)' = 0 /\ Reservadas(p) = 0
  BY <1>1 DEF Reservadas
<1>4. Alta(p)'
  BY <1>1 DEF Alta
<1>5. /\ Cardinality(PaginasEn(segs)) <= Marcos + Ranuras - lugar'
      /\ Cardinality(PaginasEn(segs)) + 0 = Cardinality(PaginasEn(segs))
  BY <1>2, <1>3, CuentaDe
<1>6. QED
  BY <1>1, <1>2, <1>3, <1>4, <1>5, CuentaHecha

LEMMA MapearReserva ==
  ASSUME UnSoloPrograma, MarcosInv, BitsJustos, Cuenta, NEW p \in Programas, Mapear(p)
  PROVE  BitsJustos' /\ Cuenta'
<1> DEFINE g == PagNueva(p)
           s == [mmapeado |-> TRUE, paginas |-> <<g>>]
           segs == Append(tabla[p], s)
<1>1. /\ pc[p] = "libre" /\ SinUsar(p) # {} /\ UNCHANGED <<bitMarco, ranuras, pc, loc>>
      /\ pagina' = [pagina EXCEPT ![g] = PaginaVacia] /\ tabla' = [tabla EXCEPT ![p] = segs]
      /\ lugar > 0 /\ lugar' = lugar - 1
  BY DEF Mapear, Esta, bits
<1>2. g \in IdPaginas /\ g \notin EnUso(p) /\ ~Presente(g) /\ tabla[p] \in Seq(Segmentos)
  BY <1>1, NuevaSinUsar, PaginaNueva, SinPagina
<1> HIDE DEF g
<1>3. s \in Segmentos /\ SinRepetir(s.paginas) /\ Range(s.paginas) = {g}
  BY <1>2 DEF Segmentos, SinRepetir, Range
<1> HIDE DEF s
<1>4. SinRepetidas(segs) /\ PaginasEn(segs) = PaginasEn(tabla[p]) \cup {g}
  <2>1. SinRepetidas(tabla[p]) /\ g \notin PaginasEn(tabla[p])
    BY <1>2, CuentaDe, EnUsoCon
  <2>2. QED
    BY <1>2, <1>3, <2>1, SegmentoAgregado, SegmentoAgregadoAparte
<1> HIDE DEF segs
<1>5. EnUso(p) = PaginasEn(tabla[p])
  <2>1. loc[p].nuevas = <<>> /\ Range(<<>>) = {}
    BY <1>1, SinPagina DEF Range
  <2>2. QED
    BY <2>1, EnUsoCon
<1>6. Cardinality(PaginasEn(segs)) = Cardinality(EnUso(p)) + 1
  <2>1. IsFiniteSet(EnUso(p)) /\ g \notin EnUso(p) /\ PaginasEn(segs) = EnUso(p) \cup {g}
    BY <1>2, <1>4, <1>5, CuentaDe
  <2>2. QED
    BY ONLY <2>1, FS_AddElement
<1>7. /\ lugar' \in Nat /\ Cardinality(PaginasEn(segs)) \in Nat
      /\ Cardinality(PaginasEn(segs)) <= Marcos + Ranuras - lugar'
  <2>1. /\ Cardinality(EnUso(p)) + Reservadas(p) <= Marcos + Ranuras - lugar /\ lugar \in Nat
        /\ Cardinality(EnUso(p)) \in Nat /\ Reservadas(p) \in Nat
    BY CuentaDe
  <2>2. Marcos \in Nat /\ Ranuras \in Nat
    BY MuseSupuesto
  <2>3. QED
    BY ONLY <1>1, <1>6, <2>1, <2>2
<1>8. Cuenta' /\ EnUso(p)' = PaginasEn(segs)
  BY <1>1, <1>4, <1>7, DeUnaVezCuenta
<1>9. pagina' = pagina
  <2>1. pagina[g].ranura = Nada
    BY <1>1, <1>2 DEF BitsJustos, Guardadas
  <2>2. pagina[g].marco = Nada /\ pagina[g].presencia = FALSE
    BY <1>2 DEF MarcosInv, MarcosTipo, EnSuLugar, Presente
  <2>3. pagina[g] = PaginaVacia
    BY <1>2, <2>1, <2>2 DEF MarcosInv, MarcosTipo, PaginaVacia
  <2>4. QED
    BY <1>1, <1>2, <2>3 DEF MarcosInv, MarcosTipo
<1>10. BitsJustos'
  <2>1. EnUso(p) \subseteq EnUso(p)' /\ \A q \in Programas : q = p
    BY <1>4, <1>5, <1>8 DEF UnSoloPrograma
  <2>2. Ocupados' /\ Marcadas'
    BY <1>1, <1>9 DEF BitsJustos, Ocupados, Marcadas, Presente
  <2>3. Guardadas'
    BY <1>1, <1>9, <2>1 DEF BitsJustos, Guardadas
  <2>4. QED
    BY <2>2, <2>3 DEF BitsJustos
<1>11. QED
  BY <1>8, <1>10

(* A page taken from a list is to be given back. *)
LEMMA QuitarDeLaListaReserva ==
  ASSUME UnSoloPrograma, MarcosInv, BitsJustos, Cuenta, NEW p \in Programas, QuitarDeLaLista(p)
  PROVE  BitsJustos' /\ Cuenta'
<1> DEFINE l == loc[p]
           ps == tabla[p][l.seg].paginas
           g == ps[l.i]
           d == [l EXCEPT !.pag = g, !.n = l.n + 1]
           nuevo == [mmapeado |-> tabla[p][l.seg].mmapeado, paginas |-> RemoveAt(ps, l.i)]
           segs == [tabla[p] EXCEPT ![l.seg] = nuevo]
<1>1. /\ pc[p] = "soltar" /\ l.i \in DOMAIN ps /\ UNCHANGED <<bitMarco, ranuras, pagina, lugar>>
      /\ l.forma = Nada /\ l.nuevas = <<>> /\ l.seg \in DOMAIN tabla[p] /\ tabla[p] \in Seq(Segmentos)
  BY SinPagina DEF QuitarDeLaLista, Esta, bits, MarcosInv, MarcosTipo
<1>2. Ir(p, "destruir", d) /\ tabla' = [tabla EXCEPT ![p] = segs]
  BY DEF QuitarDeLaLista, ConPaginas, MarcosInv, MarcosTipo
<1>3. tabla[p][l.seg] \in Segmentos /\ ps \in Seq(IdPaginas)
  BY <1>1, SegmentoDeTabla DEF MarcosInv
<1>4. SinRepetidas(tabla[p]) /\ SinRepetir(ps)
  BY <1>1, CuentaDe DEF SinRepetidas
<1>5. Range(ps) \subseteq PaginasEn(tabla[p])
  <2>1. tabla[p][l.seg] \in Range(tabla[p])
    BY <1>1 DEF Range
  <2>2. QED
    BY <2>1 DEF PaginasEn
<1>6. g \in Range(ps)
  BY <1>1 DEF Range
<1>7. /\ RemoveAt(ps, l.i) \in Seq(IdPaginas) /\ SinRepetir(RemoveAt(ps, l.i))
      /\ Range(RemoveAt(ps, l.i)) = Range(ps) \ {g}
  <2> HIDE DEF ps
  <2>1. QED
    BY <1>1, <1>3, <1>4, PosicionesAlSacar, SacarDeListaSinRepetir
<1>8. nuevo \in Segmentos /\ nuevo.paginas = RemoveAt(ps, l.i)
  BY <1>3, <1>7 DEF Segmentos
<1>9. d.pag = g /\ d.n = l.n + 1 /\ d.forma = l.forma /\ d.nuevas = l.nuevas
  BY DEF MarcosInv, MarcosTipo, LocalBien, LocalVacio
<1> HIDE DEF nuevo, d
<1>10. SinRepetidas(segs) /\ PaginasEn(segs) = (PaginasEn(tabla[p]) \ Range(ps)) \cup Range(nuevo.paginas)
  <2>1. /\ tabla[p] \in Seq(Segmentos) /\ l.seg \in DOMAIN tabla[p] /\ nuevo \in Segmentos
        /\ SinRepetidas(tabla[p]) /\ SinRepetir(nuevo.paginas)
        /\ \A h \in Range(nuevo.paginas) :
             h \in Range(tabla[p][l.seg].paginas) \/ h \notin PaginasEn(tabla[p])
    BY <1>1, <1>4, <1>7, <1>8
  <2>2. /\ SinRepetidas([tabla[p] EXCEPT ![l.seg] = nuevo])
        /\ PaginasEn([tabla[p] EXCEPT ![l.seg] = nuevo]) =
             (PaginasEn(tabla[p]) \ Range(tabla[p][l.seg].paginas)) \cup Range(nuevo.paginas)
    BY ONLY <2>1, SegmentoCambiadoAparte
  <2>3. QED
    BY <2>2
<1> HIDE DEF segs
<1>11. PaginasEn(segs) = PaginasEn(tabla[p]) \ {g}
  <2> HIDE DEF ps, g
  <2>1. QED
    BY <1>5, <1>6, <1>7, <1>8, <1>10
<1>12. pc'[p] = "destruir" /\ loc'[p] = d /\ tabla'[p] = segs
  BY <1>2, IrA DEF MarcosInv, MarcosTipo
<1>13. EnUso(p) = PaginasEn(tabla[p]) /\ EnUso(p)' = PaginasEn(segs)
  <2>1. Range(<<>>) = {}
    BY DEF Range
  <2>2. QED
    BY <1>1, <1>9, <1>12, <2>1, EnUsoCon
<1> HIDE DEF g
<1>14. EnUso(p)' = EnUso(p) \ {g} /\ g \in EnUso(p)
  BY <1>5, <1>6, <1>11, <1>13
<1>15. Cardinality(EnUso(p)') = Cardinality(EnUso(p)) - 1
  <2>1. IsFiniteSet(EnUso(p)) /\ g \in EnUso(p) /\ EnUso(p)' = EnUso(p) \ {g}
    BY <1>14, CuentaDe
  <2>2. QED
    BY ONLY <2>1, FS_RemoveElement
<1>16. Reservadas(p) = l.n /\ Reservadas(p)' = l.n + 1
  BY <1>1, <1>9, <1>12 DEF Reservadas
<1>17. /\ Reservadas(p)' \in Nat /\ Cardinality(EnUso(p)') \in Nat
       /\ Cardinality(EnUso(p)') + Reservadas(p)' <= Marcos + Ranuras - lugar'
  <2>1. /\ Cardinality(EnUso(p)) + Reservadas(p) <= Marcos + Ranuras - lugar /\ lugar \in Nat
        /\ Cardinality(EnUso(p)) \in Nat /\ lugar' = lugar /\ l.n \in Nat
    BY <1>1, CuentaDe
  <2>2. Marcos \in Nat /\ Ranuras \in Nat
    BY MuseSupuesto
  <2>3. IsFiniteSet(EnUso(p)') /\ Cardinality(EnUso(p)') \in Nat
    <3>1. EnUso(p)' \subseteq EnUso(p) /\ IsFiniteSet(EnUso(p))
      BY <1>14, CuentaDe
    <3>2. QED
      BY <3>1, FS_Subset, FS_CardinalityType
  <2>4. QED
    BY ONLY <1>15, <1>16, <2>1, <2>2, <2>3
<1>18. Alta(p)'
  BY <1>1, <1>9, <1>12, <1>14 DEF Alta
<1>19. Cuenta'
  BY <1>1, <1>10, <1>12, <1>17, <1>18, CuentaDe, CuentaHecha
<1>20. BitsJustos'
  <2>1. \A q \in Programas : q = p
    BY DEF UnSoloPrograma
  <2>2. Ocupados'
    BY <1>1, <2>1 DEF BitsJustos, Ocupados, Presente, Vueltas
  <2>3. Marcadas'
    BY <1>1, <2>1 DEF BitsJustos, Marcadas
  <2>4. Guardadas'
    BY <1>1, <1>9, <1>12, <1>14, <2>1 DEF BitsJustos, Guardadas, Buscando, Desalojando, Vueltas
  <2>5. QED
    BY <2>2, <2>3, <2>4 DEF BitsJustos
<1>21. QED
  BY <1>19, <1>20

LEMMA DestruirPaginaReserva ==
  ASSUME UnSoloPrograma, MarcosInv, BitsJustos, Cuenta, NEW p \in Programas, DestruirPagina(p)
  PROVE  BitsJustos' /\ Cuenta'
<1> DEFINE l == loc[p]
           d == [l EXCEPT !.pag = Nada]
<1>1. /\ pc[p] = "destruir" /\ Destruir({l.pag}) /\ Ir(p, "soltar", d) /\ UNCHANGED <<tabla, lugar>>
      /\ l.forma = Nada /\ l.pag \in IdPaginas /\ l.nuevas = <<>>
  BY DEF DestruirPagina, Esta, cuentas, MarcosInv, Manejador, UsaPagina, DaDeAlta
<1>2. d.nuevas = l.nuevas /\ d.forma = Nada /\ d.n = l.n
  BY <1>1 DEF MarcosInv, MarcosTipo, LocalBien, LocalVacio
<1>3. Reservadas(p) = l.n /\ l.n \in Nat
  BY <1>1, CuentaDe DEF Reservadas
<1> HIDE DEF d
<1>4. Cuenta' /\ EnUso(p)' = EnUso(p)
  <2>1. d.n \in Nat /\ d.n <= Reservadas(p)
    BY <1>2, <1>3
  <2>2. QED
    BY <1>1, <1>2, <2>1, SinAlta
<1>5. pc'[p] = "soltar"
  BY <1>1, IrA
<1>6. BitsJustos'
  <2>1. /\ {l.pag} \in SUBSET IdPaginas /\ pc[p] \notin Vueltas \cup {"desalojar"}
        /\ pc'[p] \notin Buscando \cup Vueltas /\ EnUso(p) \subseteq EnUso(p)' \cup {l.pag}
    BY <1>1, <1>4, <1>5 DEF Vueltas, Buscando, Desalojando
  <2>2. QED
    BY <1>1, <2>1, DestruirBits
<1>7. QED
  BY <1>4, <1>6

LEMMA DevolverLugarReserva ==
  ASSUME UnSoloPrograma, MarcosInv, BitsJustos, Cuenta, NEW p \in Programas, DevolverLugar(p)
  PROVE  BitsJustos' /\ Cuenta'
<1> DEFINE l == loc[p]
           d == [LocalVacio EXCEPT !.seg = l.seg]
<1>1. /\ pc[p] = "soltar" /\ Ir(p, "metadatos", d) /\ UNCHANGED <<bitMarco, ranuras, pagina, tabla>>
      /\ lugar' = lugar + l.n /\ l.forma = Nada /\ l.nuevas = <<>>
  BY SinPagina DEF DevolverLugar, Esta, bits
<1>2. d.nuevas = <<>> /\ d.forma = Nada /\ d.n = 0
  BY DEF LocalVacio
<1> HIDE DEF d
<1>3. pc'[p] = "metadatos" /\ loc'[p] = d /\ tabla'[p] = tabla[p]
  BY <1>1, IrA
<1>4. EnUso(p)' = EnUso(p)
  BY <1>1, <1>2, <1>3, EnUsoCon
<1>5. Reservadas(p) = l.n /\ Reservadas(p)' = 0
  BY <1>1, <1>2, <1>3 DEF Reservadas
<1>6. Alta(p)'
  BY <1>2, <1>3 DEF Alta
<1>7. /\ lugar' \in Nat /\ Reservadas(p)' \in Nat /\ Cardinality(EnUso(p)') \in Nat
      /\ Cardinality(EnUso(p)') + Reservadas(p)' <= Marcos + Ranuras - lugar'
  <2>1. /\ Cardinality(EnUso(p)) + Reservadas(p) <= Marcos + Ranuras - lugar /\ lugar \in Nat
        /\ Cardinality(EnUso(p)) \in Nat /\ l.n \in Nat /\ lugar' = lugar + l.n
    BY <1>1, CuentaDe
  <2>2. Marcos \in Nat /\ Ranuras \in Nat
    BY MuseSupuesto
  <2>3. QED
    BY ONLY <1>4, <1>5, <2>1, <2>2
<1>8. Cuenta'
  BY <1>3, <1>6, <1>7, CuentaDe, CuentaHecha
<1>9. BitsJustos'
  <2>1. pc[p] \notin Vueltas \cup {"desalojar", "destruir"} /\ "metadatos" \notin Buscando \cup Vueltas
    BY <1>1 DEF Vueltas, Buscando, Desalojando
  <2>2. QED
    BY <1>1, <1>4, <2>1, MismosBits
<1>10. QED
  BY <1>8, <1>9

LEMMA DesmapearReserva ==
  ASSUME UnSoloPrograma, MarcosInv, BitsJustos, Cuenta, NEW p \in Programas, Desmapear(p) \/ Cerrar(p)
  PROVE  BitsJustos' /\ Cuenta'
<1>1. /\ pc[p] = "libre" /\ UNCHANGED <<lugar, pc, loc>> /\ tabla[p] \in Seq(Segmentos)
      /\ SinRepetidas(tabla[p])
  BY CuentaDe DEF Desmapear, Cerrar, Esta, MarcosInv, MarcosTipo
<1>2. EnUso(p) = PaginasEn(tabla[p])
  <2>1. loc[p].nuevas = <<>> /\ Range(<<>>) = {}
    BY <1>1, SinPagina DEF Range
  <2>2. QED
    BY <2>1, EnUsoCon
<1>3. ASSUME NEW segs, NEW gs \in SUBSET IdPaginas, tabla' = [tabla EXCEPT ![p] = segs], Destruir(gs),
             SinRepetidas(segs), PaginasEn(segs) \subseteq PaginasEn(tabla[p]),
             PaginasEn(tabla[p]) \subseteq PaginasEn(segs) \cup gs
      PROVE  BitsJustos' /\ Cuenta'
  <2>1. /\ Cardinality(PaginasEn(segs)) \in Nat
        /\ Cardinality(PaginasEn(segs)) <= Cardinality(EnUso(p))
    <3>1. PaginasEn(segs) \subseteq EnUso(p) /\ IsFiniteSet(EnUso(p))
      BY <1>2, <1>3, CuentaDe
    <3>2. QED
      BY ONLY <3>1, FS_Subset, FS_CardinalityType
  <2>2. /\ Cardinality(PaginasEn(segs)) <= Marcos + Ranuras - lugar' /\ lugar' \in Nat
    <3>1. /\ Cardinality(EnUso(p)) + Reservadas(p) <= Marcos + Ranuras - lugar /\ lugar \in Nat
          /\ Cardinality(EnUso(p)) \in Nat /\ Reservadas(p) \in Nat /\ lugar' = lugar
      BY <1>1, CuentaDe
    <3>2. Marcos \in Nat /\ Ranuras \in Nat
      BY MuseSupuesto
    <3>3. QED
      BY ONLY <2>1, <3>1, <3>2
  <2>3. Cuenta' /\ EnUso(p)' = PaginasEn(segs)
    BY <1>1, <1>3, <2>1, <2>2, DeUnaVezCuenta
  <2>4. BitsJustos'
    <3>1. /\ pc[p] \notin Vueltas \cup {"desalojar"} /\ pc[p] # "destruir"
          /\ pc'[p] \notin Buscando \cup Vueltas /\ EnUso(p) \subseteq EnUso(p)' \cup gs
      BY <1>1, <1>2, <1>3, <2>3 DEF Vueltas, Buscando, Desalojando
    <3>2. QED
      BY <1>3, <3>1, DestruirBits
  <2>5. QED
    BY <2>3, <2>4
<1>4. CASE Desmapear(p)
  <2>1. PICK s \in DOMAIN tabla[p] :
          tabla' = [tabla EXCEPT ![p] = RemoveAt(tabla[p], s)] /\ Destruir(Range(tabla[p][s].paginas))
    BY <1>4 DEF Desmapear
  <2>2. /\ SinRepetidas(RemoveAt(tabla[p], s)) /\ PaginasEn(RemoveAt(tabla[p], s)) \subseteq PaginasEn(tabla[p])
        /\ PaginasEn(tabla[p]) \subseteq PaginasEn(RemoveAt(tabla[p], s)) \cup Range(tabla[p][s].paginas)
    BY <1>1, SegmentoSacado, SegmentoSacadoAparte
  <2>3. Range(tabla[p][s].paginas) \in SUBSET IdPaginas
    <3>1. tabla[p][s].paginas \in Seq(IdPaginas)
      BY SegmentoDeTabla DEF MarcosInv
    <3>2. QED
      BY <3>1, ElementOfSeq DEF Range
  <2>4. QED
    BY <1>3, <2>1, <2>2, <2>3
<1>5. CASE Cerrar(p)
  <2>1. tabla' = [tabla EXCEPT ![p] = <<>>] /\ Destruir(PaginasDe(p)) /\ PaginasDe(p) = PaginasEn(tabla[p])
    BY <1>5, PaginasDeTabla DEF Cerrar
  <2>2. SinRepetidas(<<>>) /\ PaginasEn(<<>>) = {}
    BY DEF SinRepetidas, PaginasEn, Range
  <2>3. PaginasDe(p) \in SUBSET IdPaginas
    BY Listadas DEF MarcosInv
  <2>4. QED
    BY <1>3, <2>1, <2>2, <2>3
<1>6. QED
  BY <1>4, <1>5

-----------------------------------------------------------------------------
(* What is moved. *)
LEMMA TraenDe ==
  ASSUME UnSoloPrograma, NEW p \in Programas, upcm' \in [IdMarcos -> Contenidos],
         swap' \in [IdRanuras -> Contenidos], leido' \in [Programas -> ONada(Contenidos)], Trae(p)'
  PROVE  Traen'
<1>1. \A q \in Programas : q = p
  BY DEF UnSoloPrograma
<1>2. QED
  BY <1>1 DEF Traen

(* A step that moves nothing. *)
LEMMA TraenSinCopiar ==
  ASSUME UnSoloPrograma, MarcosInv, Traen, NEW p \in Programas, NEW punto, NEW d, Ir(p, punto, d),
         UNCHANGED <<upcm, swap>>, leido' \in [Programas -> ONada(Contenidos)],
         d.valor \in ONada(Valores), d.traido \in ONada(Contenidos),
         d.traido # Nada <=> punto \in Buscando \cup Vueltas /\ d.vuelta # "creada",
         punto \notin {"copiar_a_swap", "desalojar", "pegar", "pegar_mapeo", "copiar"}
  PROVE  Traen'
<1>1. pc'[p] = punto /\ loc'[p] = d
  BY IrA
<1>2. Trae(p)'
  BY <1>1 DEF Trae, EnViaje
<1>3. QED
  BY <1>2, TraenDe DEF Traen

LEMMA CamposDe ==
  ASSUME MarcosInv, NEW p \in Programas
  PROVE  /\ \A x : LET d == [loc[p] EXCEPT !.marco = x] IN
              /\ d.marco = x /\ d.valor = loc[p].valor /\ d.traido = loc[p].traido
              /\ d.vuelta = loc[p].vuelta /\ d.pag = loc[p].pag
         /\ \A x : LET d == [loc[p] EXCEPT !.traido = x] IN
              d.traido = x /\ d.valor = loc[p].valor /\ d.marco = loc[p].marco /\ d.pag = loc[p].pag
  BY DEF MarcosInv, MarcosTipo, LocalBien, LocalVacio

LEMMA BusquedaTrae ==
  ASSUME UnSoloPrograma, MarcosInv, Traen, NEW p \in Programas, AsignarMarco(p)
  PROVE  Traen'
<1> DEFINE l == loc[p]
<1>1. pc[p] \in Buscando /\ ~caido /\ leido' = leido
  BY DEF AsignarMarco, BitLibre, SinBitLibre, Buscar, NoHallado, BuscarPagina, ElegirRanura, CopiarASwap,
         Desalojar, Esta, Buscando, Desalojando, cuentas
<1>2. /\ l.vuelta \in Vueltas /\ l.valor \in ONada(Valores) /\ l.traido \in ONada(Contenidos)
      /\ l.traido # Nada <=> l.vuelta # "creada"
  <2>1. pc[p] \notin {"pegar", "pegar_mapeo"}
    BY <1>1 DEF Buscando, Desalojando
  <2>2. QED
    BY <1>1, <2>1 DEF MarcosInv, Manejador, PideMarco, Traen, Trae, EnViaje
<1>3. ASSUME NEW punto, NEW d, Ir(p, punto, d), UNCHANGED <<upcm, swap>>,
             punto \in {"clock", "buscar_pagina", "a_swap", l.vuelta},
             d.valor = l.valor, d.traido = l.traido, d.vuelta = l.vuelta
      PROVE  Traen'
  <2>1. /\ punto \in Buscando \cup Vueltas
        /\ punto \notin {"copiar_a_swap", "desalojar", "pegar", "pegar_mapeo", "copiar"}
    BY <1>2, <1>3 DEF Buscando, Desalojando, Vueltas
  <2>2. leido' \in [Programas -> ONada(Contenidos)]
    BY <1>1 DEF Traen
  <2>3. QED
    BY <1>2, <1>3, <2>1, <2>2, TraenSinCopiar
<1>4. CASE BitLibre(p)
  <2> DEFINE d == [l EXCEPT !.marco = Min(MarcosLibres)]
  <2>1. d.valor = l.valor /\ d.traido = l.traido /\ d.vuelta = l.vuelta
    BY CamposDe
  <2> HIDE DEF d
  <2>2. Ir(p, l.vuelta, d) /\ UNCHANGED <<upcm, swap>>
    BY <1>4 DEF BitLibre, disco, d
  <2>3. QED
    BY <1>3, <2>1, <2>2
<1>5. CASE SinBitLibre(p)
  <2> DEFINE d == [l EXCEPT !.busca = 1]
  <2>1. d.valor = l.valor /\ d.traido = l.traido /\ d.vuelta = l.vuelta
    BY DEF MarcosInv, MarcosTipo, LocalBien, LocalVacio
  <2>2. Ir(p, "clock", d) /\ UNCHANGED <<upcm, swap>>
    BY <1>5 DEF SinBitLibre, disco
  <2> HIDE DEF d
  <2>3. QED
    BY <1>3, <2>1, <2>2
<1>6. CASE Buscar(p)
  <2> DEFINE d == [l EXCEPT !.marco = Vuelta(Min(Hallados(l.busca))), !.busca = 0]
  <2>1. Ir(p, "buscar_pagina", d) /\ UNCHANGED <<upcm, swap>>
    BY <1>6 DEF Buscar, disco
  <2>2. d.valor = l.valor /\ d.traido = l.traido /\ d.vuelta = l.vuelta
    BY DEF MarcosInv, MarcosTipo, LocalBien, LocalVacio
  <2> HIDE DEF d
  <2>3. QED
    BY <1>3, <2>1, <2>2
<1>7. CASE NoHallado(p)
  <2> DEFINE d == [l EXCEPT !.busca = @ + 1]
  <2>1. Ir(p, "clock", d) /\ UNCHANGED <<upcm, swap>>
    BY <1>7 DEF NoHallado, disco
  <2>2. d.valor = l.valor /\ d.traido = l.traido /\ d.vuelta = l.vuelta
    BY DEF MarcosInv, MarcosTipo, LocalBien, LocalVacio
  <2> HIDE DEF d
  <2>3. QED
    BY <1>3, <2>1, <2>2
<1>8. CASE BuscarPagina(p)
  <2>1. UNCHANGED <<upcm, swap>>
    BY <1>8 DEF BuscarPagina, disco
  <2>2. CASE Ocupantes(l.marco) = {}
    <3>1. Ir(p, l.vuelta, l)
      BY <1>8, <2>2 DEF BuscarPagina
    <3>2. QED
      BY <1>3, <2>1, <3>1
  <2>3. CASE Ocupantes(l.marco) # {}
    <3>1. PICK g \in Ocupantes(l.marco) : Ir(p, "a_swap", [l EXCEPT !.victima = g])
      BY <1>8, <2>3 DEF BuscarPagina
    <3> DEFINE d == [l EXCEPT !.victima = g]
    <3>2. d.valor = l.valor /\ d.traido = l.traido /\ d.vuelta = l.vuelta
      BY DEF MarcosInv, MarcosTipo, LocalBien, LocalVacio
    <3>3. Ir(p, "a_swap", d)
      BY <3>1
    <3> HIDE DEF d
    <3>4. QED
      BY <1>3, <2>1, <3>2, <3>3
  <2>4. QED
    BY <2>2, <2>3
<1>9. CASE ElegirRanura(p)
  <2> DEFINE d == [l EXCEPT !.origen = pagina[l.victima].marco, !.ranura = RanuraLibre]
  <2>1. pc[p] = "a_swap" /\ Ir(p, "copiar_a_swap", d) /\ UNCHANGED <<upcm, swap>>
    BY <1>9 DEF ElegirRanura, Esta, disco
  <2>2. pagina[l.victima].marco = l.marco
    BY <2>1 DEF MarcosInv, Manejador, PideRanura, Desalojando
  <2>3. d.valor = l.valor /\ d.traido = l.traido /\ d.vuelta = l.vuelta /\ d.origen = l.marco /\ d.marco = l.marco
    BY <2>2 DEF MarcosInv, MarcosTipo, LocalBien, LocalVacio
  <2> HIDE DEF d
  <2>4. pc'[p] = "copiar_a_swap" /\ loc'[p] = d
    BY <2>1, IrA
  <2>5. Trae(p)'
    BY <1>2, <2>3, <2>4 DEF Trae, EnViaje, Buscando, Desalojando
  <2>6. QED
    BY <1>1, <2>1, <2>5, TraenDe DEF Traen
<1>10. CASE CopiarASwap(p)
  <2> DEFINE d == [l EXCEPT !.origen = Nada]
  <2>1. pc[p] = "copiar_a_swap" /\ Ir(p, "desalojar", d) /\ upcm' = upcm /\ swap' = [swap EXCEPT ![l.ranura] = upcm[l.origen]]
    BY <1>10 DEF CopiarASwap, Esta
  <2>2. l.ranura \in IdRanuras /\ l.marco \in IdMarcos /\ l.origen = l.marco
    BY <1>1, <2>1 DEF MarcosInv, Manejador, PideRanura, PideMarco, Desalojando, Traen, Trae
  <2>3. d.valor = l.valor /\ d.traido = l.traido /\ d.vuelta = l.vuelta /\ d.ranura = l.ranura /\ d.marco = l.marco
    BY DEF MarcosInv, MarcosTipo, LocalBien, LocalVacio
  <2> HIDE DEF d
  <2>4. pc'[p] = "desalojar" /\ loc'[p] = d
    BY <2>1, IrA
  <2>5. swap' \in [IdRanuras -> Contenidos] /\ swap'[l.ranura] = upcm[l.marco]
    BY <2>1, <2>2 DEF Traen
  <2>6. Trae(p)'
    BY <1>2, <2>1, <2>3, <2>4, <2>5 DEF Trae, EnViaje, Buscando, Desalojando
  <2>7. QED
    BY <1>1, <2>1, <2>5, <2>6, TraenDe DEF Traen
<1>11. CASE Desalojar(p)
  <2> DEFINE d == [l EXCEPT !.victima = Nada, !.ranura = Nada]
  <2>1. Ir(p, l.vuelta, d) /\ UNCHANGED <<upcm, swap>>
    BY <1>11 DEF Desalojar, disco
  <2>2. d.valor = l.valor /\ d.traido = l.traido /\ d.vuelta = l.vuelta
    BY DEF MarcosInv, MarcosTipo, LocalBien, LocalVacio
  <2> HIDE DEF d
  <2>3. QED
    BY <1>3, <2>1, <2>2
<1>12. QED
  BY <1>4, <1>5, <1>6, <1>7, <1>8, <1>9, <1>10, <1>11 DEF AsignarMarco

(* A page is brought from the swap or from its file. *)
LEMMA TraerTrae ==
  ASSUME UnSoloPrograma, MarcosInv, Traen, NEW p \in Programas,
         \/ TraerDeSwap(p) \/ CargarMapeo(p) \/ Traida(p) \/ Cargada(p)
         \/ Pegar(p, "pegar", "usar") \/ Pegar(p, "pegar_mapeo", "obtener")
  PROVE  Traen'
<1> DEFINE l == loc[p]
<1>1. leido' \in [Programas -> ONada(Contenidos)]
  BY DEF Traen, TraerDeSwap, CargarMapeo, Traida, Cargada, Pegar, cuentas
<1>2. l.valor \in ONada(Valores) /\ l.traido \in ONada(Contenidos) /\ (l.traido # Nada <=> EnViaje(p))
  BY DEF Traen, Trae
<1>3. CASE TraerDeSwap(p)
  <2> DEFINE r == pagina[l.pag].ranura
             d == [l EXCEPT !.traido = swap[r], !.vuelta = "traida"]
  <2>1. pc[p] = "obtener" /\ r # Nada /\ Ir(p, "bit_libre", d) /\ UNCHANGED <<upcm, swap>>
    BY <1>3 DEF TraerDeSwap, Esta, disco
  <2>2. r \in IdRanuras
    <3>1. l.pag \in IdPaginas
      BY <2>1 DEF MarcosInv, Manejador, UsaPagina
    <3>2. QED
      BY <2>1, <3>1 DEF MarcosInv, MarcosTipo, ONada
  <2>3. swap[r] \in Contenidos /\ swap[r] # Nada
    BY <2>2, MuseSupuesto DEF Traen
  <2>4. d.valor = l.valor /\ d.traido = swap[r] /\ d.vuelta = "traida"
    BY DEF MarcosInv, MarcosTipo, LocalBien, LocalVacio
  <2> HIDE DEF d
  <2>5. QED
    BY <1>1, <1>2, <2>1, <2>3, <2>4, TraenSinCopiar DEF Buscando, ONada
<1>4. CASE CargarMapeo(p)
  <2> DEFINE d == [l EXCEPT !.traido = Archivo, !.vuelta = "cargada"]
  <2>1. Ir(p, "bit_libre", d) /\ UNCHANGED <<upcm, swap>>
    BY <1>4 DEF CargarMapeo, disco
  <2>2. d.valor = l.valor /\ d.traido = Archivo /\ d.vuelta = "cargada"
    BY DEF MarcosInv, MarcosTipo, LocalBien, LocalVacio
  <2>3. Archivo \in Contenidos /\ Archivo # Nada
    BY MuseSupuesto DEF Contenidos
  <2> HIDE DEF d
  <2>4. QED
    BY <1>1, <1>2, <2>1, <2>2, <2>3, TraenSinCopiar DEF Buscando, ONada
<1>5. ASSUME NEW punto \in {"pegar", "pegar_mapeo"}, pc[p] \in {"traida", "cargada"}, Ir(p, punto, l),
             UNCHANGED <<upcm, swap>>, pagina'[l.pag].presencia = TRUE, pagina'[l.pag].marco = l.marco
      PROVE  Traen'
  <2>1. pc'[p] = punto /\ loc'[p] = l
    BY <1>5, IrA
  <2>2. l.traido # Nada
    BY <1>2, <1>5 DEF EnViaje, Vueltas, MarcosInv, Manejador, PideMarco
  <2>3. Trae(p)'
    BY <1>2, <1>5, <2>1, <2>2 DEF Trae, EnViaje, Presente
  <2>4. QED
    BY <1>1, <1>5, <2>3, TraenDe DEF Traen
<1>6. CASE Traida(p) \/ Cargada(p)
  <2>1. pc[p] \in {"traida", "cargada"}
    BY <1>6 DEF Traida, Cargada, Esta
  <2>2. l.pag \in IdPaginas
    BY <2>1 DEF MarcosInv, Manejador, PideMarco, Vueltas
  <2>3. /\ UNCHANGED <<upcm, swap>> /\ \E punto \in {"pegar", "pegar_mapeo"} : Ir(p, punto, l)
        /\ \E x : pagina' = [pagina EXCEPT ![l.pag] = [presencia |-> TRUE, marco |-> l.marco, ranura |-> x]]
    BY <1>6 DEF Traida, Cargada, disco
  <2>4. pagina'[l.pag].presencia = TRUE /\ pagina'[l.pag].marco = l.marco
    BY <2>2, <2>3 DEF MarcosInv, MarcosTipo
  <2>5. QED
    BY <1>5, <2>1, <2>3, <2>4
<1>7. CASE Pegar(p, "pegar", "usar") \/ Pegar(p, "pegar_mapeo", "obtener")
  <2> DEFINE d == [l EXCEPT !.traido = Nada]
  <2>1. /\ pc[p] \in {"pegar", "pegar_mapeo"} /\ \E punto \in {"usar", "obtener"} : Ir(p, punto, d)
        /\ upcm' = [upcm EXCEPT ![l.marco] = l.traido] /\ swap' = swap
    BY <1>7 DEF Pegar, Esta
  <2>2. d.valor = l.valor /\ d.traido = Nada
    BY DEF MarcosInv, MarcosTipo, LocalBien, LocalVacio
  <2> HIDE DEF d
  <2>3. l.traido \in Contenidos
    BY <1>2, <2>1 DEF EnViaje, ONada
  <2>4. upcm' \in [IdMarcos -> Contenidos]
    BY <2>1, <2>3 DEF Traen
  <2>5. pc'[p] \in {"usar", "obtener"} /\ loc'[p] = d
    BY <2>1, IrA
  <2>6. Trae(p)'
    BY <1>2, <2>2, <2>5 DEF Trae, EnViaje, ONada, Buscando, Desalojando, Vueltas
  <2>7. QED
    BY <1>1, <2>1, <2>4, <2>6, TraenDe DEF Traen
<1>8. QED
  BY <1>3, <1>4, <1>6, <1>7

LEMMA UsarTrae ==
  ASSUME UnSoloPrograma, MarcosInv, Traen, NEW p \in Programas, Usar(p)
  PROVE  Traen'
<1> DEFINE l == loc[p]
           m == pagina[l.pag].marco
           d == IF l.luego = "metadatos" THEN [LocalVacio EXCEPT !.seg = l.seg]
                ELSE [l EXCEPT !.marco = m, !.vuelta = "libre"]
<1>1. pc[p] = "usar" /\ Ir(p, l.luego, d) /\ UNCHANGED <<upcm, swap, leido, pagina>>
  BY DEF Usar, Esta, disco, cuentas
<1>2. l.luego \in {"agregar", "metadatos", "copiar"} /\ Presente(l.pag)
  BY <1>1 DEF MarcosInv, Manejador, UsaPagina
<1>3. l.valor \in ONada(Valores) /\ l.traido = Nada
  BY <1>1 DEF Traen, Trae, EnViaje, Buscando, Desalojando, Vueltas
<1>4. /\ d.valor \in ONada(Valores) /\ d.traido = Nada
      /\ l.luego # "metadatos" => d.marco = m /\ d.pag = l.pag
  <2>1. CASE l.luego = "metadatos"
    BY <2>1 DEF LocalVacio, ONada
  <2>2. CASE l.luego # "metadatos"
    BY <1>3, <2>2 DEF MarcosInv, MarcosTipo, LocalBien, LocalVacio
  <2>3. QED
    BY <2>1, <2>2
<1> HIDE DEF d
<1>5. pc'[p] = l.luego /\ loc'[p] = d
  BY <1>1, IrA
<1>6. Trae(p)'
  BY <1>1, <1>2, <1>4, <1>5 DEF Trae, EnViaje, ONada, Buscando, Desalojando, Vueltas, Presente
<1>7. QED
  BY <1>1, <1>6, TraenDe DEF Traen

LEMMA CopiarTrae ==
  ASSUME UnSoloPrograma, MarcosInv, Traen, NEW p \in Programas, Leer(p) \/ Escribir(p)
  PROVE  Traen'
<1> DEFINE l == loc[p]
<1>1. pc[p] = "copiar" /\ Ir(p, "libre", LocalVacio) /\ swap' = swap
  BY DEF Leer, Escribir, Libre, Esta, disco
<1>2. l.marco \in IdMarcos
  BY <1>1 DEF Traen, Trae, MarcosInv, EnSuLugar, Manejador, UsaPagina
<1>3. /\ upcm' \in [IdMarcos -> Contenidos]
      /\ leido' \in [Programas -> ONada(Contenidos)]
  <2>1. CASE Leer(p)
    BY <1>2, <2>1 DEF Leer, disco, Traen, ONada
  <2>2. CASE Escribir(p)
    <3>1. l.valor \in Contenidos
      BY <2>2 DEF Escribir, Traen, Trae, ONada, Contenidos
    <3>2. QED
      BY <2>2, <3>1 DEF Escribir, cuentas, Traen
  <2>3. QED
    BY <2>1, <2>2
<1>4. Trae(p)'
  BY <1>1, IrA DEF Trae, EnViaje, LocalVacio, ONada, Buscando, Desalojando, Vueltas
<1>5. QED
  BY <1>1, <1>3, <1>4, TraenDe DEF Traen

(* The requests that neither bring nor copy a page. *)
LEMMA PedidoTrae ==
  ASSUME UnSoloPrograma, MarcosInv, Traen, NEW p \in Programas, Pedido(p) \/ EnMemoria(p)
  PROVE  Traen'
<1> DEFINE l == loc[p]
           Quietos == {"libre", "crear", "agregar", "obtener", "usar", "metadatos", "soltar", "destruir", "acceder"}
<1>1. l.valor \in ONada(Valores) /\ l.traido \in ONada(Contenidos) /\ (l.traido # Nada <=> EnViaje(p))
  BY DEF Traen, Trae
<1>2. /\ pc[p] \in Quietos => l.traido = Nada
      /\ pc[p] = "creada" => l.traido = Nada
  BY <1>1 DEF EnViaje, Buscando, Desalojando, Vueltas, MarcosInv, Manejador, PideMarco
<1>3. Nada \in ONada(Valores) /\ Nada \in ONada(Contenidos) /\ LocalVacio.valor = Nada /\ LocalVacio.traido = Nada
  BY DEF ONada, LocalVacio
<1>4. ASSUME NEW punto \in Quietos \cup {"bit_libre"}, NEW d, Ir(p, punto, d), UNCHANGED <<upcm, swap>>,
             leido' \in [Programas -> ONada(Contenidos)],
             d.valor \in ONada(Valores), d.traido = Nada, punto = "bit_libre" => d.vuelta = "creada"
      PROVE  Traen'
  <2>1. /\ punto \notin {"copiar_a_swap", "desalojar", "pegar", "pegar_mapeo", "copiar"}
        /\ ~(punto \in Buscando \cup Vueltas /\ d.vuelta # "creada")
    BY <1>4 DEF Buscando, Desalojando, Vueltas
  <2>2. QED
    BY <1>3, <1>4, <2>1, TraenSinCopiar
<1>5. leido \in [Programas -> ONada(Contenidos)] /\ [leido EXCEPT ![p] = Nada] \in [Programas -> ONada(Contenidos)]
  BY <1>3 DEF Traen
<1>6. CASE EmpezarAlta(p)
  <2>1. PICK a \in Altas : \E s \in Destinos(p, a.forma) :
          Ir(p, "crear", [LocalVacio EXCEPT !.forma = a.forma, !.n = a.n, !.seg = s])
    BY <1>6 DEF EmpezarAlta
  <2>2. PICK s \in Destinos(p, a.forma) : Ir(p, "crear", [LocalVacio EXCEPT !.forma = a.forma, !.n = a.n, !.seg = s])
    BY <2>1
  <2> DEFINE d == [LocalVacio EXCEPT !.forma = a.forma, !.n = a.n, !.seg = s]
  <2>3. d.valor = Nada /\ d.traido = Nada
    BY DEF LocalVacio
  <2>4. Ir(p, "crear", d) /\ UNCHANGED <<upcm, swap>> /\ leido' = [leido EXCEPT ![p] = Nada]
    BY <1>6, <2>2 DEF EmpezarAlta, disco
  <2> HIDE DEF d
  <2>5. QED
    BY <1>3, <1>4, <1>5, <2>3, <2>4
<1>7. CASE Crear(p)
  <2> DEFINE d == [l EXCEPT !.pag = PagNueva(p), !.vuelta = "creada"]
  <2>1. pc[p] = "crear" /\ l.i < l.n /\ UNCHANGED <<upcm, swap, leido>>
    BY <1>7 DEF Crear, Esta, disco, cuentas
  <2>2. l.n \in Nat /\ l.i \in Nat /\ l.n <= Marcos + 1
    BY <2>1 DEF MarcosInv, MarcosTipo, LocalBien, Manejador, DaDeAlta
  <2>3. Ir(p, "bit_libre", d)
    BY <1>7, <2>1, <2>2, MuseSupuesto DEF Crear
  <2>4. d.valor = l.valor /\ d.traido = l.traido /\ d.vuelta = "creada"
    BY DEF MarcosInv, MarcosTipo, LocalBien, LocalVacio
  <2> HIDE DEF d
  <2>5. QED
    BY <1>1, <1>2, <1>4, <1>5, <2>1, <2>3, <2>4
<1>8. CASE Creada(p)
  <2> DEFINE d == [l EXCEPT !.luego = "agregar"]
  <2>1. pc[p] = "creada" /\ UNCHANGED <<upcm, swap, leido>> /\ \E punto \in {"obtener", "agregar"} : Ir(p, punto, d)
    BY <1>8 DEF Creada, SeguirCreando, Esta, disco, cuentas
  <2>2. d.valor = l.valor /\ d.traido = l.traido
    BY DEF MarcosInv, MarcosTipo, LocalBien, LocalVacio
  <2> HIDE DEF d
  <2>3. QED
    BY <1>1, <1>2, <1>4, <1>5, <2>1, <2>2
<1>9. CASE Agregar(p)
  <2> DEFINE d == [l EXCEPT !.i = @ + 1, !.pag = Nada, !.marco = Nada, !.vuelta = "libre", !.luego = "libre",
                            !.nuevas = IF l.forma = "segmento" THEN Append(@, l.pag) ELSE @]
  <2>1. pc[p] = "agregar" /\ UNCHANGED <<upcm, swap, leido>> /\ Ir(p, "crear", d)
    BY <1>9 DEF Agregar, Esta, disco
  <2>2. d.valor = l.valor /\ d.traido = l.traido
    BY DEF MarcosInv, MarcosTipo, LocalBien, LocalVacio
  <2> HIDE DEF d
  <2>3. QED
    BY <1>1, <1>2, <1>4, <1>5, <2>1, <2>2
<1>10. CASE AltaHecha(p) \/ EmpezarHeap(p) \/ DevolverLugar(p) \/ HeapListo(p)
  <2>1. /\ UNCHANGED <<upcm, swap>> /\ (leido' = leido \/ leido' = [leido EXCEPT ![p] = Nada])
        /\ \/ Ir(p, "libre", LocalVacio)
           \/ \E s : Ir(p, "metadatos", [LocalVacio EXCEPT !.seg = s])
    BY <1>10 DEF AltaHecha, EmpezarHeap, DevolverLugar, HeapListo, Libre, disco, cuentas
  <2>2. \A s : [LocalVacio EXCEPT !.seg = s].valor = Nada /\ [LocalVacio EXCEPT !.seg = s].traido = Nada
    BY DEF LocalVacio
  <2>3. \E punto \in {"libre", "metadatos"} : \E d : Ir(p, punto, d) /\ d.valor = Nada /\ d.traido = Nada
    BY <1>3, <2>1, <2>2, Zenon
  <2>4. leido' \in [Programas -> ONada(Contenidos)]
    BY <1>5, <2>1
  <2>5. QED
    BY <1>3, <1>4, <2>1, <2>3, <2>4
<1>11. CASE TocarMetadatos(p) \/ EmpezarASoltar(p) \/ QuitarDeLaLista(p) \/ DestruirPagina(p)
  <2>1. pc[p] \in {"metadatos", "soltar", "destruir"} /\ UNCHANGED <<upcm, swap, leido>>
    BY <1>11 DEF TocarMetadatos, EmpezarASoltar, QuitarDeLaLista, DestruirPagina, Esta, disco, cuentas
  <2> DEFINE Mismo(d) == d.valor = l.valor /\ d.traido = l.traido
  <2>2. \A g, n, k :
          /\ Mismo([l EXCEPT !.pag = g, !.luego = "metadatos"]) /\ Mismo([l EXCEPT !.i = k])
          /\ Mismo([l EXCEPT !.pag = g, !.n = n]) /\ Mismo([l EXCEPT !.pag = g])
    BY DEF MarcosInv, MarcosTipo, LocalBien, LocalVacio
  <2>3. \/ \E g : Ir(p, "obtener", [l EXCEPT !.pag = g, !.luego = "metadatos"])
        \/ \E k : Ir(p, "soltar", [l EXCEPT !.i = k])
        \/ \E g, n : Ir(p, "destruir", [l EXCEPT !.pag = g, !.n = n])
        \/ \E g : Ir(p, "soltar", [l EXCEPT !.pag = g])
    BY <1>11 DEF TocarMetadatos, EmpezarASoltar, QuitarDeLaLista, DestruirPagina
  <2>4. \E punto \in {"obtener", "soltar", "destruir"} : \E d :
          Ir(p, punto, d) /\ Mismo(d)
    <3> HIDE DEF Mismo
    <3>1. QED
      BY <2>2, <2>3, Zenon
  <2>5. QED
    BY <1>1, <1>2, <1>4, <1>5, <2>1, <2>4
<1>12. CASE EmpezarAcceso(p)
  <2>1. PICK g \in PaginasDe(p), v \in Valores \cup {Nada} :
          Ir(p, "acceder", [LocalVacio EXCEPT !.pag = g, !.valor = v, !.luego = "copiar"])
    BY <1>12 DEF EmpezarAcceso
  <2> DEFINE d == [LocalVacio EXCEPT !.pag = g, !.valor = v, !.luego = "copiar"]
  <2>2. d.valor \in ONada(Valores) /\ d.traido = Nada
    BY DEF LocalVacio, ONada
  <2>3. Ir(p, "acceder", d) /\ UNCHANGED <<upcm, swap>> /\ leido' = [leido EXCEPT ![p] = Nada]
    BY <1>12, <2>1 DEF EmpezarAcceso, disco
  <2> HIDE DEF d
  <2>4. QED
    BY <1>4, <1>5, <2>2, <2>3
<1>13. CASE Acceder(p) \/ EnMemoria(p)
  <2>1. /\ pc[p] \in {"acceder", "obtener"} /\ UNCHANGED <<upcm, swap, leido>>
        /\ \E punto \in {"obtener", "usar"} : Ir(p, punto, l)
    BY <1>13 DEF Acceder, EnMemoria, Esta, disco, cuentas
  <2>2. QED
    BY <1>1, <1>2, <1>4, <1>5, <2>1
<1>14. CASE Mapear(p) \/ Desmapear(p) \/ Cerrar(p)
  <2>1. pc[p] = "libre" /\ UNCHANGED <<upcm, swap, pc, loc>> /\ leido' = [leido EXCEPT ![p] = Nada]
    BY <1>14 DEF Mapear, Desmapear, Cerrar, Esta, disco
  <2>2. Trae(p)'
    BY <1>1, <1>2, <1>3, <2>1 DEF Trae, EnViaje, Buscando, Desalojando, Vueltas
  <2>3. QED
    BY <1>5, <2>1, <2>2, TraenDe DEF Traen
<1>15. QED
  BY <1>6, <1>7, <1>8, <1>9, <1>10, <1>11, <1>12, <1>13, <1>14, TraerTrae, CopiarTrae DEF Pedido

LEMMA PedidoReserva ==
  ASSUME UnSoloPrograma, AltasCortas, MarcosInv, BitsJustos, Cuenta, NEW p \in Programas,
         AsignarMarco(p) \/ ObtenerPuntero(p) \/ Pedido(p)
  PROVE  BitsJustos' /\ Cuenta'
<1>1. CASE AsignarMarco(p)
  BY <1>1, BusquedaCuenta, BusquedaBits
<1>2. CASE ObtenerPuntero(p)
  <2>1. CASE Usar(p)
    BY <2>1, UsarReserva
  <2>2. CASE ~Usar(p)
    <3>1. MueveUna(p)
      BY <1>2, <2>2 DEF ObtenerPuntero, MueveUna
    <3>2. QED
      BY <3>1, MueveUnaCuenta, MueveUnaBits
  <2>3. QED
    BY <2>1, <2>2
<1>3. CASE Pedido(p)
  <2>1. CASE MueveUna(p)
    BY <2>1, MueveUnaCuenta, MueveUnaBits
  <2>2. CASE SinPaginas(p)
    BY <2>2, SinPaginasReserva
  <2>3. CASE EmpezarAlta(p) \/ Crear(p) \/ Agregar(p) \/ AltaHecha(p) \/ Mapear(p)
    BY <2>3, EmpezarAltaReserva, CrearReserva, AgregarReserva, AltaHechaReserva, MapearReserva
  <2>4. CASE QuitarDeLaLista(p) \/ DestruirPagina(p) \/ DevolverLugar(p) \/ Desmapear(p) \/ Cerrar(p)
    BY <2>4, QuitarDeLaListaReserva, DestruirPaginaReserva, DevolverLugarReserva, DesmapearReserva
  <2>5. QED
    BY <1>3, <2>1, <2>2, <2>3, <2>4 DEF Pedido, MueveUna, SinPaginas
<1>4. QED
  BY <1>1, <1>2, <1>3

LEMMA QuietaReserva ==
  ASSUME BitsJustos, Cuenta, Traen, ~caido, UNCHANGED museVars
  PROVE  BitsJustos' /\ Cuenta' /\ Traen' /\ ~caido'
<1> USE DEF museVars
<1>1. BitsJustos'
  BY DEF BitsJustos, Ocupados, Marcadas, Guardadas, EnUso, PaginasDe, Presente
<1>2. ASSUME NEW p \in Programas
      PROVE  EnUso(p)' = EnUso(p) /\ Reservadas(p)' = Reservadas(p) /\ PaginasDe(p)' = PaginasDe(p)
  BY DEF EnUso, PaginasDe, Reservadas
<1>3. Cuenta'
  <2>1. tabla' = tabla /\ lugar' = lugar /\ pc' = pc /\ loc' = loc
    OBVIOUS
  <2>2. ASSUME NEW p \in Programas PROVE Alta(p)' /\ SinRepetidas(tabla'[p])
    BY <1>2, <2>1 DEF Cuenta, Alta
  <2>3. ASSUME NEW p \in Programas
        PROVE  Cardinality(EnUso(p)') + Reservadas(p)' <= Marcos + Ranuras - lugar'
    BY <1>2, <2>1 DEF Cuenta
  <2>4. QED
    BY <2>1, <2>2, <2>3 DEF Cuenta
<1>4. Traen' /\ ~caido'
  BY DEF Traen, Trae, EnViaje, Presente
<1>5. QED
  BY <1>1, <1>3, <1>4

LEMMA ReservaInicial == MuseInit => ReservaInv
<1> SUFFICES ASSUME MuseInit PROVE ReservaInv
  OBVIOUS
<1> USE MuseSupuesto
<1>1. MarcosInv
  BY MarcosInicial
<1>2. BitsJustos
  BY DEF MuseInit, BitsJustos, Ocupados, Marcadas, Guardadas, PaginaVacia, LocalVacio, Buscando, Desalojando, Vueltas
<1>3. Reloj /\ ~caido
  BY DEF MuseInit, Reloj
<1>4. Traen
  <2>1. PICK v \in Valores : upcm = [m \in IdMarcos |-> v] /\ swap = [r \in IdRanuras |-> v]
    BY DEF MuseInit
  <2>2. \A p \in Programas : Trae(p)
    BY DEF MuseInit, Trae, EnViaje, LocalVacio, ONada, Buscando, Desalojando, Vueltas
  <2>3. QED
    BY <2>1, <2>2 DEF MuseInit, Traen, Contenidos, ONada
<1>5. Cuenta
  <2>1. lugar \in 0..(Marcos + Ranuras) /\ lugar = Marcos + Ranuras
    BY DEF MuseInit
  <2>2. ASSUME NEW p \in Programas
        PROVE  Alta(p) /\ SinRepetidas(tabla[p]) /\ Cardinality(EnUso(p)) + Reservadas(p) <= Marcos + Ranuras - lugar
    <3>1. pc[p] = "libre" /\ loc[p] = LocalVacio /\ tabla[p] = <<>>
      BY DEF MuseInit
    <3>2. LocalVacio.forma = Nada /\ LocalVacio.nuevas = <<>>
      BY DEF LocalVacio
    <3>3. Alta(p) /\ SinRepetidas(tabla[p]) /\ Reservadas(p) = 0
      BY <3>1, <3>2 DEF Alta, SinRepetidas, Reservadas
    <3>4. EnUso(p) = {}
      BY <3>1, <3>2 DEF EnUso, PaginasDe, Range
    <3>5. Cardinality(EnUso(p)) = 0
      BY <3>4, FS_EmptySet
    <3>6. QED
      BY <2>1, <3>3, <3>5
  <2>3. QED
    BY <2>1, <2>2 DEF Cuenta
<1>6. QED
  BY <1>1, <1>2, <1>3, <1>4, <1>5 DEF ReservaInv

LEMMA ReservaSePreserva ==
  ASSUME UnSoloPrograma, AltasCortas, ReservaInv, [MuseNext]_museVars
  PROVE  ReservaInv'
<1> USE DEF ReservaInv
<1>1. MarcosInv'
  BY AsignarMarcoInv, ObtenerPunteroInv, PedidoInv, QuietoInv DEF MuseNext
<1>2. Reloj'
  BY RelojSePreserva
<1>3. CASE UNCHANGED museVars
  BY <1>1, <1>2, <1>3, QuietaReserva
<1>4. CASE MuseNext
  <2>1. PICK p \in Programas : AsignarMarco(p) \/ ObtenerPuntero(p) \/ Pedido(p)
    BY <1>4 DEF MuseNext
  <2>2. BitsJustos' /\ Cuenta' /\ ~caido'
    BY <2>1, PedidoReserva, NadieCae
  <2>3. Traen'
    BY <2>1, BusquedaTrae, TraerTrae, UsarTrae, PedidoTrae DEF ObtenerPuntero
  <2>4. QED
    BY <1>1, <1>2, <2>2, <2>3
<1>5. QED
  BY <1>3, <1>4

-----------------------------------------------------------------------------
(* With one program, new segments of a page and no allocation of more pages than *)
(* Marcos + 1, what lugar_disponible lets an allocation take is enough: the four *)
(* searches of asignar_marco_nuevo find a frame, pasar_marco_a_swap finds a slot  *)
(* for its page and obtener_puntero_a_marco finds its page in the frame, so no    *)
(* handler dereferences NULL.                                                   *)
THEOREM SinNulosConUno == UnSoloPrograma /\ AltasCortas => (MuseSpec => []SinNulos)
<1> SUFFICES ASSUME UnSoloPrograma, AltasCortas PROVE MuseSpec => []SinNulos
  OBVIOUS
<1>1. ReservaInv /\ [MuseNext]_museVars => ReservaInv'
  BY ReservaSePreserva
<1>2. ReservaInv => SinNulos
  BY DEF ReservaInv, SinNulos
<1>3. QED
  BY <1>1, <1>2, ReservaInicial, PTL DEF MuseSpec

LEMMA VisiblesDeUno ==
  ASSUME UnSoloPrograma, MarcosInv, Cuenta, NEW p \in Programas, pc[p] = "libre"
  PROVE  Visibles = PaginasDe(p) /\ EnUso(p) = PaginasDe(p)
<1>1. loc[p].nuevas = <<>> /\ Range(<<>>) = {}
  BY SinPagina DEF Range
<1>2. QED
  BY <1>1 DEF Visibles, EnUso, UnSoloPrograma

LEMMA NadaPerdido ==
  ASSUME UnSoloPrograma, ReservaInv, Reposo
  PROVE  /\ {m \in IdMarcos : bitMarco[m].ocupado} = MarcosDe({g \in Visibles : pagina[g].presencia})
         /\ ranuras \subseteq RanurasDe(Visibles)
         /\ Cardinality(Visibles) <= Marcos + Ranuras - lugar
<1> USE DEF ReservaInv
<1>1. \A p \in Programas : pc[p] = "libre" /\ Visibles = PaginasDe(p) /\ EnUso(p) = PaginasDe(p)
  BY VisiblesDeUno DEF Reposo
<1>2. \A g \in IdPaginas : \E p \in Programas : pc[p] = "libre" /\ Visibles = PaginasDe(p) /\ EnUso(p) = PaginasDe(p)
  BY <1>1 DEF IdPaginas
<1>3. Visibles \subseteq IdPaginas
  BY Listadas DEF Visibles, MarcosInv
<1>4. \A g \in IdPaginas : Presente(g) => g \in Visibles
  BY <1>2, SinPagina
<1>5. \A g \in IdPaginas : pagina[g].ranura # Nada => g \in Visibles
  BY <1>2 DEF BitsJustos, Guardadas
<1>6. ASSUME NEW m \in IdMarcos, bitMarco[m].ocupado PROVE m \in MarcosDe({g \in Visibles : pagina[g].presencia})
  <2>1. \E g \in IdPaginas : Presente(g) /\ pagina[g].marco = m
    BY <1>1, <1>6 DEF BitsJustos, Ocupados, Vueltas
  <2>2. QED
    BY <1>4, <2>1 DEF MarcosDe, Presente
<1>7. ASSUME NEW g \in Visibles, pagina[g].presencia PROVE pagina[g].marco \in IdMarcos /\ bitMarco[pagina[g].marco].ocupado
  BY <1>3, <1>7 DEF MarcosInv, EnSuLugar, Presente
<1>8. {m \in IdMarcos : bitMarco[m].ocupado} = MarcosDe({g \in Visibles : pagina[g].presencia})
  BY <1>6, <1>7 DEF MarcosDe
<1>9. ASSUME NEW r \in ranuras PROVE r \in RanurasDe(Visibles)
  <2>1. r # Nada
    BY MuseSupuesto DEF MarcosInv, MarcosTipo
  <2>2. \E g \in IdPaginas : pagina[g].ranura = r
    BY <1>1 DEF BitsJustos, Marcadas
  <2>3. QED
    BY <1>5, <2>1, <2>2 DEF RanurasDe
<1>10. Cardinality(Visibles) <= Marcos + Ranuras - lugar
  <2>1. CASE Programas = {}
    <3>1. Visibles = {}
      BY <2>1 DEF Visibles
    <3>2. Cardinality(Visibles) = 0
      BY <3>1, FS_EmptySet
    <3>3. lugar \in 0..(Marcos + Ranuras)
      BY DEF Cuenta
    <3>4. QED
      BY <3>2, <3>3, MuseSupuesto
  <2>2. CASE Programas # {}
    <3>1. PICK p \in Programas : Visibles = EnUso(p)
      BY <1>1, <2>2
    <3>2. /\ Cardinality(EnUso(p)) + Reservadas(p) <= Marcos + Ranuras - lugar
          /\ Cardinality(EnUso(p)) \in Nat /\ Reservadas(p) \in Nat /\ lugar \in Nat
      BY CuentaDe
    <3>3. QED
      BY <3>1, <3>2, MuseSupuesto
  <2>3. QED
    BY <2>1, <2>2
<1>11. QED
  BY <1>8, <1>9, <1>10

(* With the same program: between requests the occupied frames and the marked   *)
(* slots are those of the pages there are, and these were all counted in        *)
(* lugar_disponible, whatever the clock, muse_free, muse_unmap and muse_close did. *)
THEOREM SinPerdidasConUno == UnSoloPrograma /\ AltasCortas => (MuseSpec => []SinPerdidas)
<1> SUFFICES ASSUME UnSoloPrograma, AltasCortas PROVE MuseSpec => []SinPerdidas
  OBVIOUS
<1>1. ReservaInv /\ [MuseNext]_museVars => ReservaInv'
  BY ReservaSePreserva
<1>2. ReservaInv => SinPerdidas
  BY NadaPerdido DEF SinPerdidas
<1>3. QED
  BY <1>1, <1>2, ReservaInicial, PTL DEF MuseSpec

CaidoEsBooleano == caido \in BOOLEAN

LEMMA CaidoBooleano == CaidoEsBooleano /\ [MuseNext]_museVars => CaidoEsBooleano'
<1> SUFFICES ASSUME caido \in BOOLEAN, [MuseNext]_museVars PROVE caido' \in BOOLEAN
  BY DEF CaidoEsBooleano
<1>1. ASSUME NEW p \in Programas, NoHallado(p) \/ ElegirRanura(p) \/ Usar(p)
      PROVE  caido' \in BOOLEAN
  <2>1. \/ caido' = (loc[p].busca = 4) \/ caido' = (Nada \in {pagina[loc[p].victima].marco, RanuraLibre})
        \/ caido' = (pagina[loc[p].pag].marco = Nada)
    BY <1>1 DEF NoHallado, ElegirRanura, Usar
  <2>2. ASSUME NEW x, NEW S, caido' = (x \in S) PROVE caido' \in BOOLEAN
    BY <2>2, SMT
  <2>3. ASSUME NEW x, NEW y, caido' = (x = y) PROVE caido' \in BOOLEAN
    BY <2>3, SMT
  <2> DEFINE dos == {pagina[loc[p].victima].marco, RanuraLibre}
  <2>4. caido' = (Nada \in dos) => caido' \in BOOLEAN
    <3> HIDE DEF dos
    <3>1. QED
      BY <2>2, Zenon
  <2>5. QED
    BY <2>1, <2>3, <2>4, Zenon
<1>2. ASSUME NEW p \in Programas, AsignarMarco(p) \/ ObtenerPuntero(p) \/ Pedido(p),
             ~NoHallado(p), ~ElegirRanura(p), ~Usar(p)
      PROVE  caido' = caido
  BY <1>2 DEF AsignarMarco, ObtenerPuntero, Pedido, BitLibre, SinBitLibre, Buscar,
              BuscarPagina, CopiarASwap, Desalojar, EnMemoria, TraerDeSwap, Traida, Pegar, EmpezarAlta, Crear,
              Creada, Agregar, AltaHecha, Mapear, EmpezarHeap, TocarMetadatos, EmpezarASoltar,
              QuitarDeLaLista, DestruirPagina, DevolverLugar, HeapListo, EmpezarAcceso, Acceder, CargarMapeo,
              Cargada, Leer, Escribir, Desmapear, Cerrar
<1>3. CASE UNCHANGED museVars
  BY <1>3 DEF museVars
<1>4. QED
  BY <1>1, <1>2, <1>3 DEF MuseNext

(* The variables keep the types of muse.h, and lugar_disponible its limits. *)
THEOREM TiposConUno == UnSoloPrograma /\ AltasCortas => (MuseSpec => []MuseTypeOK)
<1> SUFFICES ASSUME UnSoloPrograma, AltasCortas PROVE MuseSpec => []MuseTypeOK
  OBVIOUS
<1>1. ReservaInv /\ [MuseNext]_museVars => ReservaInv'
  BY ReservaSePreserva
<1>2. ReservaInv /\ CaidoEsBooleano => MuseTypeOK
  <2> SUFFICES ASSUME ReservaInv, caido \in BOOLEAN PROVE MuseTypeOK
    BY DEF CaidoEsBooleano
  <2> USE DEF ReservaInv, MarcosInv
  <2>1. \A p \in Programas : \A s \in DOMAIN tabla[p] :
          tabla[p][s] \in [mmapeado : BOOLEAN, paginas : Seq(IdPaginas)]
    BY SegmentoDeTabla DEF Segmentos
  <2>2. lugar \in 0..(Marcos + Ranuras)
    BY DEF Cuenta
  <2>3. QED
    BY <2>1, <2>2 DEF MarcosTipo, Traen, MuseTypeOK
<1>3. MuseInit => CaidoEsBooleano
  BY DEF MuseInit, CaidoEsBooleano
<1>4. QED
  BY <1>1, <1>2, <1>3, CaidoBooleano, ReservaInicial, PTL DEF MuseSpec

-----------------------------------------------------------------------------
(* The pages of a program as it sees them.                                   *)

(* What a page holds where it is, and what its program holds in it. *)
Donde(g) ==
  IF Presente(g) THEN upcm[pagina[g].marco]
  ELSE IF pagina[g].ranura # Nada THEN swap[pagina[g].ranura] ELSE Archivo
Tiene(p, g) == IF loc[p].pag = g /\ loc[p].traido # Nada THEN loc[p].traido ELSE Donde(g)

Contenidas == [g \in IdPaginas |-> Contenido(g)]

(* With one program a page of it holds what the program holds, and any other nothing. *)
LEMMA ContenidoDeUno ==
  ASSUME UnSoloPrograma, NEW p \in Programas, NEW g
  PROVE  /\ Contenido(g) = (IF g \in PaginasDe(p) THEN Tiene(p, g) ELSE Nada)
         /\ Contenido(g)' = (IF g \in PaginasDe(p)' THEN Tiene(p, g)' ELSE Nada)
<1>1. \A q \in Programas : q = p
  BY DEF UnSoloPrograma
<1>2. /\ g \in Visibles <=> g \in PaginasDe(p)
      /\ (g \in Visibles)' <=> (g \in PaginasDe(p))'
  BY <1>1 DEF Visibles
<1>3. /\ EnTransito(g) = IF loc[p].pag = g /\ loc[p].traido # Nada THEN {p} ELSE {}
      /\ EnTransito(g)' = IF loc'[p].pag = g /\ loc'[p].traido # Nada THEN {p} ELSE {}
  BY <1>1 DEF EnTransito
<1>4. (CHOOSE q \in {p} : TRUE) = p
  OBVIOUS
<1>5. Contenido(g) = (IF g \in PaginasDe(p) THEN Tiene(p, g) ELSE Nada)
  BY <1>2, <1>3, <1>4 DEF Contenido, Tiene, Donde, Presente
<1>6. Contenido(g)' = (IF g \in PaginasDe(p)' THEN Tiene(p, g)' ELSE Nada)
  BY <1>2, <1>3, <1>4 DEF Contenido, Tiene, Donde, Presente
<1>7. QED
  BY <1>5, <1>6

(* A page of the program holds something. *)
LEMMA TieneAlgo ==
  ASSUME MarcosInv, Traen, NEW p \in Programas, NEW g \in IdPaginas
  PROVE  Tiene(p, g) \in Contenidos
<1>1. Presente(g) => pagina[g].marco \in IdMarcos
  BY DEF MarcosInv, EnSuLugar
<1>2. pagina[g].ranura # Nada => pagina[g].ranura \in IdRanuras
  BY DEF MarcosInv, MarcosTipo, ONada
<1>3. Donde(g) \in Contenidos
  BY <1>1, <1>2 DEF Donde, Traen, Contenidos
<1>4. loc[p].traido \in ONada(Contenidos)
  BY DEF Traen, Trae
<1>5. QED
  BY <1>3, <1>4 DEF Tiene, ONada

(* The same, after a step. *)
LEMMA TieneAlgoDespues ==
  ASSUME MarcosInv', Traen', NEW p \in Programas, NEW g \in IdPaginas
  PROVE  Tiene(p, g)' \in Contenidos
<1>1. Presente(g)' => pagina'[g].marco \in IdMarcos
  BY DEF MarcosInv, EnSuLugar, Presente
<1>2. pagina'[g].ranura # Nada => pagina'[g].ranura \in IdRanuras
  BY DEF MarcosInv, MarcosTipo, ONada
<1>3. Donde(g)' \in Contenidos
  BY <1>1, <1>2 DEF Donde, Traen, Contenidos
<1>4. loc'[p].traido \in ONada(Contenidos)
  BY DEF Traen, Trae
<1>5. QED
  BY <1>3, <1>4 DEF Tiene, ONada

(* The pages that exist are those that the program has listed. *)
LEMMA ExistenLasDelPrograma ==
  ASSUME UnSoloPrograma, MarcosInv, Traen, NEW p \in Programas
  PROVE  Memoria!Existen = PaginasDe(p) /\ PaginasDe(p) \subseteq IdPaginas
<1>1. PaginasDe(p) \subseteq IdPaginas
  BY Listadas DEF MarcosInv
<1>2. \A g \in IdPaginas : Contenido(g) # Nada <=> g \in PaginasDe(p)
  <2>1. Nada \notin Contenidos
    BY MuseSupuesto
  <2>2. \A g \in IdPaginas : Tiene(p, g) \in Contenidos
    BY TieneAlgo
  <2>3. QED
    BY <2>1, <2>2, ContenidoDeUno
<1>3. QED
  BY <1>1, <1>2 DEF Memoria!Existen

-----------------------------------------------------------------------------
(* The steps that a program does not see.                                    *)

(* A step that leaves every page what it holds is one the memory of pages does not take. *)
LEMMA MismasPaginas ==
  ASSUME UnSoloPrograma, MarcosInv, NEW p \in Programas, PaginasDe(p)' = PaginasDe(p),
         \A g \in PaginasDe(p) : Tiene(p, g)' = Tiene(p, g)
  PROVE  Contenidas' = Contenidas
<1>1. \A g \in IdPaginas : Contenido(g)' = Contenido(g)
  BY ContenidoDeUno
<1>2. QED
  BY <1>1 DEF Contenidas

(* Where the pages are does not change, and none starts or ends a journey. *)
LEMMA MismosLugares ==
  ASSUME UnSoloPrograma, MarcosInv, NEW p \in Programas, UNCHANGED <<pagina, upcm, swap>>,
         PaginasDe(p)' = PaginasDe(p),
         \/ loc[p].traido = Nada /\ loc'[p].traido = Nada
         \/ loc'[p].traido = loc[p].traido /\ loc'[p].pag = loc[p].pag
  PROVE  Contenidas' = Contenidas
<1>1. \A g \in PaginasDe(p) : Tiene(p, g)' = Tiene(p, g)
  BY DEF Tiene, Donde, Presente
<1>2. QED
  BY <1>1, MismasPaginas

(* The clock moves the victim to its slot with what it held. *)
LEMMA BusquedaNoSeVe ==
  ASSUME UnSoloPrograma, MarcosInv, Traen, NEW p \in Programas, AsignarMarco(p)
  PROVE  Contenidas' = Contenidas /\ leido' = leido
<1> DEFINE l == loc[p]
<1>1. /\ tabla' = tabla /\ leido' = leido /\ upcm' = upcm /\ ~caido
      /\ PaginasDe(p)' = PaginasDe(p) /\ PaginasDe(p) \subseteq IdPaginas
  <2>1. /\ tabla' = tabla /\ leido' = leido /\ upcm' = upcm /\ ~caido
    BY DEF AsignarMarco, BitLibre, SinBitLibre, Buscar, NoHallado, BuscarPagina, ElegirRanura, CopiarASwap,
           Desalojar, Esta, cuentas, disco
  <2>2. QED
    BY <2>1, Listadas DEF PaginasDe, MarcosInv
<1>2. loc'[p].traido = l.traido /\ loc'[p].pag = l.pag
  <2> USE DEF MarcosInv, MarcosTipo, LocalBien, LocalVacio
  <2>1. CASE BitLibre(p)
    <3>1. loc'[p] = [l EXCEPT !.marco = Min(MarcosLibres)]
      BY <2>1 DEF BitLibre, Ir
    <3>2. QED
      BY <3>1
  <2>2. CASE SinBitLibre(p)
    <3>1. loc'[p] = [l EXCEPT !.busca = 1]
      BY <2>2 DEF SinBitLibre, Ir
    <3>2. QED
      BY <3>1
  <2>3. CASE NoHallado(p)
    <3>1. loc'[p] = [l EXCEPT !.busca = @ + 1]
      BY <2>3 DEF NoHallado, Ir
    <3>2. QED
      BY <3>1
  <2>4. CASE Buscar(p)
    <3>1. \E x : loc'[p] = [l EXCEPT !.marco = x, !.busca = 0]
      BY <2>4 DEF Buscar, Ir
    <3>2. QED
      BY <3>1
  <2>5. CASE BuscarPagina(p)
    <3>1. loc'[p] = l \/ \E x : loc'[p] = [l EXCEPT !.victima = x]
      BY <2>5 DEF BuscarPagina, Ir
    <3>2. QED
      BY <3>1
  <2>6. CASE ElegirRanura(p)
    <3>1. \E x, y : loc'[p] = [l EXCEPT !.origen = x, !.ranura = y]
      BY <2>6 DEF ElegirRanura, Ir
    <3>2. QED
      BY <3>1
  <2>7. CASE CopiarASwap(p)
    <3>1. loc'[p] = [l EXCEPT !.origen = Nada]
      BY <2>7 DEF CopiarASwap, Ir
    <3>2. QED
      BY <3>1
  <2>8. CASE Desalojar(p)
    <3>1. loc'[p] = [l EXCEPT !.victima = Nada, !.ranura = Nada]
      BY <2>8 DEF Desalojar, Ir
    <3>2. QED
      BY <3>1
  <2>9. QED
    BY <2>1, <2>2, <2>3, <2>4, <2>5, <2>6, <2>7, <2>8 DEF AsignarMarco
<1>3. CASE UNCHANGED <<pagina, swap>>
  BY <1>1, <1>2, <1>3, MismosLugares
<1>4. CASE CopiarASwap(p)
  <2>1. /\ pc[p] = "copiar_a_swap" /\ pagina' = pagina
        /\ swap' = [swap EXCEPT ![l.ranura] = upcm[l.origen]]
    BY <1>4 DEF CopiarASwap, Esta
  <2>2. \A g \in IdPaginas : pagina[g].ranura # l.ranura
    BY <1>1, <2>1 DEF MarcosInv, Manejador, PideRanura
  <2>3. \A g \in IdPaginas : pagina[g].ranura # Nada => swap'[pagina[g].ranura] = swap[pagina[g].ranura]
    <3>1. \A g \in IdPaginas : pagina[g].ranura # Nada => pagina[g].ranura \in IdRanuras
      BY DEF MarcosInv, MarcosTipo, ONada
    <3>2. QED
      BY <2>1, <2>2, <3>1 DEF Traen
  <2>4. \A g \in PaginasDe(p) : Tiene(p, g)' = Tiene(p, g)
    BY <1>1, <1>2, <2>1, <2>3 DEF Tiene, Donde, Presente
  <2>5. QED
    BY <1>1, <2>4, MismasPaginas
<1>5. CASE Desalojar(p)
  <2>1. /\ pc[p] = "desalojar" /\ swap' = swap
        /\ pagina' = [pagina EXCEPT ![l.victima] = [presencia |-> FALSE, marco |-> Nada, ranura |-> l.ranura]]
    BY <1>5 DEF Desalojar, Desalojada, Esta, disco
  <2>2. PICK v \in IdPaginas :
          v = l.victima /\ Presente(v) /\ pagina[v].marco = l.marco /\ l.ranura \in IdRanuras
    BY <1>1, <2>1 DEF MarcosInv, Manejador, PideRanura, Desalojando
  <2>3. ~Presente(l.pag) /\ l.pag # v /\ l.ranura # Nada
    BY <2>1, <2>2, MuseSupuesto DEF MarcosInv, Manejador, PideMarco, Buscando, Desalojando
  <2>4. swap[l.ranura] = upcm[l.marco]
    BY <2>1 DEF Traen, Trae
  <2>5. /\ pagina'[v] = [presencia |-> FALSE, marco |-> Nada, ranura |-> l.ranura]
        /\ \A g \in IdPaginas : g # v => pagina'[g] = pagina[g]
    BY <2>1, <2>2 DEF MarcosInv, MarcosTipo
  <2>6. Donde(v) = upcm[l.marco]
    BY <2>2 DEF Donde
  <2>7. Donde(v)' = swap[l.ranura]
    BY <2>1, <2>3, <2>5 DEF Donde, Presente
  <2>8. \A g \in IdPaginas : Donde(g)' = Donde(g)
    <3>1. \A g \in IdPaginas : g # v => Donde(g)' = Donde(g)
      BY <1>1, <2>1, <2>5 DEF Donde, Presente
    <3>2. QED
      BY <2>4, <2>6, <2>7, <3>1
  <2>9. \A g \in PaginasDe(p) : Tiene(p, g)' = Tiene(p, g)
    BY <1>1, <1>2, <2>8 DEF Tiene
  <2>10. QED
    BY <1>1, <2>9, MismasPaginas
<1>6. CASE BitLibre(p) \/ SinBitLibre(p) \/ Buscar(p) \/ NoHallado(p) \/ BuscarPagina(p) \/ ElegirRanura(p)
  <2>1. UNCHANGED <<pagina, swap>>
    BY <1>6 DEF BitLibre, SinBitLibre, Buscar, NoHallado, BuscarPagina, ElegirRanura, disco
  <2>2. QED
    BY <1>1, <1>3, <2>1
<1>7. QED
  BY <1>1, <1>4, <1>5, <1>6 DEF AsignarMarco

(* Where a handler has nothing on its way to a frame. *)
EnCasa == {"libre", "crear", "creada", "agregar", "obtener", "usar", "copiar", "acceder", "metadatos", "soltar",
           "destruir"}

(* At those places the handler carries no page. *)
LEMMA NadaEnViaje ==
  ASSUME MarcosInv, Traen, NEW p \in Programas, pc[p] \in EnCasa
  PROVE  loc[p].traido = Nada
<1>1. ~EnViaje(p)
  BY DEF EnCasa, EnViaje, Buscando, Desalojando, Vueltas, MarcosInv, Manejador, PideMarco
<1>2. QED
  BY <1>1 DEF Traen, Trae

(* The same, after a step. *)
LEMMA NadaEnViajeDespues ==
  ASSUME MarcosInv', Traen', NEW p \in Programas,
         pc'[p] \in EnCasa \/ (pc'[p] = "bit_libre" /\ loc'[p].vuelta = "creada")
  PROVE  loc'[p].traido = Nada
<1>1. ~EnViaje(p)'
  BY DEF EnCasa, EnViaje, Buscando, Desalojando, Vueltas, MarcosInv, Manejador, PideMarco
<1>2. QED
  BY <1>1 DEF Traen, Trae

(* A page on its way from the swap or from its file holds what it held. *)
LEMMA TraerNoSeVe ==
  ASSUME UnSoloPrograma, MarcosInv, Traen, NEW p \in Programas,
         \/ TraerDeSwap(p) \/ CargarMapeo(p) \/ Traida(p) \/ Cargada(p)
         \/ Pegar(p, "pegar", "usar") \/ Pegar(p, "pegar_mapeo", "obtener")
  PROVE  Contenidas' = Contenidas /\ leido' = leido
<1> DEFINE l == loc[p]
<1>1. /\ tabla' = tabla /\ leido' = leido /\ swap' = swap
      /\ PaginasDe(p)' = PaginasDe(p) /\ PaginasDe(p) \subseteq IdPaginas
  <2>1. tabla' = tabla /\ leido' = leido /\ swap' = swap
    BY DEF TraerDeSwap, CargarMapeo, Traida, Cargada, Pegar, cuentas, disco
  <2>2. QED
    BY <2>1, Listadas DEF PaginasDe, MarcosInv
<1>2. l.traido # Nada <=> EnViaje(p)
  BY DEF Traen, Trae
<1>3. CASE TraerDeSwap(p)
  <2>1. PICK g \in IdPaginas : g = l.pag
    BY <1>3 DEF TraerDeSwap, Esta, MarcosInv, Manejador, UsaPagina
  <2>2. PICK r : r = pagina[g].ranura
    OBVIOUS
  <2>3. /\ pc[p] = "obtener" /\ ~Presente(g) /\ r # Nada /\ upcm' = upcm
        /\ pagina' = [pagina EXCEPT ![g].ranura = Nada]
        /\ Ir(p, "bit_libre", [l EXCEPT !.traido = swap[r], !.vuelta = "traida"])
    BY <1>3, <2>1, <2>2 DEF TraerDeSwap, Esta, disco, Presente
  <2>4. loc'[p].traido = swap[r] /\ loc'[p].pag = g /\ swap[r] # Nada
    <3>1. loc'[p] = [l EXCEPT !.traido = swap[r], !.vuelta = "traida"]
      BY <2>3 DEF Ir, MarcosInv, MarcosTipo
    <3>2. r \in IdRanuras
      BY <2>2, <2>3 DEF MarcosInv, MarcosTipo, ONada
    <3>3. swap[r] \in Contenidos
      BY <3>2 DEF Traen
    <3>4. QED
      BY <2>1, <3>1, <3>3, MuseSupuesto DEF MarcosInv, MarcosTipo, LocalBien, LocalVacio
  <2>5. l.traido = Nada
    BY <2>3, NadaEnViaje DEF EnCasa
  <2>6. Tiene(p, g) = swap[r] /\ Tiene(p, g)' = swap[r]
    BY <2>2, <2>3, <2>4, <2>5 DEF Tiene, Donde
  <2>7. \A h \in IdPaginas : h # g => Tiene(p, h)' = Tiene(p, h)
    <3>1. \A h \in IdPaginas : h # g => pagina'[h] = pagina[h]
      BY <2>3 DEF MarcosInv, MarcosTipo
    <3>2. \A h \in IdPaginas : h # g => Donde(h)' = Donde(h)
      BY <1>1, <2>3, <3>1 DEF Donde, Presente
    <3>3. QED
      BY <2>1, <2>4, <2>5, <3>2 DEF Tiene
  <2>8. QED
    BY <1>1, <2>6, <2>7, MismasPaginas
<1>4. CASE CargarMapeo(p)
  <2>1. PICK g \in IdPaginas : g = l.pag
    BY <1>4 DEF CargarMapeo, Esta, MarcosInv, Manejador, UsaPagina
  <2>2. /\ pc[p] = "acceder" /\ pagina[g].marco = Nada /\ pagina[g].ranura = Nada /\ upcm' = upcm
        /\ pagina' = pagina /\ Ir(p, "bit_libre", [l EXCEPT !.traido = Archivo, !.vuelta = "cargada"])
    BY <1>4, <2>1 DEF CargarMapeo, SinCargar, Esta, disco
  <2>3. ~Presente(g)
    BY <2>2, MuseSupuesto DEF MarcosInv, EnSuLugar
  <2>4. loc'[p].traido = Archivo /\ loc'[p].pag = g /\ Archivo # Nada
    <3>1. loc'[p] = [l EXCEPT !.traido = Archivo, !.vuelta = "cargada"]
      BY <2>2 DEF Ir, MarcosInv, MarcosTipo
    <3>2. Archivo \in Contenidos
      BY DEF Contenidos
    <3>3. QED
      BY <2>1, <3>1, <3>2, MuseSupuesto DEF MarcosInv, MarcosTipo, LocalBien, LocalVacio
  <2>5. l.traido = Nada
    BY <2>2, NadaEnViaje DEF EnCasa
  <2>6. Tiene(p, g) = Archivo /\ Tiene(p, g)' = Archivo
    BY <2>2, <2>3, <2>4, <2>5 DEF Tiene, Donde
  <2>7. \A h \in IdPaginas : h # g => Tiene(p, h)' = Tiene(p, h)
    BY <1>1, <2>2, <2>4, <2>5 DEF Tiene, Donde, Presente
  <2>8. QED
    BY <1>1, <2>6, <2>7, MismasPaginas
<1>5. CASE Traida(p) \/ Cargada(p)
  <2>1. pc[p] \in {"traida", "cargada"} /\ loc'[p] = l /\ upcm' = upcm
    BY <1>5 DEF Traida, Cargada, Esta, Ir, disco, MarcosInv, MarcosTipo
  <2>2. PICK g \in IdPaginas : g = l.pag
    BY <2>1 DEF MarcosInv, Manejador, PideMarco, Vueltas
  <2>3. \E y : pagina' = [pagina EXCEPT ![g] = y]
    BY <1>5, <2>2 DEF Traida, Cargada
  <2>4. l.traido # Nada
    BY <1>2, <2>1 DEF EnViaje, Vueltas, MarcosInv, Manejador, PideMarco
  <2>5. Tiene(p, g)' = Tiene(p, g)
    BY <2>1, <2>2, <2>4 DEF Tiene
  <2>6. \A h \in IdPaginas : h # g => Tiene(p, h)' = Tiene(p, h)
    <3>1. \A h \in IdPaginas : h # g => pagina'[h] = pagina[h]
      BY <2>3 DEF MarcosInv, MarcosTipo
    <3>2. \A h \in IdPaginas : h # g => Donde(h)' = Donde(h)
      BY <1>1, <2>1, <3>1 DEF Donde, Presente
    <3>3. QED
      BY <2>1, <3>2 DEF Tiene
  <2>7. QED
    BY <1>1, <2>5, <2>6, MismasPaginas
<1>6. CASE Pegar(p, "pegar", "usar") \/ Pegar(p, "pegar_mapeo", "obtener")
  <2>1. /\ pc[p] \in {"pegar", "pegar_mapeo"} /\ pagina' = pagina
        /\ upcm' = [upcm EXCEPT ![l.marco] = l.traido] /\ loc'[p] = [l EXCEPT !.traido = Nada]
    BY <1>6 DEF Pegar, Esta, Ir, MarcosInv, MarcosTipo
  <2>2. PICK g \in IdPaginas : g = l.pag
    BY <2>1 DEF MarcosInv, Manejador, UsaPagina
  <2>3. PICK m \in IdMarcos : m = l.marco /\ pagina[g].marco = m /\ Presente(g)
    BY <2>1, <2>2 DEF Traen, Trae, MarcosInv, EnSuLugar
  <2>4. l.traido # Nada /\ loc'[p].traido = Nada
    BY <1>2, <2>1 DEF EnViaje, MarcosInv, MarcosTipo, LocalBien, LocalVacio
  <2>5. upcm'[m] = l.traido /\ \A n \in IdMarcos : n # m => upcm'[n] = upcm[n]
    BY <2>1, <2>3 DEF Traen
  <2>6. Tiene(p, g)' = l.traido /\ Tiene(p, g) = l.traido
    BY <2>1, <2>2, <2>3, <2>4, <2>5 DEF Tiene, Donde, Presente
  <2>7. \A h \in IdPaginas : h # g => Tiene(p, h)' = Tiene(p, h)
    <3>1. \A h \in IdPaginas : h # g /\ Presente(h) => pagina[h].marco \in IdMarcos /\ pagina[h].marco # m
      BY <2>3 DEF MarcosInv, EnSuLugar
    <3>2. \A h \in IdPaginas : h # g => Donde(h)' = Donde(h)
      BY <1>1, <2>1, <2>5, <3>1 DEF Donde, Presente
    <3>3. QED
      BY <2>2, <2>4, <3>2 DEF Tiene
  <2>8. QED
    BY <1>1, <2>6, <2>7, MismasPaginas
<1>7. QED
  BY <1>3, <1>4, <1>5, <1>6

(* A step that moves no page and neither starts nor ends a journey. *)
Quietas(p) ==
  \/ EnMemoria(p) \/ Usar(p) \/ Crear(p) \/ TocarMetadatos(p) \/ EmpezarASoltar(p) \/ DevolverLugar(p)
  \/ HeapListo(p) \/ Acceder(p)

(* These steps change neither the pages listed nor what they hold. *)
LEMMA QuietasNoSeVen ==
  ASSUME UnSoloPrograma, MarcosInv, Traen, MarcosInv', Traen', NEW p \in Programas, Quietas(p)
  PROVE  Contenidas' = Contenidas /\ leido' = leido
<1>1. /\ UNCHANGED <<upcm, swap, tabla, leido>>
      /\ pc[p] \in EnCasa
  BY DEF Quietas, EnMemoria, Usar, Crear, TocarMetadatos, EmpezarASoltar, DevolverLugar, HeapListo, Acceder, Esta,
         disco, cuentas, EnCasa
<1>2. CASE ~Crear(p)
  <2>1. /\ pagina' = pagina
        /\ \E punto \in EnCasa : \E d : Ir(p, punto, d)
    <3>1. CASE Usar(p)
      <4>1. loc[p].luego \in EnCasa
        BY <3>1 DEF Usar, Esta, MarcosInv, Manejador, UsaPagina, EnCasa
      <4>2. QED
        BY <3>1, <4>1 DEF Usar
    <3>2. CASE ~Usar(p)
      BY <1>2, <3>2 DEF Quietas, EnMemoria, TocarMetadatos, EmpezarASoltar, DevolverLugar, HeapListo,
                        Acceder, Libre, EnCasa
    <3>3. QED
      BY <3>1, <3>2
  <2>2. pc'[p] \in EnCasa
    BY <2>1, IrA
  <2>3. loc[p].traido = Nada /\ loc'[p].traido = Nada
    BY <1>1, <2>2, NadaEnViaje, NadaEnViajeDespues
  <2>4. PaginasDe(p)' = PaginasDe(p)
    BY <1>1 DEF PaginasDe
  <2>5. QED
    BY <1>1, <2>1, <2>3, <2>4, MismosLugares
<1>3. CASE Crear(p)
  <2>1. pc[p] = "crear" /\ loc[p].i < loc[p].n
    BY <1>3 DEF Crear, Esta
  <2>2. loc[p].n \in Nat /\ loc[p].i \in Nat /\ loc[p].n <= Marcos + 1
    BY <2>1 DEF MarcosInv, MarcosTipo, LocalBien, Manejador, DaDeAlta
  <2>3. Ir(p, "bit_libre", [loc[p] EXCEPT !.pag = PagNueva(p), !.vuelta = "creada"]) /\ pagina' = pagina
    BY <1>3, <2>1, <2>2, MuseSupuesto DEF Crear
  <2>4. pc'[p] = "bit_libre" /\ loc'[p].vuelta = "creada"
    <3>1. pc'[p] = "bit_libre" /\ loc'[p] = [loc[p] EXCEPT !.pag = PagNueva(p), !.vuelta = "creada"]
      BY <2>3, IrA
    <3>2. QED
      BY <3>1 DEF MarcosInv, MarcosTipo, LocalBien, LocalVacio
  <2>5. loc[p].traido = Nada /\ loc'[p].traido = Nada
    BY <1>1, <2>4, NadaEnViaje, NadaEnViajeDespues
  <2>6. PaginasDe(p)' = PaginasDe(p)
    BY <1>1 DEF PaginasDe
  <2>7. QED
    BY <1>1, <2>3, <2>5, <2>6, MismosLugares
<1>4. QED
  BY <1>2, <1>3

(* A page that the program has not, or has no more, gets or leaves a place. *)
LEMMA AjenaNoSeVe ==
  ASSUME UnSoloPrograma, MarcosInv, Cuenta, Traen, MarcosInv', Traen', NEW p \in Programas,
         Creada(p) \/ DestruirPagina(p)
  PROVE  Contenidas' = Contenidas /\ leido' = leido
<1>1. UNCHANGED <<upcm, swap, tabla, leido>> /\ pc[p] \in {"creada", "destruir"}
  BY DEF Creada, DestruirPagina, Esta, disco, cuentas
<1>2. PICK g \in IdPaginas : g = loc[p].pag
  BY <1>1 DEF MarcosInv, Manejador, PideMarco, UsaPagina, Vueltas
<1>3. g \notin PaginasDe(p)
  <2>1. g \notin EnUso(p)
    <3>1. CASE pc[p] = "creada"
      <4>1. loc[p].forma # Nada /\ g # Nada
        BY <1>2, <3>1, MuseSupuesto DEF MarcosInv, Manejador, DaDeAlta
      <4>2. QED
        BY <1>2, <4>1, CuentaDe DEF Alta
    <3>2. CASE pc[p] = "destruir"
      BY <1>2, <3>2, CuentaDe DEF Alta
    <3>3. QED
      BY <1>1, <3>1, <3>2
  <2>2. QED
    BY <2>1 DEF EnUso
<1>4. \A h \in IdPaginas : h # g => pagina'[h] = pagina[h]
  <2>1. CASE Creada(p)
    BY <1>2, <2>1 DEF Creada, MarcosInv, MarcosTipo
  <2>2. CASE DestruirPagina(p)
    BY <1>2, <2>2 DEF DestruirPagina, Destruir
  <2>3. QED
    BY <2>1, <2>2
<1>5. pc'[p] \in {"obtener", "agregar", "soltar"}
  <2>1. \E punto \in {"obtener", "agregar", "soltar"} : \E d : Ir(p, punto, d)
    BY DEF Creada, SeguirCreando, DestruirPagina
  <2>2. QED
    BY <2>1, IrA
<1>6. loc[p].traido = Nada /\ loc'[p].traido = Nada
  BY <1>1, <1>5, NadaEnViaje, NadaEnViajeDespues DEF EnCasa
<1>7. PaginasDe(p)' = PaginasDe(p) /\ PaginasDe(p) \subseteq IdPaginas
  BY <1>1, Listadas DEF PaginasDe, MarcosInv
<1>8. \A h \in PaginasDe(p) : Tiene(p, h)' = Tiene(p, h)
  <2>1. \A h \in PaginasDe(p) : pagina'[h] = pagina[h]
    BY <1>3, <1>4, <1>7
  <2>2. QED
    BY <1>1, <1>6, <2>1 DEF Tiene, Donde, Presente
<1>9. QED
  BY <1>1, <1>7, <1>8, MismasPaginas

-----------------------------------------------------------------------------
(* The steps that a program sees, each as its action of the memory of pages.   *)

(* A request begins: what the last muse_get was answered is forgotten. *)
LEMMA EmpezarEsPedir ==
  ASSUME UnSoloPrograma, MarcosInv, Traen, MarcosInv', Traen', NEW p \in Programas,
         EmpezarAlta(p) \/ EmpezarHeap(p) \/ EmpezarAcceso(p)
  PROVE  Memoria!Pedir(p)
<1>1. /\ UNCHANGED <<upcm, swap, tabla, pagina>> /\ leido' = [leido EXCEPT ![p] = Nada] /\ pc[p] = "libre"
      /\ \E punto \in {"crear", "metadatos", "acceder"} : \E d : Ir(p, punto, d)
  BY DEF EmpezarAlta, EmpezarHeap, EmpezarAcceso, Esta, disco
<1>2. pc'[p] \in {"crear", "metadatos", "acceder"}
  BY <1>1, IrA
<1>3. loc[p].traido = Nada /\ loc'[p].traido = Nada
  BY <1>1, <1>2, NadaEnViaje, NadaEnViajeDespues DEF EnCasa
<1>4. PaginasDe(p)' = PaginasDe(p)
  BY <1>1 DEF PaginasDe
<1>5. Contenidas' = Contenidas
  BY <1>1, <1>3, <1>4, MismosLugares
<1>6. QED
  BY <1>1, <1>5 DEF Memoria!Pedir, Contenidas

(* The pages of an allocation, when they are listed, hold something. *)
LEMMA ListarEsCrear ==
  ASSUME UnSoloPrograma, MarcosInv, Traen, MarcosInv', Traen', NEW p \in Programas,
         UNCHANGED <<pagina, upcm, swap, leido>>, loc[p].traido = Nada, loc'[p].traido = Nada,
         PaginasDe(p) \subseteq PaginasDe(p)'
  PROVE  \E gs \in SUBSET IdPaginas : Memoria!Crear(gs)
<1>1. PICK nuevas : nuevas = PaginasDe(p)'
  OBVIOUS
<1> DEFINE gs == nuevas \ Memoria!Existen
<1>2. Memoria!Existen = PaginasDe(p) /\ PaginasDe(p) \subseteq IdPaginas
  BY ExistenLasDelPrograma
<1>3. nuevas \subseteq IdPaginas
  <2>1. \A s \in DOMAIN tabla'[p] : tabla'[p][s].paginas \in Seq(IdPaginas)
    <3>1. tabla'[p] \in Seq(Segmentos)
      BY DEF MarcosInv, MarcosTipo
    <3>2. \A s \in DOMAIN tabla'[p] : tabla'[p][s] \in Segmentos
      BY <3>1, ElementOfSeq
    <3>3. QED
      BY <3>2 DEF Segmentos
  <2>2. \A s \in DOMAIN tabla'[p] : Range(tabla'[p][s].paginas) \subseteq IdPaginas
    BY <2>1, ElementOfSeq DEF Range
  <2>3. QED
    BY <1>1, <2>2 DEF PaginasDe
<1>4. PICK f : f = [g \in gs |-> Contenidas'[g]]
  OBVIOUS
<1>5. \A g \in gs : g \in IdPaginas /\ Contenidas'[g] = Tiene(p, g)' /\ Tiene(p, g)' \in Contenidos
  <2>1. ASSUME NEW g \in gs PROVE g \in IdPaginas /\ Contenidas'[g] = Contenido(g)'
    BY <1>3 DEF Contenidas
  <2>2. ASSUME NEW g \in gs PROVE Contenido(g)' = Tiene(p, g)'
    BY <1>1, ContenidoDeUno
  <2>3. QED
    BY <2>1, <2>2, TieneAlgoDespues
<1>6. \A g \in IdPaginas : g \notin gs => Contenido(g)' = Contenido(g)
  <2>1. ASSUME NEW g \in IdPaginas, g \in PaginasDe(p) PROVE Contenido(g)' = Contenido(g)
    <3>1. Tiene(p, g)' = Tiene(p, g)
      BY DEF Tiene, Donde, Presente
    <3>2. g \in PaginasDe(p)'
      BY <2>1
    <3>3. QED
      BY <2>1, <3>1, <3>2, ContenidoDeUno
  <2>2. ASSUME NEW g \in IdPaginas, g \notin PaginasDe(p), g \notin nuevas PROVE Contenido(g)' = Contenido(g)
    BY <1>1, <2>2, ContenidoDeUno
  <2>3. QED
    BY <1>2, <2>1, <2>2
<1>7. f \in [gs -> Contenidos] /\ gs \in SUBSET IdPaginas /\ gs \cap Memoria!Existen = {}
  BY <1>3, <1>4, <1>5
<1>8. Contenidas' = [g \in IdPaginas |-> IF g \in gs THEN f[g] ELSE Contenidas[g]]
  BY <1>4, <1>6 DEF Contenidas
<1> HIDE DEF gs
<1>9. Memoria!Crear(gs)
  BY <1>7, <1>8 DEF Memoria!Crear, Contenidas
<1>10. QED
  BY <1>7, <1>9

(* A page is listed, or the segment of an allocation is: what is listed begins to hold. *)
LEMMA AgregarEsCrear ==
  ASSUME UnSoloPrograma, MarcosInv, Traen, MarcosInv', Traen', NEW p \in Programas,
         Agregar(p) \/ AltaHecha(p)
  PROVE  (Contenidas' = Contenidas /\ leido' = leido) \/ \E gs \in SUBSET IdPaginas : Memoria!Crear(gs)
<1> DEFINE l == loc[p]
<1>1. /\ UNCHANGED <<pagina, upcm, swap, leido>> /\ pc[p] \in {"agregar", "crear"}
      /\ \E punto \in {"crear", "libre", "metadatos"} : \E d : Ir(p, punto, d)
  BY DEF Agregar, AltaHecha, Libre, Esta, disco
<1>2. pc'[p] \in {"crear", "libre", "metadatos"}
  BY <1>1, IrA
<1>3. loc[p].traido = Nada /\ loc'[p].traido = Nada
  BY <1>1, <1>2, NadaEnViaje, NadaEnViajeDespues DEF EnCasa
<1>4. CASE tabla' = tabla
  <2>1. PaginasDe(p)' = PaginasDe(p)
    BY <1>4 DEF PaginasDe
  <2>2. QED
    BY <1>1, <1>3, <2>1, MismosLugares
<1>5. tabla[p] \in Seq(Segmentos)
  BY DEF MarcosInv, MarcosTipo
<1>6. PaginasDe(p) = PaginasEn(tabla[p]) /\ PaginasDe(p)' = PaginasEn(tabla'[p])
  BY PaginasDeTabla
<1>7. CASE Agregar(p) /\ l.forma # "segmento"
  <2> DEFINE ps == tabla[p][l.seg].paginas
             nuevo == [mmapeado |-> tabla[p][l.seg].mmapeado, paginas |-> Append(ps, l.pag)]
  <2>1. l.pag \in IdPaginas /\ l.seg \in DOMAIN tabla[p]
    BY <1>7, MuseSupuesto DEF Agregar, Esta, MarcosInv, MarcosTipo, LocalBien, Manejador, DaDeAlta, UsaPagina, Formas
  <2>2. tabla[p][l.seg] \in Segmentos /\ ps \in Seq(IdPaginas)
    BY <2>1, SegmentoDeTabla DEF MarcosInv
  <2>3. Append(ps, l.pag) \in Seq(IdPaginas) /\ Range(ps) \subseteq Range(Append(ps, l.pag))
    BY <2>1, <2>2, AgregarALista
  <2>4. nuevo \in Segmentos /\ Range(ps) \subseteq Range(nuevo.paginas)
    BY <2>2, <2>3 DEF Segmentos
  <2>5. tabla'[p] = [tabla[p] EXCEPT ![l.seg] = nuevo]
    BY <1>7 DEF Agregar, ConPaginas, MarcosInv, MarcosTipo
  <2> HIDE DEF nuevo
  <2>6. /\ Range(nuevo.paginas) \subseteq PaginasEn([tabla[p] EXCEPT ![l.seg] = nuevo])
        /\ PaginasEn(tabla[p]) \subseteq PaginasEn([tabla[p] EXCEPT ![l.seg] = nuevo]) \cup Range(ps)
    <3>1. tabla[p] \in Seq(Segmentos) /\ l.seg \in DOMAIN tabla[p] /\ nuevo \in Segmentos
      BY <1>5, <2>1, <2>4
    <3>2. /\ Range(nuevo.paginas) \subseteq PaginasEn([tabla[p] EXCEPT ![l.seg] = nuevo])
          /\ PaginasEn(tabla[p]) \subseteq PaginasEn([tabla[p] EXCEPT ![l.seg] = nuevo])
                                             \cup Range(tabla[p][l.seg].paginas)
      BY ONLY <3>1, SegmentoCambiado
    <3>3. QED
      BY <3>2
  <2>7. PaginasDe(p) \subseteq PaginasDe(p)'
    <3> HIDE DEF ps
    <3>1. QED
      BY <1>6, <2>4, <2>5, <2>6
  <2>8. QED
    BY <1>1, <1>3, <2>7, ListarEsCrear
<1>8. CASE AltaHecha(p) /\ l.forma = "segmento"
  <2> DEFINE s == [mmapeado |-> FALSE, paginas |-> l.nuevas]
  <2>1. tabla'[p] = Append(tabla[p], s)
    BY <1>8 DEF AltaHecha, MarcosInv, MarcosTipo
  <2>2. s \in Segmentos
    BY DEF Segmentos, MarcosInv, MarcosTipo, LocalBien
  <2> HIDE DEF s
  <2>3. PaginasEn(tabla[p]) \subseteq PaginasEn(Append(tabla[p], s))
    BY <1>5, <2>2, SegmentoAgregado
  <2>4. PaginasDe(p) \subseteq PaginasDe(p)'
    BY <1>6, <2>1, <2>3
  <2>5. QED
    BY <1>1, <1>3, <2>4, ListarEsCrear
<1>9. QED
  <2>1. Agregar(p) /\ l.forma = "segmento" => tabla' = tabla
    BY DEF Agregar
  <2>2. AltaHecha(p) /\ l.forma # "segmento" => tabla' = tabla
    BY DEF AltaHecha
  <2>3. QED
    BY <1>4, <1>7, <1>8, <2>1, <2>2

(* muse_map gives the program a page that holds what its file does. *)
LEMMA MapearEsMapear ==
  ASSUME UnSoloPrograma, MarcosInv, Traen, NEW p \in Programas, Mapear(p)
  PROVE  \E g \in IdPaginas : Memoria!Mapear(g)
<1>1. PICK g : g = PagNueva(p)
  OBVIOUS
<1>2. /\ pc[p] = "libre" /\ SinUsar(p) # {} /\ UNCHANGED <<upcm, swap, pc, loc>>
      /\ leido' = [leido EXCEPT ![p] = Nada] /\ pagina' = [pagina EXCEPT ![g] = PaginaVacia]
      /\ tabla' = [tabla EXCEPT ![p] = Append(tabla[p], [mmapeado |-> TRUE, paginas |-> <<g>>])]
  BY <1>1 DEF Mapear, Esta, disco
<1>3. g \in IdPaginas /\ g \notin PaginasDe(p)
  BY <1>1, <1>2, NuevaSinUsar DEF EnUso
<1>4. PaginasDe(p)' = PaginasDe(p) \cup {g}
  <2> DEFINE s == [mmapeado |-> TRUE, paginas |-> <<g>>]
  <2>1. tabla[p] \in Seq(Segmentos)
    BY DEF MarcosInv, MarcosTipo
  <2>2. s \in Segmentos /\ Range(s.paginas) = {g}
    BY <1>3 DEF Segmentos, Range
  <2>3. tabla'[p] = Append(tabla[p], s)
    BY <1>2 DEF MarcosInv, MarcosTipo
  <2> HIDE DEF s
  <2>4. PaginasEn(Append(tabla[p], s)) = PaginasEn(tabla[p]) \cup {g}
    BY <2>1, <2>2, SegmentoAgregado
  <2>5. QED
    BY <2>3, <2>4, PaginasDeTabla
<1>5. loc[p].traido = Nada /\ loc'[p].traido = Nada
  BY <1>2, NadaEnViaje DEF EnCasa
<1>6. /\ pagina'[g] = PaginaVacia /\ \A h \in IdPaginas : h # g => pagina'[h] = pagina[h]
  BY <1>2, <1>3 DEF MarcosInv, MarcosTipo
<1>7. Contenido(g)' = Archivo
  <2>1. Tiene(p, g)' = Archivo
    BY <1>5, <1>6 DEF Tiene, Donde, Presente, PaginaVacia
  <2>2. g \in PaginasDe(p)'
    BY <1>4
  <2>3. QED
    BY <2>1, <2>2, ContenidoDeUno
<1>8. ASSUME NEW h \in IdPaginas, h # g PROVE Contenido(h)' = Contenido(h)
  <2>1. Tiene(p, h)' = Tiene(p, h)
    BY <1>2, <1>5, <1>6, <1>8 DEF Tiene, Donde, Presente
  <2>2. (h \in PaginasDe(p)') <=> h \in PaginasDe(p)
    BY <1>4, <1>8
  <2>3. QED
    BY <2>1, <2>2, ContenidoDeUno
<1>9. Contenidas' = [Contenidas EXCEPT ![g] = Archivo]
  BY <1>3, <1>7, <1>8 DEF Contenidas
<1>10. g \notin Memoria!Existen
  BY <1>3, ExistenLasDelPrograma
<1>11. Memoria!Mapear(g)
  BY <1>2, <1>9, <1>10 DEF Memoria!Mapear, Contenidas
<1>12. QED
  BY <1>3, <1>11

(* The pages that are no longer listed are gone, and the others hold what they held. *)
LEMMA SacarEsBorrar ==
  ASSUME UnSoloPrograma, MarcosInv, Traen, NEW p \in Programas, UNCHANGED <<upcm, swap>>,
         leido' = leido \/ leido' = [leido EXCEPT ![p] = Nada], loc[p].traido = Nada, loc'[p].traido = Nada,
         PaginasDe(p)' \subseteq PaginasDe(p), \A g \in PaginasDe(p)' : pagina'[g] = pagina[g]
  PROVE  \E gs \in SUBSET IdPaginas : Memoria!Borrar(gs)
<1>1. PICK quedan : quedan = PaginasDe(p)'
  OBVIOUS
<1>2. PICK gs : gs = PaginasDe(p) \ quedan
  OBVIOUS
<1>3. gs \in SUBSET IdPaginas
  BY <1>2, Listadas DEF MarcosInv
<1>4. ASSUME NEW g \in IdPaginas PROVE Contenido(g)' = IF g \in gs THEN Nada ELSE Contenido(g)
  <2>1. CASE g \in PaginasDe(p)'
    <3>1. Tiene(p, g)' = Tiene(p, g)
      BY <2>1 DEF Tiene, Donde, Presente
    <3>2. g \in PaginasDe(p) /\ g \notin gs
      BY <1>1, <1>2, <2>1
    <3>3. QED
      BY <2>1, <3>1, <3>2, ContenidoDeUno
  <2>2. CASE g \notin PaginasDe(p)'
    <3>1. g \in gs <=> g \in PaginasDe(p)
      BY <1>1, <1>2, <2>2
    <3>2. QED
      BY <2>2, <3>1, ContenidoDeUno
  <2>3. QED
    BY <2>1, <2>2
<1>5. Contenidas' = [g \in IdPaginas |-> IF g \in gs THEN Nada ELSE Contenidas[g]]
  BY <1>4 DEF Contenidas
<1>6. Memoria!Borrar(gs)
  BY <1>5 DEF Memoria!Borrar, Contenidas
<1>7. QED
  BY <1>3, <1>6

(* The pages of a segment are in no other one. *)
LEMMA SegmentoSacadoDisjunto ==
  ASSUME NEW segs \in Seq(Segmentos), NEW k \in DOMAIN segs, SinRepetidas(segs)
  PROVE  PaginasEn(RemoveAt(segs, k)) \cap Range(segs[k].paginas) = {}
<1> DEFINE n == Len(segs)
           otros == RemoveAt(segs, k)
           de(j) == IF j < k THEN j ELSE j + 1
<1>1. n \in Nat /\ DOMAIN segs = 1..n /\ k \in 1..n
  OBVIOUS
<1>2. DOMAIN otros = 1..(n - 1) /\ \A j \in 1..(n - 1) : otros[j] = segs[de(j)]
  BY PosicionesAlSacar
<1> HIDE DEF n, otros
<1>3. \A j \in 1..(n - 1) : de(j) \in 1..n /\ de(j) # k
  BY <1>1
<1> HIDE DEF de
<1>4. ASSUME NEW j \in DOMAIN otros PROVE Range(otros[j].paginas) \cap Range(segs[k].paginas) = {}
  <2>1. de(j) \in DOMAIN segs /\ de(j) # k /\ otros[j] = segs[de(j)]
    BY <1>1, <1>2, <1>3
  <2>2. QED
    BY <2>1 DEF SinRepetidas
<1>5. ASSUME NEW t \in Range(otros) PROVE Range(t.paginas) \cap Range(segs[k].paginas) = {}
  <2>1. PICK j \in DOMAIN otros : t = otros[j]
    BY DEF Range
  <2>2. QED
    BY <1>4, <2>1
<1>6. PaginasEn(otros) \cap Range(segs[k].paginas) = {}
  BY <1>5 DEF PaginasEn
<1>7. QED
  BY <1>6 DEF otros

(* A free, an unmap or a close lists its pages no more, and the rest hold what they held. *)
LEMMA QuitarEsBorrar ==
  ASSUME UnSoloPrograma, MarcosInv, Cuenta, Traen, MarcosInv', Traen', NEW p \in Programas,
         QuitarDeLaLista(p) \/ Desmapear(p) \/ Cerrar(p)
  PROVE  \E gs \in SUBSET IdPaginas : Memoria!Borrar(gs)
<1> DEFINE l == loc[p]
<1>1. /\ UNCHANGED <<upcm, swap>> /\ (leido' = leido \/ leido' = [leido EXCEPT ![p] = Nada])
      /\ pc[p] \in {"soltar", "libre"} /\ tabla[p] \in Seq(Segmentos) /\ SinRepetidas(tabla[p])
      /\ PaginasDe(p) \subseteq IdPaginas
  BY CuentaDe, Listadas DEF QuitarDeLaLista, Desmapear, Cerrar, Esta, disco, MarcosInv, MarcosTipo
<1>2. pc'[p] \in {"destruir", "libre"}
  <2>1. CASE QuitarDeLaLista(p)
    BY <2>1, IrA DEF QuitarDeLaLista
  <2>2. CASE Desmapear(p) \/ Cerrar(p)
    BY <2>2 DEF Desmapear, Cerrar, Esta
  <2>3. QED
    BY <2>1, <2>2
<1>3. loc[p].traido = Nada /\ loc'[p].traido = Nada
  BY <1>1, <1>2, NadaEnViaje, NadaEnViajeDespues DEF EnCasa
<1>4. PaginasDe(p) = PaginasEn(tabla[p]) /\ PaginasDe(p)' = PaginasEn(tabla'[p])
  BY PaginasDeTabla
<1>5. CASE QuitarDeLaLista(p)
  <2> DEFINE ps == tabla[p][l.seg].paginas
             nuevo == [mmapeado |-> tabla[p][l.seg].mmapeado, paginas |-> RemoveAt(ps, l.i)]
  <2>1. l.i \in DOMAIN ps /\ l.seg \in DOMAIN tabla[p] /\ pagina' = pagina
    BY <1>5, SinPagina DEF QuitarDeLaLista, Esta
  <2>2. ps \in Seq(IdPaginas) /\ SinRepetir(ps)
    BY <1>1, <2>1, SegmentoDeTabla DEF MarcosInv, SinRepetidas
  <2>3. Range(RemoveAt(ps, l.i)) \subseteq Range(ps)
    <3> HIDE DEF ps
    <3>1. QED
      BY <2>1, <2>2, SacarDeListaSinRepetir
  <2>4. tabla'[p] = [tabla[p] EXCEPT ![l.seg] = nuevo] /\ Range(nuevo.paginas) \subseteq Range(ps)
    BY <1>5, <2>3 DEF QuitarDeLaLista, ConPaginas, MarcosInv, MarcosTipo
  <2>5. ASSUME NEW s \in DOMAIN tabla'[p]
        PROVE  s \in DOMAIN tabla[p] /\ Range(tabla'[p][s].paginas) \subseteq Range(tabla[p][s].paginas)
    <3> HIDE DEF nuevo
    <3>1. s \in DOMAIN tabla[p]
      BY <2>4
    <3>2. CASE s = l.seg
      BY <2>1, <2>4, <3>2
    <3>3. CASE s # l.seg
      <4>1. tabla'[p][s] = tabla[p][s]
        BY <2>4, <3>1, <3>3
      <4>2. QED
        BY <3>1, <4>1
    <3>4. QED
      BY <3>1, <3>2, <3>3
  <2>6. PaginasDe(p)' \subseteq PaginasDe(p)
    <3>1. ASSUME NEW g \in PaginasDe(p)' PROVE g \in PaginasDe(p)
      <4>1. PICK s \in DOMAIN tabla'[p] : g \in Range(tabla'[p][s].paginas)
        BY DEF PaginasDe
      <4>2. QED
        BY <2>5, <4>1 DEF PaginasDe
    <3>2. QED
      BY <3>1
  <2>7. QED
    BY <1>1, <1>3, <2>1, <2>6, SacarEsBorrar
<1>6. CASE Desmapear(p)
  <2>1. PICK s \in DOMAIN tabla[p] :
          tabla' = [tabla EXCEPT ![p] = RemoveAt(tabla[p], s)] /\ Destruir(Range(tabla[p][s].paginas))
    BY <1>6 DEF Desmapear
  <2>2. /\ PaginasEn(RemoveAt(tabla[p], s)) \subseteq PaginasEn(tabla[p])
        /\ PaginasEn(RemoveAt(tabla[p], s)) \cap Range(tabla[p][s].paginas) = {}
    BY <1>1, SegmentoSacadoAparte, SegmentoSacadoDisjunto
  <2>3. PaginasDe(p)' = PaginasEn(RemoveAt(tabla[p], s))
    BY <1>4, <2>1 DEF MarcosInv, MarcosTipo
  <2>4. \A g \in PaginasDe(p)' : pagina'[g] = pagina[g]
    <3>1. \A g \in IdPaginas : g \notin Range(tabla[p][s].paginas) => pagina'[g] = pagina[g]
      BY <2>1 DEF Destruir
    <3>2. QED
      BY <1>1, <1>4, <2>2, <2>3, <3>1
  <2>5. PaginasDe(p)' \subseteq PaginasDe(p)
    BY <1>4, <2>2, <2>3
  <2>6. QED
    BY <1>1, <1>3, <2>4, <2>5, SacarEsBorrar
<1>7. CASE Cerrar(p)
  <2>1. tabla'[p] = <<>>
    BY <1>7 DEF Cerrar, MarcosInv, MarcosTipo
  <2>2. PaginasDe(p)' = {}
    BY <2>1 DEF PaginasDe
  <2>3. QED
    BY <1>1, <1>3, <2>2, SacarEsBorrar
<1>8. QED
  BY <1>5, <1>6, <1>7

(* muse_get answers what the page holds. *)
LEMMA LeerEsLeer ==
  ASSUME UnSoloPrograma, MarcosInv, Traen, NEW p \in Programas, Leer(p)
  PROVE  \E g \in IdPaginas : Memoria!Leer(p, g)
<1>1. PICK g \in IdPaginas : g = loc[p].pag
  BY DEF Leer, Esta, MarcosInv, Manejador, UsaPagina
<1>2. /\ pc[p] = "copiar" /\ UNCHANGED <<upcm, swap, tabla>> /\ leido' = [leido EXCEPT ![p] = upcm[loc[p].marco]]
      /\ Ir(p, "libre", LocalVacio)
  BY DEF Leer, Esta, disco, Libre
<1>3. pagina' = pagina
  BY LeerDejaLaPagina
<1>4. loc[p].traido = Nada /\ loc'[p].traido = Nada
  <2>1. loc'[p] = LocalVacio
    BY <1>2, IrA
  <2>2. QED
    BY <1>2, <2>1, NadaEnViaje DEF EnCasa, LocalVacio
<1>5. g \in PaginasDe(p)
  BY <1>1, <1>2, MuseSupuesto DEF MarcosInv, Manejador, UsaPagina
<1>6. Presente(g) /\ loc[p].marco = pagina[g].marco
  BY <1>1, <1>2 DEF Traen, Trae
<1>7. Contenidas[g] = upcm[loc[p].marco]
  <2>1. Tiene(p, g) = upcm[loc[p].marco]
    BY <1>4, <1>6 DEF Tiene, Donde
  <2>2. QED
    BY <1>5, <2>1, ContenidoDeUno DEF Contenidas
<1>8. Contenidas' = Contenidas
  <2>1. PaginasDe(p)' = PaginasDe(p)
    BY <1>2 DEF PaginasDe
  <2>2. QED
    BY <1>2, <1>3, <1>4, <2>1, MismosLugares
<1>9. g \in Memoria!Existen
  BY <1>5, ExistenLasDelPrograma
<1>10. Memoria!Leer(p, g)
  BY <1>2, <1>7, <1>8, <1>9 DEF Memoria!Leer, Contenidas
<1>11. QED
  BY <1>10

(* muse_cpy changes the page it copies to and no other. *)
LEMMA EscribirEsEscribir ==
  ASSUME UnSoloPrograma, MarcosInv, Traen, NEW p \in Programas, Escribir(p)
  PROVE  \E g \in IdPaginas : Memoria!Escribir(g)
<1>1. PICK g \in IdPaginas : g = loc[p].pag
  BY DEF Escribir, Esta, MarcosInv, Manejador, UsaPagina
<1>2. /\ pc[p] = "copiar" /\ UNCHANGED <<pagina, swap, tabla, leido>> /\ loc[p].valor # Nada
      /\ upcm' = [upcm EXCEPT ![loc[p].marco] = loc[p].valor] /\ Ir(p, "libre", LocalVacio)
  BY DEF Escribir, Esta, cuentas, Libre
<1>3. PICK v \in Contenidos : v = loc[p].valor
  BY <1>2 DEF Traen, Trae, ONada, Contenidos
<1>4. loc[p].traido = Nada /\ loc'[p].traido = Nada
  <2>1. loc'[p] = LocalVacio
    BY <1>2, IrA
  <2>2. QED
    BY <1>2, <2>1, NadaEnViaje DEF EnCasa, LocalVacio
<1>5. g \in PaginasDe(p) /\ PaginasDe(p)' = PaginasDe(p)
  BY <1>1, <1>2, MuseSupuesto DEF MarcosInv, Manejador, UsaPagina, PaginasDe
<1>6. PICK m \in IdMarcos : m = loc[p].marco /\ pagina[g].marco = m /\ Presente(g)
  BY <1>1, <1>2 DEF Traen, Trae, MarcosInv, EnSuLugar
<1>7. upcm'[m] = v /\ \A n \in IdMarcos : n # m => upcm'[n] = upcm[n]
  BY <1>2, <1>3, <1>6 DEF Traen
<1>8. Contenido(g)' = v
  <2>1. Tiene(p, g)' = v
    BY <1>2, <1>4, <1>6, <1>7 DEF Tiene, Donde, Presente
  <2>2. QED
    BY <1>5, <2>1, ContenidoDeUno
<1>9. ASSUME NEW h \in IdPaginas, h # g PROVE Contenido(h)' = Contenido(h)
  <2>1. Presente(h) => pagina[h].marco \in IdMarcos /\ pagina[h].marco # m
    BY <1>6, <1>9 DEF MarcosInv, EnSuLugar
  <2>2. Tiene(p, h)' = Tiene(p, h)
    BY <1>2, <1>4, <1>7, <2>1 DEF Tiene, Donde, Presente
  <2>3. QED
    BY <1>5, <2>2, ContenidoDeUno
<1>10. Contenidas' = [Contenidas EXCEPT ![g] = v]
  BY <1>8, <1>9 DEF Contenidas
<1>11. g \in Memoria!Existen
  BY <1>5, ExistenLasDelPrograma
<1>12. Memoria!Escribir(g)
  BY <1>2, <1>10, <1>11 DEF Memoria!Escribir, Contenidas
<1>13. QED
  BY <1>12

(* Every step is one of the memory of pages, or changes nothing that it shows. *)
LEMMA PasoDePaginas ==
  ASSUME UnSoloPrograma, ReservaInv, ReservaInv', NEW p \in Programas,
         AsignarMarco(p) \/ ObtenerPuntero(p) \/ Pedido(p)
  PROVE  Memoria!MemoriaNext \/ (Contenidas' = Contenidas /\ leido' = leido)
<1> USE DEF ReservaInv
<1>1. CASE AsignarMarco(p)
  BY <1>1, BusquedaNoSeVe
<1>2. CASE \/ TraerDeSwap(p) \/ CargarMapeo(p) \/ Traida(p) \/ Cargada(p)
           \/ Pegar(p, "pegar", "usar") \/ Pegar(p, "pegar_mapeo", "obtener")
  BY <1>2, TraerNoSeVe
<1>3. CASE Quietas(p)
  BY <1>3, QuietasNoSeVen
<1>4. CASE Creada(p) \/ DestruirPagina(p)
  BY <1>4, AjenaNoSeVe
<1>5. CASE EmpezarAlta(p) \/ EmpezarHeap(p) \/ EmpezarAcceso(p)
  BY <1>5, EmpezarEsPedir DEF Memoria!MemoriaNext
<1>6. CASE Agregar(p) \/ AltaHecha(p)
  BY <1>6, AgregarEsCrear DEF Memoria!MemoriaNext
<1>7. CASE Mapear(p)
  BY <1>7, MapearEsMapear DEF Memoria!MemoriaNext
<1>8. CASE QuitarDeLaLista(p) \/ Desmapear(p) \/ Cerrar(p)
  BY <1>8, QuitarEsBorrar DEF Memoria!MemoriaNext
<1>9. CASE Leer(p) \/ Escribir(p)
  BY <1>9, LeerEsLeer, EscribirEsEscribir DEF Memoria!MemoriaNext
<1>10. QED
  BY <1>1, <1>2, <1>3, <1>4, <1>5, <1>6, <1>7, <1>8, <1>9 DEF ObtenerPuntero, Pedido, Quietas

(* With the same program MUSE is the memory of pages that it promises: muse_get    *)
(* answers what muse_cpy last put in the page, or what its file holds, whatever   *)
(* the clock moved in between, and no request changes a page but its own.         *)
THEOREM ImplementaPaginasConUno == UnSoloPrograma /\ AltasCortas => (MuseSpec => ImplementaPaginas)
<1> SUFFICES ASSUME UnSoloPrograma, AltasCortas PROVE MuseSpec => ImplementaPaginas
  OBVIOUS
<1>1. MuseInit => Memoria!MemoriaInit
  <2> SUFFICES ASSUME MuseInit PROVE Memoria!MemoriaInit
    OBVIOUS
  <2>1. Visibles = {}
    BY DEF MuseInit, Visibles, PaginasDe
  <2>2. \A g \in IdPaginas : Contenido(g) = Nada
    BY <2>1 DEF Contenido
  <2>3. QED
    BY <2>2 DEF MuseInit, Memoria!MemoriaInit
<1>2. ReservaInv /\ [MuseNext]_museVars => ReservaInv'
  BY ReservaSePreserva
<1>3. ReservaInv /\ ReservaInv' /\ [MuseNext]_museVars => [Memoria!MemoriaNext]_(Memoria!memoriaVars)
  <2> SUFFICES ASSUME ReservaInv, ReservaInv', [MuseNext]_museVars
               PROVE  Memoria!MemoriaNext \/ (Contenidas' = Contenidas /\ leido' = leido)
    BY DEF Memoria!memoriaVars, Contenidas
  <2>1. CASE UNCHANGED museVars
    <3>1. \A g \in IdPaginas : Contenido(g)' = Contenido(g)
      BY <2>1 DEF museVars, Contenido, Visibles, PaginasDe, EnTransito
    <3>2. QED
      BY <2>1, <3>1 DEF museVars, Contenidas
  <2>2. CASE MuseNext
    BY <2>2, PasoDePaginas DEF MuseNext
  <2>3. QED
    BY <2>1, <2>2
<1>4. QED
  BY <1>1, <1>2, <1>3, ReservaInicial, PTL DEF MuseSpec, ImplementaPaginas, Memoria!MemoriaSpec

=============================================================================
