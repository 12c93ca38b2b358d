------------------------- MODULE MuseProgramasProofs -------------------------
(***************************************************************************)
(* For any programs, files and sizes: the two mutexes that the handlers of   *)
(* MUSE keep from one step to the next, the counts of the mappings, and the  *)
(* places of the segments of each program.                                   *)
(***************************************************************************)
EXTENDS MuseProgramas, FiniteSetTheorems, SequenceTheorems, WellFoundedInduction, TLAPS

(* The critical sections that take another mutex, or do more than one step. *)
Bajando  == {"quitar"}
Cerrando == {"cerrar", "descontar", "olvidar"}

(* Who is in one of them holds its mutex, and nobody else does. *)
CandadosDeSuDueno ==
  \A p \in Programas :
    /\ pc[p] \in Bajando  <=> mutexMapeo = p
    /\ pc[p] \in Cerrando <=> mutexProgramas = p

CandadosInv == pc \in [Programas -> Puntos] /\ CandadosDeSuDueno

LEMMA CandadosInicial == SegmentosInit => CandadosInv
  BY SegmentosSupuesto
  DEF SegmentosInit, CandadosInv, CandadosDeSuDueno, Puntos, Bajando, Cerrando

(* A step that neither enters nor leaves a section leaves the mutexes alone. *)
LEMMA MismaSeccion ==
  ASSUME CandadosInv, NEW p \in Programas, NEW punto \in Puntos,
         pc' = [pc EXCEPT ![p] = punto], UNCHANGED candados,
         pc[p] \in Bajando <=> punto \in Bajando,
         pc[p] \in Cerrando <=> punto \in Cerrando
  PROVE  CandadosInv'
  BY DEF CandadosInv, CandadosDeSuDueno, candados

LEMMA PedirCandados ==
  ASSUME CandadosInv, NEW p \in Programas, Pedir(p)
  PROVE  CandadosInv'
<1> USE DEF Esta, Ir, Responder, Puntos, Bajando, Cerrando
<1>1. CASE EmpezarCierre(p)
  <2>1. /\ mutexProgramas = Nada /\ mutexProgramas' = p /\ UNCHANGED mutexMapeo
        /\ pc[p] = "libre" /\ pc' = [pc EXCEPT ![p] = "cerrar"]
    BY <1>1 DEF EmpezarCierre, SeccionProgramas
  <2>2. QED
    BY <2>1, SegmentosSupuesto DEF CandadosInv, CandadosDeSuDueno
<1>2. CASE CopiarAlHeap(p)
  BY <1>2 DEF CopiarAlHeap, CandadosInv, CandadosDeSuDueno, candados
<1>3. CASE Iniciar(p) \/ EmpezarAlloc(p) \/ EmpezarFree(p) \/ EmpezarMapa(p) \/ EmpezarAcceso(p)
             \/ EmpezarUnmap(p) \/ Morir(p)
  <2>1. /\ UNCHANGED candados /\ pc[p] \in {"nuevo", "libre"}
        /\ \E punto \in {"libre", "alloc", "juntar", "mapear", "cargar", "bajar", "muerto"} :
             pc' = [pc EXCEPT ![p] = punto]
    BY <1>3 DEF Iniciar, EmpezarAlloc, EmpezarFree, EmpezarMapa, EmpezarAcceso, EmpezarUnmap, Morir
  <2>2. QED
    BY <2>1, MismaSeccion
<1>4. QED
  BY <1>1, <1>2, <1>3 DEF Pedir

LEMMA HeapCandados ==
  ASSUME CandadosInv, NEW p \in Programas, AtenderHeap(p)
  PROVE  CandadosInv'
<1>1. /\ UNCHANGED candados
      /\ pc[p] \in {"alloc", "revisar", "reservar", "ampliar", "juntar"}
      /\ \E punto \in {"libre", "revisar", "reservar", "ampliar", "juntar"} :
           pc' = [pc EXCEPT ![p] = punto]
  BY DEF AtenderHeap, Decidir, Ocupar, Revisar, Reservar, SinLiberadas, Ampliar, Juntar, Renumerar,
     PedirSegmento, Esta, Ir, Responder
<1>2. QED
  BY <1>1, MismaSeccion DEF Puntos, Bajando, Cerrando

(* muse_map and the accesses only pass through the sections. *)
LEMMA MapaCandados ==
  ASSUME CandadosInv, NEW p \in Programas,
         \/ MapaTabla(p) \/ BuscarMapeo(p) \/ Publicar(p)
         \/ Cargar(p) \/ Marcar(p) \/ Pegar(p) \/ YaEsta(p) \/ Tocar(p) \/ Terminar(p)
  PROVE  CandadosInv'
<1>1. /\ UNCHANGED candados
      /\ pc[p] \in {"mapear", "buscar_mapeo", "publicar", "cargar", "traer", "tocar"}
      /\ \E punto \in {"libre", "buscar_mapeo", "publicar", "traer", "tocar"} :
           pc' = [pc EXCEPT ![p] = punto]
  BY DEF MapaTabla, BuscarMapeo, Publicar, Cargar, Marcar, Pegar, YaEsta, Tocar, Terminar,
     Esta, Ir, Responder
<1>2. QED
  BY <1>1, MismaSeccion DEF Puntos, Bajando, Cerrando

LEMMA BajarCandados ==
  ASSUME CandadosInv, NEW p \in Programas, Bajar(p) \/ Quitar(p)
  PROVE  CandadosInv'
<1> USE DEF Esta, Ir, Responder, Puntos, Bajando, Cerrando
<1>1. CASE Bajar(p) /\ mutexMapeo' = p /\ pc' = [pc EXCEPT ![p] = "quitar"]
  BY <1>1, SegmentosSupuesto DEF Bajar, SeccionMapeo, CandadosInv, CandadosDeSuDueno
<1>2. CASE Bajar(p) /\ UNCHANGED mutexMapeo /\ pc' = [pc EXCEPT ![p] = "libre"]
  BY <1>2, MismaSeccion DEF Bajar, candados
<1>3. CASE Quitar(p)
  <2>1. /\ mutexMapeo' = Nada /\ UNCHANGED mutexProgramas
        /\ pc[p] = "quitar" /\ pc' = [pc EXCEPT ![p] = "libre"]
    BY <1>3 DEF Quitar, Soltado
  <2>2. QED
    BY <2>1, SegmentosSupuesto DEF CandadosInv, CandadosDeSuDueno
<1>4. QED
  BY <1>1, <1>2, <1>3 DEF Bajar

LEMMA CierreCandados ==
  ASSUME CandadosInv, NEW p \in Programas,
         Cerrar(p) \/ Descontar(p) \/ Olvidar(p) \/ Cerrado(p)
  PROVE  CandadosInv'
<1> USE DEF Esta, Ir, Puntos, Bajando, Cerrando
<1>1. CASE Cerrado(p)
  <2>1. /\ mutexProgramas' = Nada /\ UNCHANGED mutexMapeo
        /\ pc[p] = "cerrar" /\ pc' = [pc EXCEPT ![p] = "fin"]
    BY <1>1 DEF Cerrado
  <2>2. QED
    BY <2>1, SegmentosSupuesto DEF CandadosInv, CandadosDeSuDueno
<1>2. CASE Cerrar(p) /\ UNCHANGED pc
  BY <1>2 DEF Cerrar, CandadosInv, CandadosDeSuDueno, candados
<1>3. CASE Cerrar(p) /\ pc' = [pc EXCEPT ![p] = "descontar"]
  BY <1>3, MismaSeccion DEF Cerrar
<1>4. CASE Descontar(p) \/ Olvidar(p)
  <2>1. /\ UNCHANGED candados /\ pc[p] \in {"descontar", "olvidar"}
        /\ \E punto \in {"olvidar", "cerrar"} : pc' = [pc EXCEPT ![p] = punto]
    BY <1>4 DEF Descontar, Olvidar
  <2>2. QED
    BY <2>1, MismaSeccion
<1>5. QED
  BY <1>1, <1>2, <1>3, <1>4 DEF Cerrar

(* bajar_mapeo and muse_close exclude each other by their mutexes: a mutex that is *)
(* kept is that of the one handler in its section, whoever maps, syncs, unmaps or  *)
(* closes.  That two such handlers wait for each other is not excluded.           *)
THEOREM CandadosSiempreDeSuDueno == ProgramasSpec => []CandadosDeSuDueno
<1>1. CandadosInv /\ [ProgramasNext]_segmentosVars => CandadosInv'
  <2> SUFFICES ASSUME CandadosInv, [ProgramasNext]_segmentosVars PROVE CandadosInv'
    OBVIOUS
  <2>1. CASE ProgramasNext
    BY <2>1, PedirCandados, HeapCandados, MapaCandados, BajarCandados, CierreCandados
    DEF ProgramasNext, Atender
  <2>2. CASE UNCHANGED segmentosVars
    BY <2>2 DEF segmentosVars, CandadosInv, CandadosDeSuDueno
  <2>3. QED
    BY <2>1, <2>2
<1>2. CandadosInv => CandadosDeSuDueno
  BY DEF CandadosInv
<1>3. QED
  BY <1>1, <1>2, CandadosInicial, PTL DEF ProgramasSpec

-----------------------------------------------------------------------------
(* The counts of the mappings.                                               *)

(* All the programs are careful; those that share a file map it shared, and none *)
(* maps again a file it has.                                                    *)
TodosCuidadosos == Cuidadosos = Programas
UnModo ==
  \A p, q \in Programas : p # q =>
    \A u \in Usa[p], w \in Usa[q] : u.archivo = w.archivo => u.compartido /\ w.compartido
SinRepetir == Repiten = {}

(* The mappings of a table of segments, each a file and its list of pages; and that *)
(* no file is mapped twice.                                                      *)
Mapas(t)   == {k \in DOMAIN t : t[k].mmapeado}
Pares(t)   == {<<t[k].archivo, t[k].lista>> : k \in Mapas(t)}
SinDobles(t) == \A j, k \in Mapas(t) : t[j].archivo = t[k].archivo => j = k
Segmentos(t) ==
  /\ t \in Seq(Range(t))
  /\ \A k \in DOMAIN t : t[k].mmapeado \in BOOLEAN /\ "mmapeado" \in DOMAIN t[k]

MapaDe(p)   == Pares(tabla[p])
Quienes(l)  == {p \in Programas : \E a \in Archivos : <<a, l>> \in MapaDe(p)}

Mapeando == {"mapear", "buscar_mapeo", "publicar"}
Desmapeando == {"bajar", "quitar"}
ConClase(punto, clase) ==
  /\ punto \in Mapeando => clase = "map"
  /\ punto \in Desmapeando => clase = "unmap"
  /\ punto \in Cerrando => clase = "close"

(* Each file has one entry and each entry a list; who has it mapped is in its list,  *)
(* and counted.                                                                 *)
Tablas ==
  /\ tabla \in [Programas -> Range(tabla)] /\ \A p \in Programas : Segmentos(tabla[p]) /\ SinDobles(tabla[p])
  /\ mapeos \in Seq([archivo : Archivos, contador : Int, lista : 1..Listas])
UnaEntrada ==
  \A i, j \in DOMAIN mapeos : mapeos[i].archivo = mapeos[j].archivo \/ mapeos[i].lista = mapeos[j].lista => i = j
ConEntrada ==
  \A p \in Programas : \A x \in MapaDe(p) :
    /\ \E u \in Usa[p] : u.archivo = x[1]
    /\ \E i \in DOMAIN mapeos : mapeos[i].archivo = x[1] /\ mapeos[i].lista = x[2]
Cuentan ==
  \A i \in DOMAIN mapeos :
    LET l == mapeos[i].lista IN
    /\ Quienes(l) # {} /\ IsFiniteSet(Quienes(l))
    /\ mapeos[i].contador = Cardinality(Quienes(l)) - Cardinality(YaDescontados(l))

(* What a handler that maps, unmaps or closes relies on. *)
Libre(p, a) ==
  /\ \A l \in 1..Listas : <<a, l>> \notin MapaDe(p)
  /\ \A q \in Programas \ {p} :
       /\ pc[q] \in Mapeando => loc[q].usa.archivo # a
       /\ pc[q] \in Cerrando => \A l \in 1..Listas : <<a, l>> \notin MapaDe(q)
AlMapear(p) ==
  /\ loc[p].usa \in Usa[p] /\ Libre(p, loc[p].usa.archivo)
  /\ pc[p] = "publicar" => \A i \in DOMAIN mapeos : mapeos[i].archivo # loc[p].usa.archivo
AlDesmapear(p) ==
  /\ \E l \in 1..Listas : <<loc[p].usa.archivo, l>> \in MapaDe(p)
  /\ pc[p] = "quitar" => <<loc[p].usa.archivo, loc[p].lista>> \in MapaDe(p)
  /\ \A q \in Programas \ {p} : pc[q] \in Cerrando => MapaDe(q) = {}
AlCerrar(p) ==
  pc[p] \in {"descontar", "olvidar"} =>
    /\ tabla[p] # <<>> /\ Head(tabla[p]).mmapeado /\ loc[p].lista = Head(tabla[p]).lista
    /\ pc[p] = "olvidar" => \E i \in DOMAIN mapeos : mapeos[i].lista = loc[p].lista /\ mapeos[i].contador = 0
AlAsignar(p) ==
  LET l == loc[p] t == tabla[p] IN
  /\ pc[p] = "revisar" => l.seg \in Nat \ {0} /\ t # <<>>
  /\ pc[p] = "reservar" => l.seg = 0 \/ (l.seg \in DOMAIN t /\ ~t[l.seg].mmapeado)
  /\ pc[p] = "ampliar" => t # <<>> /\ ~t[Len(t)].mmapeado
  /\ pc[p] = "juntar" => l.seg \in DOMAIN t /\ ~t[l.seg].mmapeado
Lleva(p) ==
  /\ {"clase", "usa", "lista", "seg"} \subseteq DOMAIN loc[p] /\ ConClase(pc[p], loc[p].clase)
  /\ pc[p] \in Mapeando => AlMapear(p)
  /\ pc[p] \in Desmapeando => AlDesmapear(p)
  /\ AlCerrar(p) /\ AlAsignar(p)

CuentaInv ==
  /\ CandadosInv /\ loc \in [Programas -> Range(loc)]
  /\ Tablas /\ UnaEntrada /\ ConEntrada /\ Cuentan /\ \A p \in Programas : Lleva(p)

-----------------------------------------------------------------------------
(* What a change of the table of segments of a program does to its mappings.  *)

LEMMA EsSecuencia ==
  ASSUME NEW S, NEW t \in Seq(S)
  PROVE  t \in Seq(Range(t)) /\ DOMAIN t = 1..Len(t) /\ Len(t) \in Nat
<1>1. t \in [1..Len(t) -> S] /\ Len(t) \in Nat
  BY LenProperties
<1>2. t \in [1..Len(t) -> Range(t)]
  BY <1>1 DEF Range
<1>3. QED
  BY <1>1, <1>2, SeqDef

LEMMA UnSegmento ==
  ASSUME NEW t, Segmentos(t)
  PROVE  /\ DOMAIN t = 1..Len(t) /\ Len(t) \in Nat /\ (t = <<>> <=> Len(t) = 0)
         /\ \A S : Range(t) \subseteq S => t \in Seq(S)
<1>1. t \in Seq(Range(t))
  BY DEF Segmentos
<1>2. t \in [1..Len(t) -> Range(t)] /\ Len(t) \in Nat
  BY <1>1, LenProperties
<1>3. ASSUME NEW S, Range(t) \subseteq S PROVE t \in Seq(S)
  <2>1. t \in [1..Len(t) -> S]
    BY <1>2, <1>3
  <2>2. QED
    BY <1>2, <2>1, SeqDef
<1>4. t = <<>> <=> Len(t) = 0
  BY <1>1, EmptySeq
<1>5. QED
  BY <1>2, <1>3, <1>4

Cambiado(t, k, s) == [t EXCEPT ![k] = s]
Agregado(t, s)    == Append(t, s)

(* A segment of heap changes, and stays one. *)
LEMMA CambiaHeap ==
  ASSUME NEW t, Segmentos(t), NEW k \in DOMAIN t, ~t[k].mmapeado,
         NEW s, s.mmapeado = FALSE, "mmapeado" \in DOMAIN s,
         NEW u, u = Cambiado(t, k, s)
  PROVE  /\ Segmentos(u) /\ Pares(u) = Pares(t) /\ (SinDobles(t) => SinDobles(u))
         /\ Len(u) = Len(t) /\ DOMAIN u = DOMAIN t /\ \A j \in DOMAIN t : u[j].mmapeado = t[j].mmapeado
<1>1. DOMAIN t = 1..Len(t) /\ Len(t) \in Nat
  BY UnSegmento
<1>2. t \in Seq(Range(t) \cup {s})
  BY UnSegmento
<1>3. u \in Seq(Range(t) \cup {s}) /\ Len(u) = Len(t)
  BY <1>1, <1>2, ExceptSeq DEF Cambiado
<1>4. DOMAIN u = DOMAIN t /\ u[k] = s /\ \A j \in DOMAIN t : j # k => u[j] = t[j]
  BY DEF Cambiado
<1>5. \A j \in DOMAIN t : u[j].mmapeado = t[j].mmapeado
  BY <1>4 DEF Segmentos
<1>6. Segmentos(u)
  BY <1>3, <1>4, <1>5, EsSecuencia DEF Segmentos
<1>7. Mapas(u) = Mapas(t) /\ \A j \in Mapas(t) : u[j] = t[j]
  BY <1>4, <1>5 DEF Mapas
<1>8. Pares(u) = Pares(t)
  BY <1>7 DEF Pares
<1>9. SinDobles(t) => SinDobles(u)
  BY <1>7 DEF SinDobles
<1>10. QED
  BY <1>3, <1>4, <1>5, <1>6, <1>8, <1>9

LEMMA AgregaSegmento ==
  ASSUME NEW t, Segmentos(t), NEW s, s.mmapeado \in BOOLEAN, "mmapeado" \in DOMAIN s,
         NEW u, u = Agregado(t, s)
  PROVE  /\ Segmentos(u)
         /\ s.mmapeado => Pares(u) = Pares(t) \cup {<<s.archivo, s.lista>>}
         /\ ~s.mmapeado => Pares(u) = Pares(t)
         /\ SinDobles(t) /\ (s.mmapeado => \A k \in Mapas(t) : t[k].archivo # s.archivo) => SinDobles(u)
<1>1. DOMAIN t = 1..Len(t) /\ Len(t) \in Nat
  BY UnSegmento
<1>2. t \in Seq(Range(t) \cup {s})
  BY UnSegmento
<1>3. /\ u \in Seq(Range(t) \cup {s}) /\ DOMAIN u = 1..(Len(t) + 1) /\ u[Len(t) + 1] = s
      /\ \A j \in DOMAIN t : u[j] = t[j]
  BY <1>1, <1>2, AppendProperties DEF Agregado
<1>4. Segmentos(u)
  <2>1. u \in Seq(Range(u))
    BY <1>3, EsSecuencia
  <2>2. \A j \in DOMAIN u : j \in DOMAIN t \/ j = Len(t) + 1
    BY <1>1, <1>3
  <2>3. QED
    BY <1>3, <2>1, <2>2 DEF Segmentos
<1> DEFINE n == Len(t) + 1
<1>5. /\ s.mmapeado => Mapas(u) = Mapas(t) \cup {n}
      /\ ~s.mmapeado => Mapas(u) = Mapas(t)
  BY <1>1, <1>3 DEF Mapas
<1>0. u[n] = s /\ n \notin Mapas(t)
  BY <1>1, <1>3 DEF Mapas
<1> HIDE DEF n
<1>6. \A j \in Mapas(t) : u[j] = t[j]
  BY <1>3 DEF Mapas
<1>7. /\ s.mmapeado => Pares(u) = Pares(t) \cup {<<s.archivo, s.lista>>}
      /\ ~s.mmapeado => Pares(u) = Pares(t)
  <2>1. Pares(u) = {<<u[k].archivo, u[k].lista>> : k \in Mapas(u)} /\ Pares(t) = {<<u[k].archivo, u[k].lista>> : k \in Mapas(t)}
    BY <1>6 DEF Pares
  <2>2. CASE s.mmapeado
    <3>1. Mapas(u) = Mapas(t) \cup {n}
      BY <1>5, <2>2
    <3>2. Pares(u) = {<<u[k].archivo, u[k].lista>> : k \in Mapas(t)} \cup {<<u[n].archivo, u[n].lista>>}
      BY <2>1, <3>1
    <3>3. Pares(u) = Pares(t) \cup {<<s.archivo, s.lista>>}
      BY <1>0, <2>1, <3>2
    <3>4. QED
      BY <2>2, <3>3
  <2>3. CASE ~s.mmapeado
    <3>1. Pares(u) = Pares(t)
      BY <1>5, <2>1, <2>3
    <3>2. QED
      BY <2>3, <3>1
  <2>4. QED
    BY <2>2, <2>3
<1>8. SinDobles(t) /\ (s.mmapeado => \A k \in Mapas(t) : t[k].archivo # s.archivo) => SinDobles(u)
  <2>1. Mapas(u) \subseteq Mapas(t) \cup {n} /\ (n \in Mapas(u) => s.mmapeado)
    BY <1>0, <1>5
  <2> SUFFICES ASSUME SinDobles(t), s.mmapeado => \A k \in Mapas(t) : t[k].archivo # s.archivo,
                      NEW i \in Mapas(u), NEW j \in Mapas(u), u[i].archivo = u[j].archivo
               PROVE  i = j
    BY DEF SinDobles
  <2>2. CASE i \in Mapas(t) /\ j \in Mapas(t)
    BY <1>6, <2>2 DEF SinDobles
  <2>3. CASE i = n /\ j \in Mapas(t)
    BY <1>0, <1>6, <2>1, <2>3
  <2>4. CASE i \in Mapas(t) /\ j = n
    BY <1>0, <1>6, <2>1, <2>4
  <2>5. QED
    BY <2>1, <2>2, <2>3, <2>4
<1>9. QED
  BY <1>4, <1>7, <1>8

(* What is after a position goes back one. *)
LEMMA QuitaPosicion ==
  ASSUME NEW S, NEW t \in Seq(S), NEW k \in 1..Len(t)
  PROVE  /\ RemoveAt(t, k) \in Seq(S) /\ DOMAIN RemoveAt(t, k) = 1..(Len(t) - 1)
         /\ \A j \in 1..(Len(t) - 1) : RemoveAt(t, k)[j] = IF j < k THEN t[j] ELSE t[j + 1]
<1> DEFINE n     == Len(t)
           antes == SubSeq(t, 1, k - 1)
           resto == SubSeq(t, k + 1, n)
           todo  == antes \o resto
<1>1. n \in Nat /\ k \in 1..n
  OBVIOUS
<1>2. antes \in Seq(S) /\ Len(antes) = k - 1 /\ \A j \in 1..(k - 1) : antes[j] = t[j]
  BY SubSeqProperties
<1>3. resto \in Seq(S) /\ Len(resto) = n - k /\ \A j \in 1..(n - k) : resto[j] = t[k + j]
  BY SubSeqProperties
<1> HIDE DEF antes, resto, n
<1>4. /\ todo \in Seq(S) /\ Len(todo) = Len(antes) + Len(resto)
      /\ \A j \in 1..(Len(antes) + Len(resto)) :
           todo[j] = IF j <= Len(antes) THEN antes[j] ELSE resto[j - Len(antes)]
  BY <1>2, <1>3, ConcatProperties
<1>5. Len(antes) + Len(resto) = n - 1
  BY <1>1, <1>2, <1>3
<1>6. DOMAIN todo = 1..Len(todo)
  BY <1>4
<1>7. RemoveAt(t, k) = todo
  BY DEF RemoveAt, antes, resto, n
<1> HIDE DEF todo
<1>8. \A j \in 1..(n - 1) : todo[j] = IF j < k THEN t[j] ELSE t[j + 1]
  <2> SUFFICES ASSUME NEW j \in 1..(n - 1) PROVE todo[j] = IF j < k THEN t[j] ELSE t[j + 1]
    OBVIOUS
  <2>1. CASE j < k
    <3>1. j \in 1..(k - 1) /\ j <= Len(antes)
      BY <1>1, <1>2, <2>1
    <3>2. QED
      BY <1>2, <1>4, <1>5, <2>1, <3>1
  <2>2. CASE ~(j < k)
    <3>1. j - (k - 1) \in 1..(n - k) /\ k + (j - (k - 1)) = j + 1 /\ ~(j <= Len(antes))
      BY <1>1, <1>2, <2>2
    <3>2. QED
      BY <1>2, <1>3, <1>4, <1>5, <2>2, <3>1
  <2>3. QED
    BY <2>1, <2>2
<1>9. QED
  BY <1>4, <1>5, <1>6, <1>7, <1>8 DEF n

(* A segment goes: those after it move back. *)
LEMMA QuitaSegmento ==
  ASSUME NEW t, Segmentos(t), NEW k \in DOMAIN t, NEW u, u = RemoveAt(t, k)
  PROVE  /\ Segmentos(u)
         /\ SinDobles(t) => SinDobles(u)
         /\ ~t[k].mmapeado => Pares(u) = Pares(t)
         /\ SinDobles(t) /\ t[k].mmapeado =>
              /\ Pares(u) = Pares(t) \ {<<t[k].archivo, t[k].lista>>}
              /\ \A x \in Pares(u) : x[1] # t[k].archivo
<1> DEFINE n == Len(t)
           Antes(j) == IF j < k THEN j ELSE j + 1
<1>1. DOMAIN t = 1..n /\ n \in Nat /\ k \in 1..n
  BY UnSegmento
<1>2. t \in Seq(Range(t))
  BY UnSegmento
<1>3. /\ u \in Seq(Range(t)) /\ DOMAIN u = 1..(n - 1)
      /\ \A j \in DOMAIN u : u[j] = IF j < k THEN t[j] ELSE t[j + 1]
  BY <1>1, <1>2, QuitaPosicion
<1>4. \A j \in DOMAIN u : Antes(j) \in DOMAIN t /\ Antes(j) # k /\ u[j] = t[Antes(j)]
  BY <1>1, <1>3
<1>5. \A i, j \in DOMAIN u : Antes(i) = Antes(j) => i = j
  BY <1>1, <1>3
<1>6. \A m \in DOMAIN t : m # k => \E j \in DOMAIN u : Antes(j) = m
  <2> SUFFICES ASSUME NEW m \in DOMAIN t, m # k PROVE \E j \in DOMAIN u : Antes(j) = m
    OBVIOUS
  <2>1. CASE m < k
    <3>1. m \in DOMAIN u
      BY <1>1, <1>3, <2>1
    <3>2. QED
      BY <2>1, <3>1
  <2>2. CASE m > k
    <3>1. m - 1 \in DOMAIN u /\ ~(m - 1 < k) /\ (m - 1) + 1 = m
      BY <1>1, <1>3, <2>2
    <3>2. QED
      BY <3>1
  <2>3. QED
    BY <1>1, <2>1, <2>2
<1> HIDE DEF Antes, n
<1>7. Segmentos(u)
  BY <1>3, <1>4, EsSecuencia DEF Segmentos
<1>8. SinDobles(t) => SinDobles(u)
  BY <1>4, <1>5 DEF SinDobles, Mapas
<1>9. Pares(u) = {<<t[m].archivo, t[m].lista>> : m \in Mapas(t) \ {k}}
  <2>1. ASSUME NEW j \in Mapas(u)
        PROVE  <<u[j].archivo, u[j].lista>> \in {<<t[m].archivo, t[m].lista>> : m \in Mapas(t) \ {k}}
    <3>1. Antes(j) \in Mapas(t) \ {k} /\ u[j] = t[Antes(j)]
      BY <1>4 DEF Mapas
    <3>2. QED
      BY <3>1
  <2>2. ASSUME NEW m \in Mapas(t) \ {k}
        PROVE  <<t[m].archivo, t[m].lista>> \in Pares(u)
    <3>1. PICK j \in DOMAIN u : Antes(j) = m
      BY <1>6 DEF Mapas
    <3>2. j \in Mapas(u) /\ u[j] = t[m]
      BY <1>4, <3>1 DEF Mapas
    <3>3. QED
      BY <3>2 DEF Pares
  <2>3. QED
    BY <2>1, <2>2 DEF Pares
<1>10. ~t[k].mmapeado => Pares(u) = Pares(t)
  BY <1>9 DEF Pares, Mapas
<1>11. SinDobles(t) /\ t[k].mmapeado => \A m \in Mapas(t) \ {k} : t[m].archivo # t[k].archivo
  BY DEF SinDobles, Mapas
<1>12. SinDobles(t) /\ t[k].mmapeado => \A x \in Pares(u) : x[1] # t[k].archivo
  BY <1>9, <1>11
<1>13. SinDobles(t) /\ t[k].mmapeado => Pares(u) = Pares(t) \ {<<t[k].archivo, t[k].lista>>}
  BY <1>9, <1>11 DEF Pares, Mapas
<1>14. QED
  BY <1>7, <1>8, <1>10, <1>12, <1>13

LEMMA QuitaPrimero ==
  ASSUME NEW t, Segmentos(t), t # <<>>
  PROVE  1 \in DOMAIN t /\ Head(t) = t[1] /\ Tail(t) = RemoveAt(t, 1)
<1>1. t \in Seq(Range(t)) /\ Len(t) \in Nat /\ DOMAIN t = 1..Len(t) /\ Len(t) # 0
  BY UnSegmento
<1>2. 1 \in 1..Len(t)
  BY <1>1
<1>3. Head(t) = t[1] /\ Tail(t) \in Seq(Range(t)) /\ DOMAIN Tail(t) = 1..(Len(t) - 1)
      /\ \A j \in 1..(Len(t) - 1) : Tail(t)[j] = t[j + 1]
  BY <1>1, HeadTailProperties
<1>4. /\ DOMAIN RemoveAt(t, 1) = 1..(Len(t) - 1) /\ RemoveAt(t, 1) \in Seq(Range(t))
      /\ \A j \in 1..(Len(t) - 1) : RemoveAt(t, 1)[j] = t[j + 1]
  BY <1>1, <1>2, QuitaPosicion
<1>5. Tail(t) = RemoveAt(t, 1)
  <2>1. Len(Tail(t)) = Len(RemoveAt(t, 1))
    BY <1>1, <1>3, <1>4
  <2>2. \A j \in 1..Len(Tail(t)) : Tail(t)[j] = RemoveAt(t, 1)[j]
    BY <1>1, <1>3, <1>4
  <2>3. QED
    BY <1>3, <1>4, <2>1, <2>2, SeqEqual
<1>6. QED
  BY <1>1, <1>2, <1>3, <1>5

-----------------------------------------------------------------------------
(* A step of one handler, and what the others rely on. *)

Paso(p, punto, l, u) ==
  /\ pc' = [pc EXCEPT ![p] = punto] /\ loc' = [loc EXCEPT ![p] = l] /\ tabla' = [tabla EXCEPT ![p] = u]

LEMMA TrasPaso ==
  ASSUME CuentaInv, NEW p \in Programas, NEW punto, NEW l, NEW u, Paso(p, punto, l, u)
  PROVE  /\ pc'[p] = punto /\ loc'[p] = l /\ tabla'[p] = u /\ MapaDe(p)' = Pares(u)
         /\ \A q \in Programas \ {p} :
              pc'[q] = pc[q] /\ loc'[q] = loc[q] /\ tabla'[q] = tabla[q] /\ Pares(tabla'[q]) = Pares(tabla[q])
         /\ loc' \in [Programas -> Range(loc')] /\ tabla' \in [Programas -> Range(tabla')]
<1>1. pc \in [Programas -> Puntos] /\ DOMAIN loc = Programas /\ DOMAIN tabla = Programas
  BY DEF CuentaInv, CandadosInv, Tablas
<1>2. /\ pc'[p] = punto /\ loc'[p] = l /\ tabla'[p] = u
      /\ \A q \in Programas \ {p} : pc'[q] = pc[q] /\ loc'[q] = loc[q] /\ tabla'[q] = tabla[q]
  BY <1>1 DEF Paso
<1>3. loc' \in [Programas -> Range(loc')] /\ tabla' \in [Programas -> Range(tabla')]
  <2>1. DOMAIN loc' = Programas /\ DOMAIN tabla' = Programas /\ loc' = [q \in Programas |-> loc'[q]]
        /\ tabla' = [q \in Programas |-> tabla'[q]]
    BY <1>1 DEF Paso
  <2>2. QED
    BY <2>1 DEF Range
<1>4. MapaDe(p)' = Pares(u)
  BY <1>2 DEF MapaDe, Pares, Mapas
<1>5. QED
  BY <1>2, <1>3, <1>4

(* p does what it does without taking from another handler what it relies on. *)
SinMolestar(p, q, punto, l, u) ==
  /\ punto \in Mapeando /\ pc[q] \in Mapeando => l.usa.archivo # loc[q].usa.archivo
  /\ punto \in Cerrando /\ pc[q] \in Mapeando => \A h \in 1..Listas : <<loc[q].usa.archivo, h>> \notin Pares(u)
  /\ punto \in Cerrando /\ pc[q] \in Desmapeando => Pares(u) = {}
  /\ pc[q] = "publicar" => \A i \in DOMAIN mapeos' : mapeos'[i].archivo # loc[q].usa.archivo
  /\ pc[q] = "olvidar" => \E i \in DOMAIN mapeos' : mapeos'[i].lista = loc[q].lista /\ mapeos'[i].contador = 0

LEMMA Otros ==
  ASSUME CuentaInv, NEW p \in Programas, NEW punto, NEW l, NEW u, Paso(p, punto, l, u),
         NEW q \in Programas \ {p}, SinMolestar(p, q, punto, l, u)
  PROVE  Lleva(q)'
<1>1. /\ pc'[p] = punto /\ loc'[p] = l /\ Pares(tabla'[p]) = Pares(u)
      /\ \A r \in Programas \ {p} :
           pc'[r] = pc[r] /\ loc'[r] = loc[r] /\ tabla'[r] = tabla[r] /\ Pares(tabla'[r]) = Pares(tabla[r])
  BY TrasPaso DEF MapaDe
<1>2. Lleva(q)
  BY DEF CuentaInv
<1>3. {"clase", "usa", "lista", "seg"} \subseteq DOMAIN loc'[q] /\ ConClase(pc'[q], loc'[q].clase)
  BY <1>1, <1>2 DEF Lleva
<1>4. AlAsignar(q)' /\ AlCerrar(q)'
  <2>1. AlAsignar(q)'
    BY <1>1, <1>2 DEF Lleva, AlAsignar
  <2>2. AlCerrar(q)'
    BY <1>1, <1>2 DEF Lleva, AlCerrar, SinMolestar
  <2>3. QED
    BY <2>1, <2>2
<1>5. pc'[q] \in Desmapeando => AlDesmapear(q)'
  <2> SUFFICES ASSUME pc'[q] \in Desmapeando PROVE AlDesmapear(q)'
    OBVIOUS
  <2>1. AlDesmapear(q) /\ pc[q] \in Desmapeando
    BY <1>1, <1>2 DEF Lleva
  <2>2. punto \in Cerrando => Pares(u) = {}
    BY <2>1 DEF SinMolestar
  <2>3. \A r \in Programas \ {q} : pc'[r] \in Cerrando => Pares(tabla'[r]) = {}
    BY <1>1, <2>1, <2>2 DEF AlDesmapear, MapaDe
  <2>4. QED
    BY <1>1, <2>1, <2>3 DEF AlDesmapear, MapaDe
<1>6. pc'[q] \in Mapeando => AlMapear(q)'
  <2> SUFFICES ASSUME pc'[q] \in Mapeando PROVE AlMapear(q)'
    OBVIOUS
  <2> DEFINE a == loc[q].usa.archivo
  <2>1. AlMapear(q) /\ Libre(q, a) /\ pc[q] \in Mapeando /\ a = loc'[q].usa.archivo
    BY <1>1, <1>2 DEF Lleva, AlMapear
  <2>2. /\ punto \in Mapeando => l.usa.archivo # a
        /\ punto \in Cerrando => \A h \in 1..Listas : <<a, h>> \notin Pares(u)
    BY <2>1 DEF SinMolestar
  <2>3. \A h \in 1..Listas : <<a, h>> \notin Pares(tabla'[q])
    BY <1>1, <2>1 DEF Libre, MapaDe
  <2>4. ASSUME NEW r \in Programas \ {q}
        PROVE  /\ pc'[r] \in Mapeando => loc'[r].usa.archivo # a
               /\ pc'[r] \in Cerrando => \A h \in 1..Listas : <<a, h>> \notin Pares(tabla'[r])
    <3>1. CASE r = p
      BY <1>1, <2>2, <3>1
    <3>2. CASE r # p
      <4>1. pc'[r] = pc[r] /\ loc'[r] = loc[r] /\ Pares(tabla'[r]) = Pares(tabla[r])
        BY <1>1, <3>2
      <4>2. QED
        BY <2>1, <4>1 DEF Libre, MapaDe
    <3>3. QED
      BY <3>1, <3>2
  <2>5. pc'[q] = "publicar" => \A i \in DOMAIN mapeos' : mapeos'[i].archivo # a
    BY <1>1 DEF SinMolestar
  <2>6. loc'[q].usa \in Usa[q]
    BY <1>1, <2>1 DEF AlMapear
  <2>7. Libre(q, loc[q].usa.archivo)'
    BY <2>1, <2>3, <2>4 DEF Libre, MapaDe
  <2>8. QED
    BY <2>1, <2>5, <2>6, <2>7 DEF AlMapear
<1>7. QED
  BY <1>3, <1>4, <1>5, <1>6 DEF Lleva

(* What a step does to who has a list and who has counted out of it. *)
LEMMA QuienesTrasPaso ==
  ASSUME CuentaInv, NEW p \in Programas, NEW punto, NEW l, NEW u, Paso(p, punto, l, u), NEW h
  PROVE  /\ Quienes(h)' \ {p} = Quienes(h) \ {p}
         /\ p \in Quienes(h)' <=> \E a \in Archivos : <<a, h>> \in Pares(u)
         /\ p \in Quienes(h) <=> \E a \in Archivos : <<a, h>> \in Pares(tabla[p])
         /\ YaDescontados(h)' \ {p} = YaDescontados(h) \ {p}
         /\ p \in YaDescontados(h)' <=> punto \in {"quitar", "olvidar"} /\ l.lista = h
         /\ p \in YaDescontados(h) <=> pc[p] \in {"quitar", "olvidar"} /\ loc[p].lista = h
         /\ Quienes(h)' \subseteq Programas /\ YaDescontados(h)' \subseteq Programas
<1>1. /\ pc'[p] = punto /\ loc'[p] = l /\ Pares(tabla'[p]) = Pares(u)
      /\ \A r \in Programas \ {p} :
           pc'[r] = pc[r] /\ loc'[r] = loc[r] /\ tabla'[r] = tabla[r] /\ Pares(tabla'[r]) = Pares(tabla[r])
  BY TrasPaso DEF MapaDe
<1>2. QED
  BY <1>1 DEF Quienes, MapaDe, YaDescontados

(* Nothing is mapped nor counted. *)
LEMMA PasoIgual ==
  ASSUME CuentaInv, CandadosInv', NEW p \in Programas, NEW punto, NEW l, NEW u, Paso(p, punto, l, u),
         mapeos' = mapeos, Segmentos(u), SinDobles(u), Pares(u) = Pares(tabla[p]),
         {pc[p], punto} \cap {"quitar", "olvidar"} = {},
         \A q \in Programas \ {p} : SinMolestar(p, q, punto, l, u),
         Lleva(p)'
  PROVE  CuentaInv'
<1>1. /\ pc'[p] = punto /\ loc'[p] = l /\ tabla'[p] = u
      /\ \A r \in Programas \ {p} : tabla'[r] = tabla[r]
      /\ \A r \in Programas : Pares(tabla'[r]) = Pares(tabla[r])
      /\ loc' \in [Programas -> Range(loc')] /\ tabla' \in [Programas -> Range(tabla')]
  BY TrasPaso DEF MapaDe
<1>2. \A h : Quienes(h)' = Quienes(h)
  BY <1>1 DEF Quienes, MapaDe
<1>3. \A h : YaDescontados(h)' = YaDescontados(h)
  <2> SUFFICES ASSUME NEW h PROVE YaDescontados(h)' = YaDescontados(h)
    OBVIOUS
  <2>1. p \notin YaDescontados(h)' /\ p \notin YaDescontados(h)
    BY <1>1 DEF YaDescontados
  <2>2. YaDescontados(h)' \ {p} = YaDescontados(h) \ {p}
    BY QuienesTrasPaso
  <2>3. QED
    BY <2>1, <2>2
<1>4. Tablas' /\ UnaEntrada'
  BY <1>1 DEF CuentaInv, Tablas, UnaEntrada
<1>5. ConEntrada'
  BY <1>1 DEF CuentaInv, ConEntrada, MapaDe
<1>6. Cuentan'
  BY <1>2, <1>3 DEF CuentaInv, Cuentan
<1>7. \A q \in Programas \ {p} : Lleva(q)'
  BY Otros
<1>8. QED
  BY <1>1, <1>4, <1>5, <1>6, <1>7 DEF CuentaInv

LEMMA PasoQuieto ==
  ASSUME CuentaInv, CandadosInv', NEW p \in Programas, NEW punto, NEW l, NEW u, Paso(p, punto, l, u),
         mapeos' = mapeos, Segmentos(u), SinDobles(u), Pares(u) = Pares(tabla[p]),
         {pc[p], punto} \cap {"quitar", "olvidar"} = {},
         punto \in Mapeando => pc[p] \in Mapeando /\ l.usa = loc[p].usa,
         punto \in Cerrando => pc[p] \in Cerrando,
         Lleva(p)'
  PROVE  CuentaInv'
<1>1. ASSUME NEW q \in Programas \ {p} PROVE SinMolestar(p, q, punto, l, u)
  <2>1. Lleva(q) /\ Lleva(p)
    BY DEF CuentaInv
  <2>2. punto \in Mapeando /\ pc[q] \in Mapeando => l.usa.archivo # loc[q].usa.archivo
    BY <2>1 DEF Lleva, AlMapear, Libre
  <2>3. punto \in Cerrando /\ pc[q] \in Mapeando => \A h \in 1..Listas : <<loc[q].usa.archivo, h>> \notin Pares(u)
    BY <2>1 DEF Lleva, AlMapear, Libre, MapaDe
  <2>4. punto \in Cerrando /\ pc[q] \in Desmapeando => Pares(u) = {}
    BY <2>1 DEF Lleva, AlDesmapear, MapaDe
  <2>5. pc[q] = "publicar" => \A i \in DOMAIN mapeos' : mapeos'[i].archivo # loc[q].usa.archivo
    BY <2>1 DEF Lleva, AlMapear, Mapeando
  <2>6. pc[q] = "olvidar" => \E i \in DOMAIN mapeos' : mapeos'[i].lista = loc[q].lista /\ mapeos'[i].contador = 0
    BY <2>1 DEF Lleva, AlCerrar
  <2>7. QED
    BY <2>2, <2>3, <2>4, <2>5, <2>6 DEF SinMolestar
<1>2. QED
  BY <1>1, PasoIgual

-----------------------------------------------------------------------------
(* The heaps. *)

LEMMA MinEsta ==
  ASSUME NEW I \in SUBSET Nat, I # {}
  PROVE  Min(I) \in I /\ \A i \in I : Min(I) <= i
<1>1. PICK x \in I : \A y \in I : <<y, x>> \notin OpToRel(<, Nat)
  BY NatLessThanWellFounded, WFMin
<1>2. \A y \in I : x <= y
  <2>1. SUFFICES ASSUME NEW y \in I PROVE ~(y < x)
    OBVIOUS
  <2>2. QED
    BY <1>1 DEF OpToRel
<1>3. QED
  BY <1>2 DEF Min

LEMMA SuTabla ==
  ASSUME CuentaInv, NEW p \in Programas
  PROVE  /\ Segmentos(tabla[p]) /\ SinDobles(tabla[p])
         /\ DOMAIN tabla[p] = 1..Len(tabla[p]) /\ Len(tabla[p]) \in Nat
         /\ tabla[p] = <<>> <=> Len(tabla[p]) = 0
         /\ \A k \in DOMAIN tabla[p] : tabla[p][k].mmapeado \in BOOLEAN /\ "mmapeado" \in DOMAIN tabla[p][k]
<1>1. Segmentos(tabla[p]) /\ SinDobles(tabla[p])
  BY DEF CuentaInv, Tablas
<1>2. QED
  BY <1>1, UnSegmento DEF Segmentos

LEMMA SinTocar ==
  ASSUME CuentaInv, NEW p \in Programas, NEW punto, NEW l, Ir(p, punto, l), tabla' = tabla
  PROVE  Paso(p, punto, l, tabla[p])
<1>1. tabla \in [Programas -> Range(tabla)]
  BY DEF CuentaInv, Tablas
<1>2. tabla = [tabla EXCEPT ![p] = tabla[p]]
  BY <1>1
<1>3. QED
  BY <1>2 DEF Paso, Ir

Asignando == {"alloc", "revisar", "reservar", "ampliar", "juntar"}

(* A step of muse_alloc or muse_free changes one segment of heap, or adds one. *)
DeUnHeap(t, u) ==
  \/ u = t
  \/ \E k \in DOMAIN t : ~t[k].mmapeado /\ \E s : s.mmapeado = FALSE /\ "mmapeado" \in DOMAIN s /\ u = Cambiado(t, k, s)
  \/ \E s : s.mmapeado = FALSE /\ "mmapeado" \in DOMAIN s /\ u = Agregado(t, s)

LEMMA HeapNoMapea ==
  ASSUME NEW t, NEW u, Segmentos(t), SinDobles(t), DeUnHeap(t, u)
  PROVE  Segmentos(u) /\ SinDobles(u) /\ Pares(u) = Pares(t)
<1>1. ASSUME NEW k \in DOMAIN t, ~t[k].mmapeado,
             NEW s, s.mmapeado = FALSE, "mmapeado" \in DOMAIN s, u = Cambiado(t, k, s)
      PROVE  Segmentos(u) /\ SinDobles(u) /\ Pares(u) = Pares(t)
  <2>1. Segmentos(u) /\ Pares(u) = Pares(t) /\ (SinDobles(t) => SinDobles(u))
    BY <1>1, CambiaHeap
  <2>2. QED
    BY <2>1
<1>2. ASSUME NEW s, s.mmapeado = FALSE, "mmapeado" \in DOMAIN s, u = Agregado(t, s)
      PROVE  Segmentos(u) /\ SinDobles(u) /\ Pares(u) = Pares(t)
  <2>1. s.mmapeado \in BOOLEAN /\ ~s.mmapeado
    BY <1>2
  <2>2. /\ Segmentos(u) /\ (~s.mmapeado => Pares(u) = Pares(t))
        /\ SinDobles(t) /\ (s.mmapeado => \A k \in Mapas(t) : t[k].archivo # s.archivo) => SinDobles(u)
    BY <1>2, <2>1, AgregaSegmento
  <2>3. QED
    BY <2>1, <2>2
<1>3. QED
  BY <1>1, <1>2 DEF DeUnHeap

(* To a point of muse_alloc or muse_free, or to the end of it. *)
LEMMA PasoDeHeap ==
  ASSUME CuentaInv, CandadosInv', NEW p \in Programas, NEW punto, NEW l, NEW u, Paso(p, punto, l, u),
         mapeos' = mapeos, DeUnHeap(tabla[p], u),
         pc[p] \in Asignando \cup {"libre"}, punto \in Asignando \cup {"libre"},
         {"clase", "usa", "lista", "seg"} \subseteq DOMAIN l,
         AlAsignar(p)'
  PROVE  CuentaInv'
<1>0. Segmentos(tabla[p]) /\ SinDobles(tabla[p])
  BY SuTabla
<1>1. Segmentos(u) /\ SinDobles(u) /\ Pares(u) = Pares(tabla[p])
  BY <1>0, HeapNoMapea
<1>2. pc'[p] = punto /\ loc'[p] = l
  BY TrasPaso
<1>3. Lleva(p)'
  <2>1. punto \notin Mapeando \cup Desmapeando \cup Cerrando
    BY DEF Asignando, Mapeando, Desmapeando, Cerrando
  <2>2. ConClase(pc'[p], loc'[p].clase)
    BY <1>2, <2>1 DEF ConClase
  <2>3. AlCerrar(p)'
    BY <1>2, <2>1 DEF AlCerrar, Cerrando
  <2>4. QED
    BY <1>2, <2>1, <2>2, <2>3 DEF Lleva
<1>4. {pc[p], punto} \cap {"quitar", "olvidar"} = {} /\ punto \notin Mapeando /\ punto \notin Cerrando
  BY DEF Asignando, Mapeando, Cerrando
<1>5. QED
  BY <1>1, <1>3, <1>4, PasoQuieto

LEMMA HeapElige ==
  ASSUME CuentaInv, NEW p \in Programas, NEW I \in SUBSET (1..Len(tabla[p])), NEW k, k = (IF I # {} THEN Min(I) ELSE 0), k # 0
  PROVE  k \in I /\ k \in DOMAIN tabla[p]
<1>1. DOMAIN tabla[p] = 1..Len(tabla[p]) /\ Len(tabla[p]) \in Nat
  BY SuTabla
<1>2. I \in SUBSET Nat
  BY <1>1
<1>3. QED
  BY <1>1, <1>2, MinEsta

(* A step whose table has one segment of heap changed. *)
LEMMA UnHeapCambia ==
  ASSUME NEW t, NEW k \in DOMAIN t, ~t[k].mmapeado, NEW s, s.mmapeado = FALSE, "mmapeado" \in DOMAIN s
  PROVE  DeUnHeap(t, [t EXCEPT ![k] = s])
BY DEF DeUnHeap, Cambiado

LEMMA DecidirCuenta ==
  ASSUME CuentaInv, CandadosInv', NEW p \in Programas, Decidir(p)
  PROVE  CuentaInv'
<1>1. Lleva(p) /\ pc[p] = "alloc" /\ UNCHANGED <<tabla, mapeos>>
  BY DEF CuentaInv, Decidir, Esta, compartidos
<1>2. CASE tabla[p] = <<>>
  <2> DEFINE l == [loc[p] EXCEPT !.seg = 0, !.n = Hojas(loc[p].t + 2 * TamMeta)]
  <2>1. Ir(p, "reservar", l)
    BY <1>2 DEF Decidir, PedirSegmento
  <2>2. DOMAIN l = DOMAIN loc[p] /\ l.seg = 0
    BY <1>1 DEF Lleva
  <2> HIDE DEF l
  <2>3. Paso(p, "reservar", l, tabla[p])
    BY <1>1, <2>1, SinTocar
  <2>4. pc'[p] = "reservar" /\ loc'[p] = l
    BY <2>3, TrasPaso
  <2>5. AlAsignar(p)'
    BY <2>2, <2>4 DEF AlAsignar
  <2>6. QED
    BY <1>1, <2>2, <2>3, <2>5, PasoDeHeap DEF DeUnHeap, Lleva, Asignando
<1>3. CASE tabla[p] # <<>>
  <2> DEFINE l == [loc[p] EXCEPT !.seg = 1]
  <2>1. Ir(p, "revisar", l)
    BY <1>3 DEF Decidir
  <2>2. DOMAIN l = DOMAIN loc[p] /\ l.seg = 1
    BY <1>1 DEF Lleva
  <2> HIDE DEF l
  <2>3. Paso(p, "revisar", l, tabla[p])
    BY <1>1, <2>1, SinTocar
  <2>4. pc'[p] = "revisar" /\ loc'[p] = l
    BY <2>3, TrasPaso
  <2>5. AlAsignar(p)'
    BY <1>1, <1>3, <2>2, <2>4 DEF AlAsignar
  <2>6. QED
    BY <1>1, <2>2, <2>3, <2>5, PasoDeHeap DEF DeUnHeap, Lleva, Asignando
<1>4. QED
  BY <1>2, <1>3

LEMMA OcuparCuenta ==
  ASSUME CuentaInv, CandadosInv', NEW p \in Programas, Ocupar(p)
  PROVE  CuentaInv'
<1> DEFINE t == loc[p].t
           I == {k \in 1..Len(tabla[p]) :
                  ~tabla[p][k].mmapeado /\ \E i \in DOMAIN tabla[p][k].heaps : Entra(tabla[p][k].heaps[i], t + TamMeta)}
           k == ConEspacio(p, t)
           s == Partir(tabla[p][k], HuecoDe(tabla[p][k], t), t)
<1>1. /\ pc[p] = "alloc" /\ k # 0 /\ UNCHANGED mapeos
      /\ tabla' = [tabla EXCEPT ![p][k] = s]
      /\ pc' = [pc EXCEPT ![p] = "libre"] /\ loc' = [loc EXCEPT ![p] = LocalVacio]
  BY DEF Ocupar, Esta, Responder, Ir, compartidos
<1>2. k = IF I # {} THEN Min(I) ELSE 0
  BY DEF ConEspacio, SelectInSeq
<1>3. k \in I /\ k \in DOMAIN tabla[p]
  <2> HIDE DEF k, I
  <2>1. I \in SUBSET (1..Len(tabla[p]))
    BY DEF I
  <2>2. QED
    BY <1>1, <1>2, <2>1, HeapElige
<1>4. ~tabla[p][k].mmapeado /\ tabla[p][k].mmapeado \in BOOLEAN /\ "mmapeado" \in DOMAIN tabla[p][k]
  BY <1>3, SuTabla
<1> HIDE DEF k
<1>5. s.mmapeado = FALSE /\ "mmapeado" \in DOMAIN s
  BY <1>4 DEF Partir
<1> HIDE DEF s
<1> DEFINE u == [tabla[p] EXCEPT ![k] = s]
<1>6. DeUnHeap(tabla[p], u)
  BY <1>3, <1>4, <1>5, UnHeapCambia
<1>7. Paso(p, "libre", LocalVacio, u)
  BY <1>1 DEF Paso
<1> HIDE DEF u
<1>8. pc'[p] = "libre" /\ {"clase", "usa", "lista", "seg"} \subseteq DOMAIN LocalVacio
  BY <1>7, TrasPaso DEF LocalVacio
<1>9. AlAsignar(p)'
  BY <1>8 DEF AlAsignar
<1>10. QED
  BY <1>1, <1>6, <1>7, <1>8, <1>9, PasoDeHeap DEF Asignando

(* One segment of heap changes. *)
LEMMA PasoDeUno ==
  ASSUME CuentaInv, CandadosInv', NEW p \in Programas, NEW punto, NEW l, NEW k \in DOMAIN tabla[p],
         ~tabla[p][k].mmapeado, NEW s, s.mmapeado = FALSE, "mmapeado" \in DOMAIN s,
         Paso(p, punto, l, Cambiado(tabla[p], k, s)), mapeos' = mapeos,
         pc[p] \in Asignando \cup {"libre"}, punto \in Asignando \cup {"libre"},
         {"clase", "usa", "lista", "seg"} \subseteq DOMAIN l,
         AlAsignar(p)'
  PROVE  CuentaInv'
<1> DEFINE u == Cambiado(tabla[p], k, s)
<1>1. DeUnHeap(tabla[p], u)
  BY DEF DeUnHeap
<1>2. Paso(p, punto, l, u)
  OBVIOUS
<1> HIDE DEF u
<1>3. QED
  BY <1>1, <1>2, PasoDeHeap

LEMMA RevisarCuenta ==
  ASSUME CuentaInv, CandadosInv', NEW p \in Programas, Revisar(p)
  PROVE  CuentaInv'
<1> DEFINE k == loc[p].seg
           s == tabla[p][k]
           rearma == ~s.mmapeado /\ s.heaps = <<>> /\ lugar >= TamPag
           nuevo  == IF rearma THEN Rearmado(s) ELSE s
           l1 == [loc[p] EXCEPT !.n = HojasQueFaltan(nuevo, loc[p].t)]
           l2 == [loc[p] EXCEPT !.seg = @ + 1]
<1>1. /\ pc[p] = "revisar" /\ k <= Len(tabla[p]) /\ mapeos' = mapeos
      /\ tabla' = [tabla EXCEPT ![p][k] = nuevo]
      /\ \/ Sirve(nuevo, loc[p].t) /\ Ir(p, "reservar", l1)
         \/ Ir(p, "revisar", l2)
  BY DEF Revisar, Esta, compartidos
<1>2. Lleva(p) /\ k \in Nat \ {0} /\ tabla[p] # <<>>
  BY <1>1 DEF CuentaInv, Lleva, AlAsignar
<1>3. k \in DOMAIN tabla[p]
  BY <1>1, <1>2, SuTabla
<1>4. s.mmapeado \in BOOLEAN /\ "mmapeado" \in DOMAIN s
  BY <1>3, SuTabla
<1>5. nuevo.mmapeado = s.mmapeado /\ "mmapeado" \in DOMAIN nuevo /\ (s.mmapeado => nuevo = s)
  BY <1>4 DEF Rearmado
<1>6. /\ l1.seg = k /\ DOMAIN l1 = DOMAIN loc[p] /\ l2.seg = k + 1 /\ DOMAIN l2 = DOMAIN loc[p]
      /\ {"clase", "usa", "lista", "seg"} \subseteq DOMAIN loc[p]
  BY <1>2 DEF Lleva
<1>7. PICK punto, l : /\ Ir(p, punto, l) /\ DOMAIN l = DOMAIN loc[p]
                      /\ \/ punto = "reservar" /\ l.seg = k /\ ~s.mmapeado
                         \/ punto = "revisar" /\ l.seg = k + 1
  <2>1. CASE Sirve(nuevo, loc[p].t) /\ Ir(p, "reservar", l1)
    BY <1>5, <1>6, <2>1 DEF Sirve
  <2>2. CASE Ir(p, "revisar", l2)
    BY <1>6, <2>2
  <2>3. QED
    BY <1>1, <2>1, <2>2
<1> DEFINE u == Cambiado(tabla[p], k, nuevo)
<1> HIDE DEF nuevo, l1, l2
<1>8. Paso(p, punto, l, u)
  BY <1>1, <1>7 DEF Paso, Ir, Cambiado
<1>9. u \in Seq(Range(u)) /\ DOMAIN u = DOMAIN tabla[p] /\ u # <<>> /\ u[k].mmapeado = s.mmapeado
  <2>1. tabla[p] \in Seq(Range(tabla[p]) \cup {nuevo}) /\ DOMAIN tabla[p] = 1..Len(tabla[p])
    BY SuTabla, UnSegmento
  <2>2. u \in Seq(Range(tabla[p]) \cup {nuevo}) /\ Len(u) = Len(tabla[p])
    BY <1>3, <2>1, ExceptSeq DEF Cambiado
  <2>3. u[k] = nuevo
    BY <1>3 DEF Cambiado
  <2>4. u # <<>>
    BY <1>2, <2>1, <2>2, EmptySeq
  <2>5. QED
    BY <1>5, <2>1, <2>2, <2>3, <2>4, EsSecuencia
<1>10. pc'[p] = punto /\ loc'[p] = l /\ tabla'[p] = u
  BY <1>8, TrasPaso
<1>11. AlAsignar(p)'
  BY <1>2, <1>3, <1>7, <1>9, <1>10 DEF AlAsignar
<1>12. pc[p] \in Asignando \cup {"libre"} /\ punto \in Asignando \cup {"libre"}
       /\ {"clase", "usa", "lista", "seg"} \subseteq DOMAIN l
  BY <1>1, <1>6, <1>7 DEF Asignando
<1>13. DeUnHeap(tabla[p], u)
  <2>1. CASE s.mmapeado
    <3>1. u = tabla[p]
      <4>1. nuevo = s /\ tabla[p] \in [1..Len(tabla[p]) -> Range(tabla[p])]
        BY <1>5, <2>1, SuTabla, LenProperties DEF Segmentos
      <4>2. QED
        BY <4>1 DEF Cambiado
    <3>2. QED
      BY <3>1 DEF DeUnHeap
  <2>2. CASE ~s.mmapeado
    BY <1>3, <1>4, <1>5, <2>2 DEF DeUnHeap
  <2>3. QED
    BY <2>1, <2>2
<1> HIDE DEF u
<1>14. QED
  BY <1>1, <1>8, <1>11, <1>12, <1>13, PasoDeHeap

LEMMA ReservarCuenta ==
  ASSUME CuentaInv, CandadosInv', NEW p \in Programas, Reservar(p)
  PROVE  CuentaInv'
<1> DEFINE l == loc[p]
           nuevo  == SegmentoNuevo(BaseNueva(p), l.t, l.n)
           vuelve == ConLiberadas(tabla[p][l.seg], l.n, l.t)
<1>1. /\ pc[p] = "reservar" /\ mapeos' = mapeos /\ Ir(p, "libre", LocalVacio)
      /\ \/ tabla' = tabla
         \/ l.seg = 0 /\ tabla' = [tabla EXCEPT ![p] = Append(@, nuevo)]
         \/ l.seg # 0 /\ tabla' = [tabla EXCEPT ![p][l.seg] = vuelve]
  BY DEF Reservar, Esta, Responder, compartidos
<1>2. l.seg = 0 \/ (l.seg \in DOMAIN tabla[p] /\ ~tabla[p][l.seg].mmapeado)
  BY <1>1 DEF CuentaInv, Lleva, AlAsignar
<1>3. PICK u : DeUnHeap(tabla[p], u) /\ Paso(p, "libre", LocalVacio, u)
  <2>1. CASE tabla' = tabla
    BY <1>1, <2>1, SinTocar DEF DeUnHeap
  <2>2. CASE l.seg = 0 /\ tabla' = [tabla EXCEPT ![p] = Append(@, nuevo)]
    <3>1. nuevo.mmapeado = FALSE /\ "mmapeado" \in DOMAIN nuevo
      BY DEF SegmentoNuevo
    <3> HIDE DEF nuevo
    <3>2. Paso(p, "libre", LocalVacio, Agregado(tabla[p], nuevo))
      BY <1>1, <2>2 DEF Paso, Ir, Agregado
    <3>3. QED
      BY <3>1, <3>2 DEF DeUnHeap
  <2>3. CASE l.seg # 0 /\ tabla' = [tabla EXCEPT ![p][l.seg] = vuelve]
    <3>1. vuelve.mmapeado = FALSE /\ "mmapeado" \in DOMAIN vuelve
      BY <1>2, <2>3, SuTabla DEF ConLiberadas
    <3> HIDE DEF vuelve
    <3>2. Paso(p, "libre", LocalVacio, Cambiado(tabla[p], l.seg, vuelve))
      BY <1>1, <2>3 DEF Paso, Ir, Cambiado
    <3>3. QED
      BY <1>2, <2>3, <3>1, <3>2 DEF DeUnHeap
  <2>4. QED
    BY <1>1, <2>1, <2>2, <2>3
<1>4. pc'[p] = "libre" /\ {"clase", "usa", "lista", "seg"} \subseteq DOMAIN LocalVacio
  BY <1>3, TrasPaso DEF LocalVacio
<1>5. AlAsignar(p)'
  BY <1>4 DEF AlAsignar
<1>6. QED
  BY <1>1, <1>3, <1>4, <1>5, PasoDeHeap DEF Asignando

LEMMA SinLiberadasCuenta ==
  ASSUME CuentaInv, CandadosInv', NEW p \in Programas, SinLiberadas(p)
  PROVE  CuentaInv'
<1> DEFINE n == Len(tabla[p])
           s == Last(tabla[p])
           marcado == [s EXCEPT !.heaps = [@ EXCEPT ![Len(s.heaps)].libre = FALSE]]
           l0 == [loc[p] EXCEPT !.seg = 0, !.n = Hojas(loc[p].t + 2 * TamMeta)]
<1>1. /\ pc[p] = "revisar" /\ mapeos' = mapeos
      /\ (s.mmapeado /\ Ir(p, "reservar", l0)) \/ (~s.mmapeado /\ Ir(p, "ampliar", loc[p]))
      /\ tabla' = tabla \/ (~s.mmapeado /\ tabla' = [tabla EXCEPT ![p][n].heaps[Len(s.heaps)].libre = FALSE])
  BY DEF SinLiberadas, PedirSegmento, Esta, compartidos
<1>2. Lleva(p) /\ tabla[p] # <<>>
  BY <1>1 DEF CuentaInv, Lleva, AlAsignar
<1>3. n \in DOMAIN tabla[p] /\ n \in Nat /\ s = tabla[p][n] /\ s.mmapeado \in BOOLEAN /\ "mmapeado" \in DOMAIN s
  BY <1>2, SuTabla DEF Last
<1>4. l0.seg = 0 /\ DOMAIN l0 = DOMAIN loc[p] /\ {"clase", "usa", "lista", "seg"} \subseteq DOMAIN loc[p]
  BY <1>2 DEF Lleva
<1>5. marcado.mmapeado = s.mmapeado /\ "mmapeado" \in DOMAIN marcado
  BY <1>3
<1> HIDE DEF l0
<1>6. PICK punto, l : /\ Ir(p, punto, l) /\ DOMAIN l = DOMAIN loc[p]
                      /\ \/ punto = "reservar" /\ l.seg = 0
                         \/ punto = "ampliar" /\ ~s.mmapeado
  BY <1>1, <1>4
<1>7. PICK u : /\ Paso(p, punto, l, u) /\ DeUnHeap(tabla[p], u)
               /\ DOMAIN u = DOMAIN tabla[p] /\ Len(u) = n /\ u # <<>> /\ u[n].mmapeado = s.mmapeado
  <2>1. CASE tabla' = tabla
    BY <1>2, <1>3, <1>6, <2>1, SinTocar DEF DeUnHeap
  <2>2. CASE ~s.mmapeado /\ tabla' = [tabla EXCEPT ![p][n].heaps[Len(s.heaps)].libre = FALSE]
    <3>1. tabla' = [tabla EXCEPT ![p] = Cambiado(tabla[p], n, marcado)]
      BY <1>3, <2>2 DEF Cambiado
    <3> HIDE DEF marcado
    <3>2. Paso(p, punto, l, Cambiado(tabla[p], n, marcado))
      BY <1>6, <3>1 DEF Paso, Ir
    <3>3. tabla[p] \in Seq(Range(tabla[p]) \cup {marcado}) /\ DOMAIN tabla[p] = 1..Len(tabla[p])
      BY SuTabla, UnSegmento
    <3>4. Cambiado(tabla[p], n, marcado) \in Seq(Range(tabla[p]) \cup {marcado})
          /\ Len(Cambiado(tabla[p], n, marcado)) = Len(tabla[p])
      BY <1>3, <3>3, ExceptSeq DEF Cambiado
    <3>5. Cambiado(tabla[p], n, marcado) # <<>>
      BY <1>3, <3>3, <3>4, EmptySeq
    <3>6. Cambiado(tabla[p], n, marcado)[n] = marcado /\ DOMAIN Cambiado(tabla[p], n, marcado) = DOMAIN tabla[p]
      BY <1>3 DEF Cambiado
    <3>7. DeUnHeap(tabla[p], Cambiado(tabla[p], n, marcado))
      BY <1>3, <1>5, <2>2 DEF DeUnHeap
    <3>8. QED
      BY <1>5, <3>2, <3>4, <3>5, <3>6, <3>7
  <2>3. QED
    BY <1>1, <2>1, <2>2
<1> HIDE DEF n, s
<1>8. pc'[p] = punto /\ loc'[p] = l /\ tabla'[p] = u
  BY <1>7, TrasPaso
<1>9. AlAsignar(p)'
  BY <1>6, <1>7, <1>8 DEF AlAsignar
<1>10. pc[p] \in Asignando \cup {"libre"} /\ punto \in Asignando \cup {"libre"}
       /\ {"clase", "usa", "lista", "seg"} \subseteq DOMAIN l
  BY <1>1, <1>4, <1>6 DEF Asignando
<1>11. QED
  BY <1>1, <1>7, <1>9, <1>10, PasoDeHeap

LEMMA AmpliarCuenta ==
  ASSUME CuentaInv, CandadosInv', NEW p \in Programas, Ampliar(p)
  PROVE  CuentaInv'
<1> DEFINE k == Len(tabla[p])
           s == tabla[p][k]
           mas == Ampliado(s, Hojas(loc[p].t + TamMeta - Last(s.heaps).espacio), loc[p].t)
<1>1. /\ pc[p] = "ampliar" /\ mapeos' = mapeos /\ Ir(p, "libre", LocalVacio)
      /\ tabla' = tabla \/ tabla' = [tabla EXCEPT ![p][k] = mas]
  BY DEF Ampliar, Esta, Responder, compartidos
<1>2. tabla[p] # <<>> /\ ~s.mmapeado
  BY <1>1 DEF CuentaInv, Lleva, AlAsignar
<1>3. k \in DOMAIN tabla[p] /\ s.mmapeado \in BOOLEAN /\ "mmapeado" \in DOMAIN s
  BY <1>2, SuTabla
<1>4. mas.mmapeado = FALSE /\ "mmapeado" \in DOMAIN mas
  BY <1>2, <1>3 DEF Ampliado
<1> HIDE DEF mas
<1>5. PICK u : DeUnHeap(tabla[p], u) /\ Paso(p, "libre", LocalVacio, u)
  <2>1. CASE tabla' = tabla
    BY <1>1, <2>1, SinTocar DEF DeUnHeap
  <2>2. CASE tabla' = [tabla EXCEPT ![p][k] = mas]
    <3>1. Paso(p, "libre", LocalVacio, Cambiado(tabla[p], k, mas))
      BY <1>1, <2>2 DEF Paso, Ir, Cambiado
    <3>2. QED
      BY <1>2, <1>3, <1>4, <3>1 DEF DeUnHeap
  <2>3. QED
    BY <1>1, <2>1, <2>2
<1>6. pc'[p] = "libre" /\ {"clase", "usa", "lista", "seg"} \subseteq DOMAIN LocalVacio
  BY <1>5, TrasPaso DEF LocalVacio
<1>7. AlAsignar(p)'
  BY <1>6 DEF AlAsignar
<1>8. QED
  BY <1>1, <1>5, <1>6, <1>7, PasoDeHeap DEF Asignando

LEMMA JuntarCuenta ==
  ASSUME CuentaInv, CandadosInv', NEW p \in Programas, Juntar(p) \/ Renumerar(p)
  PROVE  CuentaInv'
<1> DEFINE k == loc[p].seg
           s == tabla[p][k]
<1>1. pc[p] = "juntar" /\ mapeos' = mapeos
  BY DEF Juntar, Renumerar, Esta, compartidos
<1>2. Lleva(p) /\ k \in DOMAIN tabla[p] /\ ~s.mmapeado
  BY <1>1 DEF CuentaInv, Lleva, AlAsignar
<1>3. s.mmapeado \in BOOLEAN /\ "mmapeado" \in DOMAIN s
  BY <1>2, SuTabla
<1>4. CASE Juntar(p)
  <2> DEFINE i == loc[p].n
             l == [loc[p] EXCEPT !.n = i - 1]
             dos   == ~(Len(s.heaps) = 1) /\ i > 1 /\ s.heaps[i - 1].libre
             nuevo == IF ~s.heaps[i].libre THEN s
                      ELSE IF Len(s.heaps) = 1 THEN SinPaginas(s)
                      ELSE IF ~dos THEN s
                      ELSE IF i = Len(s.heaps) THEN SinCola(s, i) ELSE Fundidos(s, i)
  <2>1. Ir(p, "juntar", l) /\ tabla' = [tabla EXCEPT ![p][k] = nuevo]
    BY <1>4 DEF Juntar
  <2>2. nuevo \in {s, SinPaginas(s), SinCola(s, i), Fundidos(s, i)}
    OBVIOUS
  <2>3. l.seg = k /\ DOMAIN l = DOMAIN loc[p] /\ {"clase", "usa", "lista", "seg"} \subseteq DOMAIN loc[p]
    BY <1>2 DEF Lleva
  <2> HIDE DEF nuevo, l
  <2>4. nuevo.mmapeado = FALSE /\ "mmapeado" \in DOMAIN nuevo
    BY <1>2, <1>3, <2>2 DEF SinPaginas, SinCola, Fundidos
  <2>5. Paso(p, "juntar", l, Cambiado(tabla[p], k, nuevo))
    BY <2>1 DEF Paso, Ir, Cambiado
  <2>6. pc'[p] = "juntar" /\ loc'[p] = l /\ tabla'[p] = Cambiado(tabla[p], k, nuevo)
    BY <2>5, TrasPaso
  <2>7. DOMAIN tabla'[p] = DOMAIN tabla[p] /\ tabla'[p][k] = nuevo
    BY <1>2, <2>6 DEF Cambiado
  <2>8. AlAsignar(p)'
    BY <1>2, <2>3, <2>4, <2>6, <2>7 DEF AlAsignar
  <2>9. pc[p] \in Asignando \cup {"libre"} /\ "juntar" \in Asignando \cup {"libre"}
    BY <1>1 DEF Asignando
  <2>10. QED
    BY <1>1, <1>2, <2>3, <2>4, <2>5, <2>8, <2>9, PasoDeUno
<1>5. CASE Renumerar(p)
  <2> DEFINE nuevo == [s EXCEPT !.heaps = [i \in DOMAIN @ |-> [@[i] EXCEPT !.indice = i - 1]]]
  <2>1. Ir(p, "libre", LocalVacio) /\ tabla' = [tabla EXCEPT ![p][k] = nuevo]
    BY <1>5 DEF Renumerar, Responder
  <2>2. nuevo.mmapeado = FALSE /\ "mmapeado" \in DOMAIN nuevo
    BY <1>2, <1>3
  <2> HIDE DEF nuevo
  <2>3. Paso(p, "libre", LocalVacio, Cambiado(tabla[p], k, nuevo))
    BY <2>1 DEF Paso, Ir, Cambiado
  <2>4. pc'[p] = "libre" /\ {"clase", "usa", "lista", "seg"} \subseteq DOMAIN LocalVacio
    BY <2>3, TrasPaso DEF LocalVacio
  <2>5. AlAsignar(p)'
    BY <2>4 DEF AlAsignar
  <2>6. pc[p] \in Asignando \cup {"libre"} /\ "libre" \in Asignando \cup {"libre"}
    BY <1>1 DEF Asignando
  <2>7. QED
    BY <1>1, <1>2, <2>2, <2>3, <2>4, <2>5, <2>6, PasoDeUno
<1>6. QED
  BY <1>4, <1>5

LEMMA PedirHeapCuenta ==
  ASSUME CuentaInv, CandadosInv', NEW p \in Programas, EmpezarAlloc(p) \/ EmpezarFree(p)
  PROVE  CuentaInv'
<1>1. pc[p] = "libre" /\ mapeos' = mapeos
  BY DEF EmpezarAlloc, EmpezarFree, Esta, compartidos
<1>2. CASE EmpezarAlloc(p)
  <2>1. PICK t : Ir(p, "alloc", [LocalVacio EXCEPT !.clase = "heap", !.t = t]) /\ tabla' = tabla
    BY <1>2 DEF EmpezarAlloc
  <2> DEFINE l == [LocalVacio EXCEPT !.clase = "heap", !.t = t]
  <2>2. {"clase", "usa", "lista", "seg"} \subseteq DOMAIN l
    BY DEF LocalVacio
  <2>3. Ir(p, "alloc", l) /\ tabla' = tabla
    BY <2>1
  <2> HIDE DEF l
  <2>4. Paso(p, "alloc", l, tabla[p])
    BY <2>3, SinTocar
  <2>5. pc'[p] = "alloc"
    BY <2>4, TrasPaso
  <2>6. AlAsignar(p)' /\ DeUnHeap(tabla[p], tabla[p])
    BY <2>5 DEF AlAsignar, DeUnHeap
  <2>7. pc[p] \in Asignando \cup {"libre"} /\ "alloc" \in Asignando \cup {"libre"}
    BY <1>1 DEF Asignando
  <2>8. QED
    BY <1>1, <2>2, <2>4, <2>6, <2>7, PasoDeHeap
<1>3. CASE EmpezarFree(p)
  <2>1. PICK b \in dado[p] :
         LET k == SegDe(p, b.dir)
             s == tabla[p][k]
             i == IF k = 0 \/ s.mmapeado THEN 0
                  ELSE SelectInSeq(s.heaps, LAMBDA h : h.dir + TamMeta = b.dir - s.base)
         IN /\ i # 0
            /\ Ir(p, "juntar", [LocalVacio EXCEPT !.clase = "heap", !.seg = k, !.n = Len(s.heaps)])
            /\ tabla' = [tabla EXCEPT ![p][k].heaps[i].libre = TRUE]
    BY <1>3 DEF EmpezarFree
  <2> DEFINE I == {j \in 1..Len(tabla[p]) : SinSigno(b.dir - tabla[p][j].base) < tabla[p][j].tamanio}
             k == SegDe(p, b.dir)
             s == tabla[p][k]
             i == IF k = 0 \/ s.mmapeado THEN 0
                  ELSE SelectInSeq(s.heaps, LAMBDA h : h.dir + TamMeta = b.dir - s.base)
             l == [LocalVacio EXCEPT !.clase = "heap", !.seg = k, !.n = Len(s.heaps)]
             nuevo == [s EXCEPT !.heaps = [@ EXCEPT ![i].libre = TRUE]]
  <2>2. k # 0 /\ ~s.mmapeado /\ Ir(p, "juntar", l) /\ tabla' = [tabla EXCEPT ![p][k].heaps[i].libre = TRUE]
    BY <2>1
  <2>3. k = IF I # {} THEN Min(I) ELSE 0
    BY DEF SegDe, SelectInSeq
  <2>4. k \in DOMAIN tabla[p]
    <3> HIDE DEF k, I
    <3>1. I \in SUBSET (1..Len(tabla[p]))
      BY DEF I
    <3>2. QED
      BY <2>2, <2>3, <3>1, HeapElige
  <2>5. s.mmapeado \in BOOLEAN /\ "mmapeado" \in DOMAIN s
    BY <2>4, SuTabla
  <2> HIDE DEF i, k
  <2>6. nuevo.mmapeado = FALSE /\ "mmapeado" \in DOMAIN nuevo
    BY <2>2, <2>5
  <2>7. tabla' = [tabla EXCEPT ![p] = Cambiado(tabla[p], k, nuevo)]
    BY <2>2 DEF Cambiado
  <2>8. {"clase", "usa", "lista", "seg"} \subseteq DOMAIN l /\ l.seg = k
    BY DEF LocalVacio
  <2> HIDE DEF l, nuevo
  <2>9. Paso(p, "juntar", l, Cambiado(tabla[p], k, nuevo))
    BY <2>2, <2>7 DEF Paso, Ir
  <2>10. pc'[p] = "juntar" /\ loc'[p] = l /\ tabla'[p] = Cambiado(tabla[p], k, nuevo)
    BY <2>9, TrasPaso
  <2>11. DOMAIN tabla'[p] = DOMAIN tabla[p] /\ tabla'[p][k] = nuevo
    BY <2>4, <2>10 DEF Cambiado
  <2>12. AlAsignar(p)'
    BY <2>4, <2>6, <2>8, <2>10, <2>11 DEF AlAsignar
  <2>13. pc[p] \in Asignando \cup {"libre"} /\ "juntar" \in Asignando \cup {"libre"}
    BY <1>1 DEF Asignando
  <2>14. QED
    BY <1>1, <2>2, <2>4, <2>6, <2>8, <2>9, <2>12, <2>13, PasoDeUno
<1>4. QED
  BY <1>2, <1>3

(* Who maps nothing, unmaps nothing and closes nothing moves on. *)
LEMMA IgualesCuenta ==
  ASSUME CuentaInv, UNCHANGED <<pc, loc, tabla, mapeos, candados>>
  PROVE  CuentaInv'
<1>1. \A p \in Programas : MapaDe(p)' = MapaDe(p)
  BY DEF MapaDe, Pares, Mapas
<1>2. /\ \A l : Quienes(l)' = Quienes(l)
      /\ \A l : YaDescontados(l)' = YaDescontados(l)
  BY <1>1 DEF Quienes, YaDescontados
<1>3. CandadosInv' /\ Tablas' /\ UnaEntrada' /\ ConEntrada' /\ Cuentan'
  BY <1>1, <1>2 DEF CuentaInv, CandadosInv, CandadosDeSuDueno, candados, Tablas, Segmentos, SinDobles, Mapas,
     UnaEntrada, ConEntrada, Cuentan
<1>4. ASSUME NEW p \in Programas PROVE Lleva(p)'
  <2>1. Lleva(p)
    BY DEF CuentaInv
  <2>2. \A a : Libre(p, a) => Libre(p, a)'
    BY <1>1 DEF Libre
  <2>3. (AlMapear(p) => AlMapear(p)') /\ (AlDesmapear(p) => AlDesmapear(p)')
    BY <1>1, <2>2 DEF AlMapear, AlDesmapear
  <2>4. AlCerrar(p)' /\ AlAsignar(p)'
    BY <2>1 DEF Lleva, AlCerrar, AlAsignar
  <2>5. QED
    <3>1. {"clase", "usa", "lista", "seg"} \subseteq DOMAIN loc'[p] /\ ConClase(pc'[p], loc'[p].clase)
      BY <2>1 DEF Lleva
    <3>2. /\ pc'[p] \in Mapeando => AlMapear(p)'
          /\ pc'[p] \in Desmapeando => AlDesmapear(p)'
      BY <2>1, <2>3 DEF Lleva
    <3>3. QED
      BY <2>4, <3>1, <3>2 DEF Lleva
<1>5. QED
  BY <1>3, <1>4 DEF CuentaInv

-----------------------------------------------------------------------------
(* The mappings. *)

Tranquilos == {"nuevo", "libre", "cargar", "traer", "tocar", "fin", "muerto"}

LEMMA PasoTranquilo ==
  ASSUME CuentaInv, CandadosInv', NEW p \in Programas, NEW punto \in Tranquilos, NEW l, Ir(p, punto, l),
         tabla' = tabla, mapeos' = mapeos, pc[p] \in Tranquilos \cup {"cerrar"},
         {"clase", "usa", "lista", "seg"} \subseteq DOMAIN l
  PROVE  CuentaInv'
<1>1. Paso(p, punto, l, tabla[p])
  BY SinTocar
<1>2. pc'[p] = punto /\ loc'[p] = l
  BY <1>1, TrasPaso
<1>3. punto \notin Mapeando \cup Desmapeando \cup Cerrando \cup Asignando
      /\ {pc[p], punto} \cap {"quitar", "olvidar"} = {}
  BY DEF Tranquilos, Mapeando, Desmapeando, Cerrando, Asignando
<1>4. Lleva(p)'
  <2>1. ConClase(pc'[p], loc'[p].clase)
    BY <1>2, <1>3 DEF ConClase
  <2>2. AlCerrar(p)' /\ AlAsignar(p)'
    BY <1>2, <1>3 DEF AlCerrar, AlAsignar, Cerrando, Asignando
  <2>3. QED
    BY <1>2, <1>3, <2>1, <2>2 DEF Lleva
<1>5. Segmentos(tabla[p]) /\ SinDobles(tabla[p])
  BY SuTabla
<1>6. QED
  BY <1>1, <1>3, <1>4, <1>5, PasoQuieto

LEMMA SuLocal ==
  ASSUME CuentaInv, NEW p \in Programas
  PROVE  /\ {"clase", "usa", "lista", "seg"} \subseteq DOMAIN loc[p]
         /\ {"clase", "usa", "lista", "seg"} \subseteq DOMAIN LocalVacio
BY DEF CuentaInv, Lleva, LocalVacio

LEMMA AccesoCuenta ==
  ASSUME CuentaInv, CandadosInv', NEW p \in Programas,
         \/ Iniciar(p) \/ Morir(p) \/ EmpezarAcceso(p) \/ Cargar(p) \/ Marcar(p) \/ Pegar(p) \/ YaEsta(p)
         \/ Tocar(p) \/ Terminar(p) \/ Cerrado(p)
  PROVE  CuentaInv'
<1>1. tabla' = tabla /\ mapeos' = mapeos /\ pc[p] \in Tranquilos \cup {"cerrar"}
  BY DEF Iniciar, Morir, EmpezarAcceso, Cargar, Marcar, Pegar, YaEsta, Tocar, Terminar, Cerrado, compartidos,
     Esta, Tranquilos
<1>2. CASE Iniciar(p) \/ Morir(p) \/ Terminar(p) \/ Cerrado(p)
  <2>1. Ir(p, "libre", LocalVacio) \/ Ir(p, "muerto", LocalVacio) \/ Ir(p, "fin", LocalVacio)
    BY <1>2 DEF Iniciar, Morir, Terminar, Cerrado, Responder
  <2>2. {"libre", "muerto", "fin"} \subseteq Tranquilos
    BY DEF Tranquilos
  <2>3. QED
    BY <1>1, <2>1, <2>2, SuLocal, PasoTranquilo
<1>3. CASE EmpezarAcceso(p)
  <2>1. PICK clase, trozo, lista, usa, v :
          Ir(p, "cargar", [LocalVacio EXCEPT !.clase = clase, !.trozo = trozo, !.lista = lista, !.usa = usa, !.valor = v])
    BY <1>3 DEF EmpezarAcceso
  <2> DEFINE l == [LocalVacio EXCEPT !.clase = clase, !.trozo = trozo, !.lista = lista, !.usa = usa, !.valor = v]
  <2>2. DOMAIN l = DOMAIN LocalVacio /\ Ir(p, "cargar", l) /\ "cargar" \in Tranquilos
    BY <2>1 DEF LocalVacio, Tranquilos
  <2> HIDE DEF l
  <2>3. QED
    BY <1>1, <2>2, SuLocal, PasoTranquilo
<1>4. CASE Cargar(p) \/ Marcar(p) \/ Pegar(p) \/ YaEsta(p) \/ Tocar(p)
  <2>1. PICK punto \in {"traer", "tocar"} : \E l : Ir(p, punto, l) /\ DOMAIN l = DOMAIN loc[p]
    <3>1. CASE Cargar(p)
      <4> DEFINE falta == \E i \in Trozo(p) : hojas[loc[p].lista][i + 1] = Nada
                 l == [loc[p] EXCEPT !.hoja = Inicial(loc[p].trozo),
                        !.buffer = IF falta THEN Leido(loc[p].usa.archivo, Cardinality(Trozo(p)) * TamPag) ELSE <<>>]
      <4>1. Ir(p, "traer", l) \/ Ir(p, "tocar", l)
        BY <3>1 DEF Cargar
      <4>2. DOMAIN l = DOMAIN loc[p]
        OBVIOUS
      <4> HIDE DEF l
      <4>3. QED
        BY <4>1, <4>2
    <3>2. CASE Marcar(p)
      <4> DEFINE l == [loc[p] EXCEPT !.hojaMarcada = TRUE]
      <4>1. Ir(p, "traer", l)
        BY <3>2 DEF Marcar
      <4>2. DOMAIN l = DOMAIN loc[p]
        OBVIOUS
      <4> HIDE DEF l
      <4>3. QED
        BY <4>1, <4>2
    <3>3. CASE Pegar(p)
      <4> DEFINE l == [loc[p] EXCEPT !.hojaMarcada = FALSE, !.hoja = @ + 1]
      <4>1. Ir(p, "traer", l)
        BY <3>3 DEF Pegar
      <4>2. DOMAIN l = DOMAIN loc[p]
        OBVIOUS
      <4> HIDE DEF l
      <4>3. QED
        BY <4>1, <4>2
    <3>4. CASE YaEsta(p)
      <4> DEFINE l == [loc[p] EXCEPT !.hoja = @ + 1]
                 m == [loc[p] EXCEPT !.hoja = Inicial(loc[p].trozo), !.buffer = <<>>]
      <4>1. Ir(p, "traer", l) \/ Ir(p, "tocar", m)
        BY <3>4 DEF YaEsta
      <4>2. DOMAIN l = DOMAIN loc[p] /\ DOMAIN m = DOMAIN loc[p]
        OBVIOUS
      <4> HIDE DEF l, m
      <4>3. QED
        BY <4>1, <4>2
    <3>5. CASE Tocar(p)
      <4> DEFINE l == [loc[p] EXCEPT !.hoja = @ + 1,
                        !.buffer = IF NoHay(p) \/ loc[p].clase # "sync" THEN @ ELSE @ \o Hoja(p)]
      <4>1. Ir(p, "tocar", l)
        BY <3>5 DEF Tocar
      <4>2. DOMAIN l = DOMAIN loc[p]
        OBVIOUS
      <4> HIDE DEF l
      <4>3. QED
        BY <4>1, <4>2
    <3>6. QED
      BY <1>4, <3>1, <3>2, <3>3, <3>4, <3>5
  <2>2. PICK l : Ir(p, punto, l) /\ DOMAIN l = DOMAIN loc[p]
    BY <2>1
  <2>3. punto \in Tranquilos
    BY DEF Tranquilos
  <2>4. QED
    BY <1>1, <2>2, <2>3, SuLocal, PasoTranquilo
<1>5. QED
  BY <1>2, <1>3, <1>4

Entrada == [archivo : Archivos, contador : Int, lista : 1..Listas]

LEMMA LasEntradas ==
  ASSUME CuentaInv
  PROVE  mapeos \in Seq(Entrada) /\ DOMAIN mapeos = 1..Len(mapeos) /\ Len(mapeos) \in Nat
         /\ \A i \in DOMAIN mapeos : mapeos[i] \in Entrada /\ mapeos[i].contador \in Int
<1>1. mapeos \in Seq(Entrada)
  BY DEF CuentaInv, Tablas, Entrada
<1>2. mapeos \in [1..Len(mapeos) -> Entrada] /\ Len(mapeos) \in Nat
  BY <1>1, LenProperties
<1>3. \A i \in DOMAIN mapeos : mapeos[i] \in Entrada
  BY <1>2
<1>4. QED
  BY <1>1, <1>2, <1>3 DEF Entrada

LEMMA SuEntrada ==
  ASSUME CuentaInv, NEW p \in Programas, NEW a, NEW l, <<a, l>> \in MapaDe(p)
  PROVE  /\ a \in Archivos /\ l \in 1..Listas /\ p \in Quienes(l)
         /\ \E u \in Usa[p] : u.archivo = a
         /\ \E i \in DOMAIN mapeos : /\ mapeos[i].archivo = a /\ mapeos[i].lista = l
                                     /\ \A j \in DOMAIN mapeos : mapeos[j].archivo = a \/ mapeos[j].lista = l => j = i
<1>1. /\ \E u \in Usa[p] : u.archivo = a
      /\ \E i \in DOMAIN mapeos : mapeos[i].archivo = a /\ mapeos[i].lista = l
  BY DEF CuentaInv, ConEntrada
<1>2. PICK i \in DOMAIN mapeos : mapeos[i].archivo = a /\ mapeos[i].lista = l
  BY <1>1
<1>3. mapeos[i].archivo \in Archivos /\ mapeos[i].lista \in 1..Listas
  BY LasEntradas DEF Entrada
<1>4. \A j \in DOMAIN mapeos : mapeos[j].archivo = a \/ mapeos[j].lista = l => j = i
  BY <1>2 DEF CuentaInv, UnaEntrada
<1>5. a \in Archivos /\ l \in 1..Listas
  BY <1>2, <1>3
<1>6. QED
  BY <1>1, <1>2, <1>4, <1>5 DEF Quienes

LEMMA SusPares ==
  ASSUME NEW t, NEW a, NEW l
  PROVE  <<a, l>> \in Pares(t) <=> \E k \in Mapas(t) : t[k].archivo = a /\ t[k].lista = l
BY DEF Pares

(* Who maps a file is in it. *)
LEMMA QuienMapea ==
  ASSUME CuentaInv, NEW q \in Programas
  PROVE  /\ pc[q] \in Mapeando => loc[q].clase = "map" /\ loc[q].usa.archivo \in EnObra(q)
         /\ pc[q] \in Cerrando =>
              loc[q].clase = "close" /\ \A a, l : <<a, l>> \in MapaDe(q) => a \in EnObra(q)
         /\ pc[q] \in Desmapeando => loc[q].clase = "unmap" /\ Mapea(q)
         /\ MapaDe(q) # {} <=> Mapea(q)
<1>1. Lleva(q)
  BY DEF CuentaInv
<1>2. pc[q] \in Mapeando => loc[q].clase = "map" /\ loc[q].usa.archivo \in EnObra(q)
  <2> SUFFICES ASSUME pc[q] \in Mapeando PROVE loc[q].clase = "map" /\ loc[q].usa.archivo \in EnObra(q)
    OBVIOUS
  <2>1. loc[q].clase = "map" /\ loc[q].usa \in Usa[q]
    BY <1>1 DEF Lleva, ConClase, AlMapear
  <2>2. loc[q].usa # Nada
    BY <2>1, SegmentosSupuesto
  <2>3. QED
    BY <2>1, <2>2 DEF EnObra
<1>3. pc[q] \in Cerrando => loc[q].clase = "close"
  BY <1>1 DEF Lleva, ConClase
<1>4. ASSUME pc[q] \in Cerrando, NEW a, NEW l, <<a, l>> \in MapaDe(q) PROVE a \in EnObra(q)
  <2>1. PICK k \in Mapas(tabla[q]) : tabla[q][k].archivo = a
    BY <1>4, SusPares DEF MapaDe
  <2>2. QED
    BY <1>3, <1>4, <2>1 DEF EnObra, Mapas
<1>5. MapaDe(q) # {} <=> Mapea(q)
  BY DEF MapaDe, Pares, Mapas, Mapea
<1>6. pc[q] \in Desmapeando => loc[q].clase = "unmap" /\ MapaDe(q) # {}
  BY <1>1 DEF Lleva, ConClase, AlDesmapear
<1>7. QED
  BY <1>2, <1>3, <1>4, <1>5, <1>6

LEMMA EmpezarMapaCuenta ==
  ASSUME CuentaInv, CandadosInv', TodosCuidadosos, SinRepetir, NEW p \in Programas, EmpezarMapa(p)
  PROVE  CuentaInv'
<1>1. PICK u \in Usa[p] :
        /\ ~Choca(p, "map", u.archivo) /\ SegmentosDe(p, u.archivo) = {}
        /\ Ir(p, "mapear", [LocalVacio EXCEPT !.clase = "map", !.usa = u])
  BY DEF EmpezarMapa, SinRepetir
<1> DEFINE l == [LocalVacio EXCEPT !.clase = "map", !.usa = u]
           a == u.archivo
<1>2. /\ pc[p] = "libre" /\ tabla' = tabla /\ mapeos' = mapeos /\ Ir(p, "mapear", l)
  BY <1>1 DEF EmpezarMapa, Esta, compartidos
<1>3. l.clase = "map" /\ l.usa = u /\ {"clase", "usa", "lista", "seg"} \subseteq DOMAIN l
  BY DEF LocalVacio
<1> HIDE DEF l
<1>4. Paso(p, "mapear", l, tabla[p])
  BY <1>2, SinTocar
<1>5. /\ pc'[p] = "mapear" /\ loc'[p] = l /\ tabla'[p] = tabla[p] /\ MapaDe(p)' = MapaDe(p)
      /\ \A q \in Programas \ {p} :
           pc'[q] = pc[q] /\ loc'[q] = loc[q] /\ tabla'[q] = tabla[q] /\ Pares(tabla'[q]) = Pares(tabla[q])
  BY <1>4, TrasPaso DEF MapaDe
<1>6. ASSUME NEW q \in Programas \ {p}
      PROVE  /\ pc[q] \in Mapeando => loc[q].usa.archivo # a
             /\ pc[q] \in Cerrando => \A h \in 1..Listas : <<a, h>> \notin MapaDe(q)
  <2>1. ~(a \in EnObra(q) /\ loc[q].clase \in {"map", "close"})
    BY <1>1 DEF Choca, Opuestas, TodosCuidadosos
  <2>2. QED
    BY <2>1, QuienMapea
<1>7. \A h \in 1..Listas : <<a, h>> \notin MapaDe(p)
  BY <1>1, SusPares DEF MapaDe, SegmentosDe, Mapas
<1>8. Libre(p, a)'
  BY <1>5, <1>6, <1>7 DEF Libre, MapaDe
<1>9. Lleva(p)'
  <2>1. AlMapear(p)'
    BY <1>3, <1>5, <1>8 DEF AlMapear
  <2>2. "mapear" \notin Desmapeando \cup Cerrando \cup Asignando
    BY DEF Desmapeando, Cerrando, Asignando
  <2>3. ConClase(pc'[p], loc'[p].clase) /\ AlCerrar(p)' /\ AlAsignar(p)'
    BY <1>3, <1>5, <2>2 DEF ConClase, AlCerrar, AlAsignar
  <2>4. QED
    BY <1>3, <1>5, <2>1, <2>2, <2>3 DEF Lleva
<1>10. ASSUME NEW q \in Programas \ {p} PROVE SinMolestar(p, q, "mapear", l, tabla[p])
  <2>1. Lleva(q)
    BY DEF CuentaInv
  <2>2. pc[q] = "publicar" => \A i \in DOMAIN mapeos' : mapeos'[i].archivo # loc[q].usa.archivo
    BY <1>2, <2>1 DEF Lleva, AlMapear, Mapeando
  <2>3. pc[q] = "olvidar" => \E i \in DOMAIN mapeos' : mapeos'[i].lista = loc[q].lista /\ mapeos'[i].contador = 0
    BY <1>2, <2>1 DEF Lleva, AlCerrar
  <2>4. "mapear" \notin Cerrando
    BY DEF Cerrando
  <2>5. QED
    BY <1>3, <1>6, <2>2, <2>3, <2>4 DEF SinMolestar
<1>11. Segmentos(tabla[p]) /\ SinDobles(tabla[p])
  BY SuTabla
<1>12. {pc[p], "mapear"} \cap {"quitar", "olvidar"} = {}
  BY <1>2
<1>13. QED
  BY <1>2, <1>4, <1>9, <1>10, <1>11, <1>12, PasoIgual

LEMMA MapaTablaCuenta ==
  ASSUME CuentaInv, CandadosInv', UnModo, NEW p \in Programas, MapaTabla(p)
  PROVE  CuentaInv'
<1> DEFINE l == [loc[p] EXCEPT !.base = BaseNueva(p)]
<1>0. PICK a : a = loc[p].usa.archivo
  OBVIOUS
<1>1. PICK punto : /\ Ir(p, punto, l)
                   /\ \/ loc[p].usa.compartido /\ punto = "buscar_mapeo"
                      \/ ~loc[p].usa.compartido /\ punto = "publicar"
  BY DEF MapaTabla
<1>2. pc[p] = "mapear" /\ tabla' = tabla /\ mapeos' = mapeos
  BY DEF MapaTabla, Esta, compartidos
<1>3. Lleva(p) /\ AlMapear(p) /\ loc[p].clase = "map"
  BY <1>2 DEF CuentaInv, Lleva, Mapeando, ConClase
<1>4. l.clase = "map" /\ l.usa = loc[p].usa /\ {"clase", "usa", "lista", "seg"} \subseteq DOMAIN l
  BY <1>3 DEF Lleva
<1> HIDE DEF l
<1>5. Paso(p, punto, l, tabla[p])
  BY <1>1, <1>2, SinTocar
<1>6. /\ pc'[p] = punto /\ loc'[p] = l /\ tabla'[p] = tabla[p] /\ MapaDe(p)' = MapaDe(p)
      /\ \A q \in Programas \ {p} :
           pc'[q] = pc[q] /\ loc'[q] = loc[q] /\ tabla'[q] = tabla[q] /\ Pares(tabla'[q]) = Pares(tabla[q])
  BY <1>5, TrasPaso DEF MapaDe
<1>7. Libre(p, a)'
  BY <1>0, <1>3, <1>6 DEF AlMapear, Libre, MapaDe
<1>8. ~loc[p].usa.compartido => \A i \in DOMAIN mapeos : mapeos[i].archivo # a
  <2> SUFFICES ASSUME ~loc[p].usa.compartido, NEW i \in DOMAIN mapeos, mapeos[i].archivo = a
               PROVE  FALSE
    OBVIOUS
  <2>1. PICK q \in Programas : \E b \in Archivos : <<b, mapeos[i].lista>> \in MapaDe(q)
    BY DEF CuentaInv, Cuentan, Quienes
  <2>2. PICK b \in Archivos : <<b, mapeos[i].lista>> \in MapaDe(q)
    BY <2>1
  <2>3. b = a /\ mapeos[i].lista \in 1..Listas
    BY <2>2, SuEntrada
  <2>4. q # p
    BY <1>0, <1>3, <2>2, <2>3 DEF AlMapear, Libre
  <2>5. PICK w \in Usa[q] : w.archivo = a
    BY <2>2, <2>3, SuEntrada
  <2>6. loc[p].usa.compartido
    BY <1>0, <1>3, <2>4, <2>5 DEF UnModo, AlMapear
  <2>7. QED
    BY <2>6
<1>9. Lleva(p)'
  <2>1. AlMapear(p)'
    <3>1. loc'[p].usa \in Usa[p] /\ loc'[p].usa.archivo = a
      BY <1>0, <1>3, <1>4, <1>6 DEF AlMapear
    <3>2. pc'[p] = "publicar" => \A i \in DOMAIN mapeos' : mapeos'[i].archivo # a
      BY <1>1, <1>2, <1>6, <1>8
    <3>3. QED
      BY <1>7, <3>1, <3>2 DEF AlMapear
  <2>2. punto \notin Desmapeando \cup Cerrando \cup Asignando
    BY <1>1 DEF Desmapeando, Cerrando, Asignando
  <2>3. ConClase(pc'[p], loc'[p].clase) /\ AlCerrar(p)' /\ AlAsignar(p)'
    BY <1>4, <1>6, <2>2 DEF ConClase, AlCerrar, AlAsignar, Cerrando, Asignando
  <2>4. QED
    BY <1>4, <1>6, <2>1, <2>2, <2>3 DEF Lleva
<1>10. Segmentos(tabla[p]) /\ SinDobles(tabla[p])
  BY SuTabla
<1>11. {pc[p], punto} \cap {"quitar", "olvidar"} = {} /\ pc[p] \in Mapeando /\ punto \notin Cerrando
  BY <1>1, <1>2 DEF Mapeando, Cerrando
<1>12. QED
  BY <1>2, <1>4, <1>5, <1>9, <1>10, <1>11, PasoQuieto

(* A set of programs with one more, or one less. *)
LEMMA UnoMas ==
  ASSUME NEW S, IsFiniteSet(S), NEW x
  PROVE  /\ IsFiniteSet(S \cup {x}) /\ IsFiniteSet(S \ {x}) /\ Cardinality(S) \in Nat
         /\ x \notin S => Cardinality(S \cup {x}) = Cardinality(S) + 1
         /\ x \in S => Cardinality(S \ {x}) = Cardinality(S) - 1
         /\ Cardinality(S) = 0 <=> S = {}
BY FS_AddElement, FS_RemoveElement, FS_CardinalityType, FS_EmptySet

LEMMA SuCabeza ==
  ASSUME CuentaInv, NEW p \in Programas, tabla[p] # <<>>
  PROVE  /\ 1 \in DOMAIN tabla[p] /\ Head(tabla[p]) = tabla[p][1] /\ Tail(tabla[p]) = RemoveAt(tabla[p], 1)
         /\ Head(tabla[p]).mmapeado \in BOOLEAN
         /\ Head(tabla[p]).mmapeado => <<Head(tabla[p]).archivo, Head(tabla[p]).lista>> \in MapaDe(p)
<1>1. Segmentos(tabla[p])
  BY SuTabla
<1>2. 1 \in DOMAIN tabla[p] /\ Head(tabla[p]) = tabla[p][1] /\ Tail(tabla[p]) = RemoveAt(tabla[p], 1)
  BY <1>1, QuitaPrimero
<1>3. tabla[p][1].mmapeado \in BOOLEAN
  BY <1>2, SuTabla
<1>4. tabla[p][1].mmapeado => <<tabla[p][1].archivo, tabla[p][1].lista>> \in MapaDe(p)
  BY <1>2, SusPares DEF MapaDe, Mapas
<1>5. QED
  BY <1>2, <1>3, <1>4

(* Who has counted out of a list has it still; nobody closes while another unmaps. *)
LEMMA Descontados ==
  ASSUME CuentaInv, NEW p \in Programas
  PROVE  /\ \A l : p \in YaDescontados(l) => p \in Quienes(l)
         /\ pc[p] \in {"descontar", "olvidar"} => p \in Quienes(loc[p].lista) /\ MapaDe(p) # {}
         /\ \A q \in Programas :
              /\ pc[p] \in Cerrando /\ pc[q] \in Cerrando => p = q
              /\ pc[p] = "quitar" /\ pc[q] = "quitar" => p = q
              /\ ~(pc[p] \in Desmapeando /\ pc[q] \in {"descontar", "olvidar"})
<1>1. ASSUME NEW q \in Programas, pc[q] \in {"descontar", "olvidar"}
      PROVE  q \in Quienes(loc[q].lista) /\ MapaDe(q) # {}
  <2>1. tabla[q] # <<>> /\ Head(tabla[q]).mmapeado /\ loc[q].lista = Head(tabla[q]).lista
    BY <1>1 DEF CuentaInv, Lleva, AlCerrar
  <2>2. <<Head(tabla[q]).archivo, loc[q].lista>> \in MapaDe(q)
    BY <2>1, SuCabeza
  <2>3. QED
    BY <2>2, SuEntrada
<1>2. ASSUME pc[p] = "quitar" PROVE p \in Quienes(loc[p].lista)
  <2>1. <<loc[p].usa.archivo, loc[p].lista>> \in MapaDe(p)
    BY <1>2 DEF CuentaInv, Lleva, AlDesmapear, Desmapeando
  <2>2. QED
    BY <2>1, SuEntrada
<1>3. ASSUME NEW q \in Programas, pc[p] \in Desmapeando, pc[q] \in {"descontar", "olvidar"} PROVE FALSE
  <2>1. p # q /\ pc[q] \in Cerrando
    BY <1>3 DEF Desmapeando, Cerrando
  <2>2. MapaDe(q) = {}
    BY <1>3, <2>1 DEF CuentaInv, Lleva, AlDesmapear
  <2>3. QED
    BY <1>1, <1>3, <2>2
<1>4. ASSUME NEW q \in Programas
      PROVE  /\ pc[p] \in Cerrando /\ pc[q] \in Cerrando => p = q
             /\ pc[p] = "quitar" /\ pc[q] = "quitar" => p = q
  BY DEF CuentaInv, CandadosInv, CandadosDeSuDueno, Bajando
<1>5. \A l : p \in YaDescontados(l) => p \in Quienes(l)
  BY <1>1, <1>2 DEF YaDescontados
<1>6. QED
  BY <1>1, <1>3, <1>4, <1>5

(* The entries are the same, but for the count of one. *)
SoloCuenta(i, c) ==
  /\ mapeos' \in Seq(Entrada) /\ DOMAIN mapeos' = DOMAIN mapeos
  /\ \A j \in DOMAIN mapeos :
       /\ mapeos'[j].archivo = mapeos[j].archivo /\ mapeos'[j].lista = mapeos[j].lista
       /\ j # i => mapeos'[j].contador = mapeos[j].contador
  /\ mapeos'[i].contador = c

LEMMA CuentaOtra ==
  ASSUME CuentaInv, NEW i \in DOMAIN mapeos, NEW c \in Int, mapeos' = [mapeos EXCEPT ![i].contador = c]
  PROVE  SoloCuenta(i, c)
<1> DEFINE m == [mapeos[i] EXCEPT !.contador = c]
<1>1. m \in Entrada /\ m.archivo = mapeos[i].archivo /\ m.lista = mapeos[i].lista /\ m.contador = c
  BY LasEntradas DEF Entrada
<1> HIDE DEF m
<1>2. mapeos' = [mapeos EXCEPT ![i] = m]
  BY DEF m
<1>3. mapeos' \in Seq(Entrada)
  BY <1>1, <1>2, LasEntradas, ExceptSeq
<1>4. DOMAIN mapeos' = DOMAIN mapeos /\ mapeos'[i] = m /\ \A j \in DOMAIN mapeos : j # i => mapeos'[j] = mapeos[j]
  BY <1>2
<1>5. QED
  BY <1>1, <1>3, <1>4 DEF SoloCuenta

LEMMA Iguales ==
  ASSUME NEW S, NEW T, NEW x, S \ {x} = T \ {x}, x \in S <=> x \in T
  PROVE  S = T
OBVIOUS

(* p takes or leaves one list, or counts itself out of it. *)
LEMMA UnaCuenta ==
  ASSUME CuentaInv, NEW p \in Programas, NEW punto, NEW l, NEW u, Paso(p, punto, l, u), Segmentos(u), SinDobles(u),
         NEW i \in DOMAIN mapeos, NEW c, SoloCuenta(i, c), NEW h, h = mapeos[i].lista,
         \A a, g : <<a, g>> \in Pares(u) =>
           <<a, g>> \in Pares(tabla[p]) \/ (g = h /\ a = mapeos[i].archivo /\ \E w \in Usa[p] : w.archivo = a),
         \A a, g : <<a, g>> \in Pares(tabla[p]) => <<a, g>> \in Pares(u) \/ g = h,
         pc[p] \in {"quitar", "olvidar"} => loc[p].lista = h,
         punto \in {"quitar", "olvidar"} => l.lista = h,
         Quienes(h)' # {}, IsFiniteSet(Quienes(h)'), c = Cardinality(Quienes(h)') - Cardinality(YaDescontados(h)')
  PROVE  Tablas' /\ UnaEntrada' /\ ConEntrada' /\ Cuentan'
<1>1. /\ tabla'[p] = u /\ Pares(tabla'[p]) = Pares(u) /\ tabla' \in [Programas -> Range(tabla')]
      /\ \A q \in Programas \ {p} : tabla'[q] = tabla[q] /\ Pares(tabla'[q]) = Pares(tabla[q])
  BY TrasPaso DEF MapaDe
<1>2. Tablas'
  <2>1. mapeos' \in Seq([archivo : Archivos, contador : Int, lista : 1..Listas])
    BY DEF SoloCuenta, Entrada
  <2>2. \A q \in Programas : Segmentos(tabla'[q]) /\ SinDobles(tabla'[q])
    BY <1>1 DEF CuentaInv, Tablas
  <2>3. QED
    BY <1>1, <2>1, <2>2 DEF Tablas
<1>3. UnaEntrada'
  BY DEF SoloCuenta, CuentaInv, UnaEntrada
<1>4. ConEntrada'
  <2> SUFFICES ASSUME NEW q \in Programas, NEW x \in Pares(tabla'[q])
               PROVE  /\ \E w \in Usa[q] : w.archivo = x[1]
                      /\ \E j \in DOMAIN mapeos : mapeos[j].archivo = x[1] /\ mapeos[j].lista = x[2]
    BY DEF ConEntrada, MapaDe, SoloCuenta
  <2>1. CASE x \in Pares(tabla[q])
    BY <2>1 DEF CuentaInv, ConEntrada, MapaDe
  <2>2. CASE x \notin Pares(tabla[q])
    <3>1. q = p /\ x \in Pares(u)
      BY <1>1, <2>2
    <3>2. PICK a, g : x = <<a, g>>
      BY <3>1 DEF Pares
    <3>3. g = h /\ a = mapeos[i].archivo /\ \E w \in Usa[p] : w.archivo = a
      BY <2>2, <3>1, <3>2
    <3>4. QED
      BY <3>1, <3>2, <3>3
  <2>3. QED
    BY <2>1, <2>2
<1>5. Cuentan'
  <2>0. DOMAIN mapeos' = DOMAIN mapeos /\ \A j \in DOMAIN mapeos : mapeos'[j].lista = mapeos[j].lista
    BY DEF SoloCuenta
  <2> SUFFICES ASSUME NEW j \in DOMAIN mapeos, NEW g, g = mapeos[j].lista
               PROVE  /\ Quienes(g)' # {} /\ IsFiniteSet(Quienes(g)')
                      /\ mapeos'[j].contador = Cardinality(Quienes(g)') - Cardinality(YaDescontados(g)')
    BY <2>0 DEF Cuentan
  <2>1. CASE j = i
    BY <2>1 DEF SoloCuenta
  <2>2. CASE j # i
    <3>2. g # h
      BY <2>2 DEF CuentaInv, UnaEntrada
    <3>3. \A a : <<a, g>> \in Pares(u) <=> <<a, g>> \in Pares(tabla[p])
      BY <3>2
    <3>4. Quienes(g)' = Quienes(g)
      <4>1. p \in Quienes(g)' <=> p \in Quienes(g)
        <5>1. p \in Quienes(g)' <=> \E a \in Archivos : <<a, g>> \in Pares(u)
          BY <1>1 DEF Quienes, MapaDe
        <5>2. p \in Quienes(g) <=> \E a \in Archivos : <<a, g>> \in Pares(tabla[p])
          BY DEF Quienes, MapaDe
        <5>3. QED
          BY <3>3, <5>1, <5>2
      <4>2. Quienes(g)' \ {p} = Quienes(g) \ {p}
        BY QuienesTrasPaso
      <4>3. QED
        BY <4>1, <4>2, Iguales
    <3>5. YaDescontados(g)' = YaDescontados(g)
      <4>1. p \notin YaDescontados(g)' /\ p \notin YaDescontados(g)
        BY <3>2, QuienesTrasPaso
      <4>2. YaDescontados(g)' \ {p} = YaDescontados(g) \ {p}
        BY QuienesTrasPaso
      <4>3. QED
        BY <4>1, <4>2, Iguales
    <3>6. mapeos'[j].contador = mapeos[j].contador
      BY <2>2 DEF SoloCuenta
    <3>7. /\ Quienes(g) # {} /\ IsFiniteSet(Quienes(g))
          /\ mapeos[j].contador = Cardinality(Quienes(g)) - Cardinality(YaDescontados(g))
      BY DEF CuentaInv, Cuentan
    <3>8. QED
      BY <3>4, <3>5, <3>6, <3>7
  <2>3. QED
    BY <2>1, <2>2
<1>6. QED
  BY <1>2, <1>3, <1>4, <1>5

(* The one entry of a file, or of a list, is the one found. *)
LEMMA ElUnico ==
  ASSUME NEW I, NEW n \in Int, I = {n}, NEW k, k = (IF I # {} THEN Min(I) ELSE 0)
  PROVE  k = n
BY DEF Min

DeArchivo(a) == SelectInSeq(mapeos, LAMBDA m : m.archivo = a)

LEMMA SeEncuentra ==
  ASSUME CuentaInv, NEW i \in DOMAIN mapeos
  PROVE  DeArchivo(mapeos[i].archivo) = i /\ EntradaDeLista(mapeos[i].lista) = i
<1>0. DOMAIN mapeos = 1..Len(mapeos) /\ i \in Int
  BY LasEntradas
<1>1. {j \in 1..Len(mapeos) : mapeos[j].archivo = mapeos[i].archivo} = {i}
  BY <1>0 DEF CuentaInv, UnaEntrada
<1>2. {j \in 1..Len(mapeos) : mapeos[j].lista = mapeos[i].lista} = {i}
  BY <1>0 DEF CuentaInv, UnaEntrada
<1> DEFINE I == {j \in 1..Len(mapeos) : mapeos[j].archivo = mapeos[i].archivo}
           J == {j \in 1..Len(mapeos) : mapeos[j].lista = mapeos[i].lista}
<1>3. DeArchivo(mapeos[i].archivo) = IF I # {} THEN Min(I) ELSE 0
  BY DEF DeArchivo, SelectInSeq
<1>4. EntradaDeLista(mapeos[i].lista) = IF J # {} THEN Min(J) ELSE 0
  BY DEF EntradaDeLista, SelectInSeq
<1>5. I = {i} /\ J = {i}
  BY <1>1, <1>2
<1> HIDE DEF I, J
<1>6. QED
  BY <1>0, <1>3, <1>4, <1>5, ElUnico

LEMMA EmpezarUnmapCuenta ==
  ASSUME CuentaInv, CandadosInv', TodosCuidadosos, NEW p \in Programas, EmpezarUnmap(p)
  PROVE  CuentaInv'
<1>1. PICK k : /\ k \in DOMAIN tabla[p] /\ tabla[p][k].mmapeado /\ ~SeTraban(p, "close")
               /\ Ir(p, "bajar", [LocalVacio EXCEPT !.clase = "unmap",
                                   !.usa = [archivo |-> tabla[p][k].archivo, compartido |-> TRUE]])
  BY DEF EmpezarUnmap
<1>0. PICK a : a = tabla[p][k].archivo
  OBVIOUS
<1> DEFINE l == [LocalVacio EXCEPT !.clase = "unmap", !.usa = [archivo |-> a, compartido |-> TRUE]]
<1>2. pc[p] = "libre" /\ tabla' = tabla /\ mapeos' = mapeos /\ Ir(p, "bajar", l)
  BY <1>0, <1>1 DEF EmpezarUnmap, Esta, compartidos
<1>3. l.clase = "unmap" /\ l.usa.archivo = a /\ {"clase", "usa", "lista", "seg"} \subseteq DOMAIN l
  BY DEF LocalVacio
<1> HIDE DEF l
<1>4. Paso(p, "bajar", l, tabla[p])
  BY <1>2, SinTocar
<1>5. /\ pc'[p] = "bajar" /\ loc'[p] = l /\ MapaDe(p)' = MapaDe(p)
      /\ \A q \in Programas \ {p} : pc'[q] = pc[q] /\ Pares(tabla'[q]) = Pares(tabla[q])
  BY <1>4, TrasPaso DEF MapaDe
<1>6. <<a, tabla[p][k].lista>> \in MapaDe(p)
  BY <1>0, <1>1, SusPares DEF MapaDe, Mapas
<1>7. ASSUME NEW q \in Programas \ {p}, pc[q] \in Cerrando PROVE MapaDe(q) = {}
  BY <1>1, <1>7, QuienMapea DEF SeTraban, TodosCuidadosos
<1>8. Lleva(p)'
  <2>1. AlDesmapear(p)'
    <3>1. <<loc'[p].usa.archivo, tabla[p][k].lista>> \in Pares(tabla'[p]) /\ pc'[p] # "quitar"
      BY <1>3, <1>5, <1>6 DEF MapaDe
    <3>2. \A q \in Programas \ {p} : pc'[q] \in Cerrando => Pares(tabla'[q]) = {}
      BY <1>5, <1>7 DEF MapaDe
    <3>3. tabla[p][k].lista \in 1..Listas
      BY <1>6, SuEntrada
    <3>4. QED
      BY <3>1, <3>2, <3>3 DEF AlDesmapear, MapaDe
  <2>2. "bajar" \notin Mapeando \cup Cerrando \cup Asignando
    BY DEF Mapeando, Cerrando, Asignando
  <2>3. ConClase(pc'[p], loc'[p].clase) /\ AlCerrar(p)' /\ AlAsignar(p)'
    BY <1>3, <1>5, <2>2 DEF ConClase, AlCerrar, AlAsignar
  <2>4. QED
    BY <1>3, <1>5, <2>1, <2>2, <2>3 DEF Lleva
<1>9. Segmentos(tabla[p]) /\ SinDobles(tabla[p])
  BY SuTabla
<1>10. {pc[p], "bajar"} \cap {"quitar", "olvidar"} = {} /\ "bajar" \notin Mapeando \cup Cerrando
  BY <1>2 DEF Mapeando, Cerrando
<1>11. QED
  BY <1>2, <1>4, <1>8, <1>9, <1>10, PasoQuieto

LEMMA EmpezarCierreCuenta ==
  ASSUME CuentaInv, CandadosInv', TodosCuidadosos, NEW p \in Programas, EmpezarCierre(p)
  PROVE  CuentaInv'
<1> DEFINE l == [LocalVacio EXCEPT !.clase = "close"]
<1>1. /\ pc[p] = "libre" /\ tabla' = tabla /\ mapeos' = mapeos /\ Ir(p, "cerrar", l)
      /\ Mapea(p) => ~SeTraban(p, "unmap")
      /\ \A k \in DOMAIN tabla[p] : tabla[p][k].mmapeado => ~Choca(p, "close", tabla[p][k].archivo)
  BY DEF EmpezarCierre, Esta, compartidos
<1>2. l.clase = "close" /\ {"clase", "usa", "lista", "seg"} \subseteq DOMAIN l
  BY DEF LocalVacio
<1> HIDE DEF l
<1>3. Paso(p, "cerrar", l, tabla[p])
  BY <1>1, SinTocar
<1>4. pc'[p] = "cerrar" /\ loc'[p] = l
  BY <1>3, TrasPaso
<1>5. Lleva(p)'
  <2>1. "cerrar" \notin Mapeando \cup Desmapeando \cup Asignando
    BY DEF Mapeando, Desmapeando, Asignando
  <2>2. ConClase(pc'[p], loc'[p].clase) /\ AlCerrar(p)' /\ AlAsignar(p)'
    BY <1>2, <1>4, <2>1 DEF ConClase, AlCerrar, AlAsignar
  <2>3. QED
    BY <1>2, <1>4, <2>1, <2>2 DEF Lleva
<1>6. ASSUME NEW q \in Programas \ {p} PROVE SinMolestar(p, q, "cerrar", l, tabla[p])
  <2>1. Lleva(q)
    BY DEF CuentaInv
  <2>2. pc[q] = "publicar" => \A i \in DOMAIN mapeos' : mapeos'[i].archivo # loc[q].usa.archivo
    BY <1>1, <2>1 DEF Lleva, AlMapear, Mapeando
  <2>3. pc[q] = "olvidar" => \E i \in DOMAIN mapeos' : mapeos'[i].lista = loc[q].lista /\ mapeos'[i].contador = 0
    BY <1>1, <2>1 DEF Lleva, AlCerrar
  <2>4. ASSUME pc[q] \in Mapeando, NEW h, <<loc[q].usa.archivo, h>> \in Pares(tabla[p]) PROVE FALSE
    <3>1. PICK k \in Mapas(tabla[p]) : tabla[p][k].archivo = loc[q].usa.archivo
      BY <2>4, SusPares
    <3>2. ~Choca(p, "close", loc[q].usa.archivo)
      BY <1>1, <3>1 DEF Mapas
    <3>3. loc[q].clase = "map" /\ loc[q].usa.archivo \in EnObra(q)
      BY <2>4, QuienMapea
    <3>4. {"close", loc[q].clase} \in Opuestas
      BY <3>3 DEF Opuestas
    <3>5. QED
      BY <3>2, <3>3, <3>4 DEF Choca, TodosCuidadosos
  <2>5. ASSUME pc[q] \in Desmapeando PROVE Pares(tabla[p]) = {}
    <3>1. Mapea(q) /\ loc[q].clase = "unmap"
      BY <2>5, QuienMapea
    <3>2. ~Mapea(p)
      BY <1>1, <3>1 DEF SeTraban, TodosCuidadosos
    <3>3. QED
      BY <3>2, QuienMapea DEF MapaDe
  <2>6. "cerrar" \notin Mapeando
    BY DEF Mapeando
  <2>7. QED
    BY <2>2, <2>3, <2>4, <2>5, <2>6 DEF SinMolestar
<1>7. Segmentos(tabla[p]) /\ SinDobles(tabla[p])
  BY SuTabla
<1>8. {pc[p], "cerrar"} \cap {"quitar", "olvidar"} = {}
  BY <1>1
<1>9. QED
  BY <1>1, <1>3, <1>5, <1>6, <1>7, <1>8, PasoIgual

LEMMA LlevaQuieto ==
  ASSUME CuentaInv, NEW p \in Programas, NEW punto \in Tranquilos, NEW l, NEW u, Paso(p, punto, l, u),
         {"clase", "usa", "lista", "seg"} \subseteq DOMAIN l
  PROVE  Lleva(p)'
<1>1. pc'[p] = punto /\ loc'[p] = l
  BY TrasPaso
<1>2. punto \notin Mapeando \cup Desmapeando \cup Cerrando \cup Asignando
  BY DEF Tranquilos, Mapeando, Desmapeando, Cerrando, Asignando
<1>3. ConClase(pc'[p], loc'[p].clase)
  BY <1>1, <1>2 DEF ConClase
<1>4. AlCerrar(p)' /\ AlAsignar(p)'
  BY <1>1, <1>2 DEF AlCerrar, AlAsignar, Cerrando, Asignando
<1>5. QED
  BY <1>1, <1>2, <1>3, <1>4 DEF Lleva

LEMMA CuentaTras ==
  ASSUME CuentaInv, CandadosInv', NEW p \in Programas, NEW punto, NEW l, NEW u, Paso(p, punto, l, u),
         Tablas' /\ UnaEntrada' /\ ConEntrada' /\ Cuentan', Lleva(p)',
         \A q \in Programas \ {p} : SinMolestar(p, q, punto, l, u)
  PROVE  CuentaInv'
<1>1. \A q \in Programas \ {p} : Lleva(q)'
  BY Otros
<1>2. loc' \in [Programas -> Range(loc')]
  BY TrasPaso
<1>3. \A q \in Programas : Lleva(q)'
  BY <1>1
<1>4. QED
  BY <1>2, <1>3 DEF CuentaInv

LEMMA OtrosConEntrada ==
  ASSUME CuentaInv, NEW i \in DOMAIN mapeos, NEW c, SoloCuenta(i, c), NEW q \in Programas
  PROVE  /\ pc[q] = "publicar" => \A j \in DOMAIN mapeos' : mapeos'[j].archivo # loc[q].usa.archivo
         /\ pc[q] = "olvidar" /\ loc[q].lista # mapeos[i].lista =>
              \E j \in DOMAIN mapeos' : mapeos'[j].lista = loc[q].lista /\ mapeos'[j].contador = 0
<1>1. Lleva(q)
  BY DEF CuentaInv
<1>2. ASSUME pc[q] = "publicar", NEW j \in DOMAIN mapeos' PROVE mapeos'[j].archivo # loc[q].usa.archivo
  BY <1>1, <1>2 DEF Lleva, AlMapear, Mapeando, SoloCuenta
<1>3. ASSUME pc[q] = "olvidar", loc[q].lista # mapeos[i].lista
      PROVE  \E j \in DOMAIN mapeos' : mapeos'[j].lista = loc[q].lista /\ mapeos'[j].contador = 0
  <2>1. PICK j \in DOMAIN mapeos : mapeos[j].lista = loc[q].lista /\ mapeos[j].contador = 0
    BY <1>1, <1>3 DEF Lleva, AlCerrar
  <2>2. QED
    BY <1>3, <2>1 DEF SoloCuenta
<1>4. QED
  BY <1>2, <1>3

LEMMA DescontadosEsFinito ==
  ASSUME CuentaInv, NEW i \in DOMAIN mapeos, NEW h, h = mapeos[i].lista
  PROVE  /\ IsFiniteSet(Quienes(h)) /\ IsFiniteSet(YaDescontados(h)) /\ YaDescontados(h) \subseteq Quienes(h)
         /\ Quienes(h) # {} /\ mapeos[i].contador = Cardinality(Quienes(h)) - Cardinality(YaDescontados(h))
         /\ Cardinality(Quienes(h)) \in Nat /\ Cardinality(YaDescontados(h)) \in Nat
<1>1. /\ Quienes(h) # {} /\ IsFiniteSet(Quienes(h))
      /\ mapeos[i].contador = Cardinality(Quienes(h)) - Cardinality(YaDescontados(h))
  BY DEF CuentaInv, Cuentan
<1>2. YaDescontados(h) \subseteq Quienes(h)
  BY Descontados DEF YaDescontados
<1>3. IsFiniteSet(YaDescontados(h))
  BY <1>1, <1>2, FS_Subset
<1>4. QED
  BY <1>1, <1>2, <1>3, FS_CardinalityType

LEMMA BajarCuenta ==
  ASSUME CuentaInv, CandadosInv', NEW p \in Programas, Bajar(p)
  PROVE  CuentaInv'
<1>0. PICK a : a = loc[p].usa.archivo
  OBVIOUS
<1>1. pc[p] = "bajar" /\ tabla' = tabla
  BY DEF Bajar, Esta
<1>2. Lleva(p) /\ AlDesmapear(p) /\ loc[p].clase = "unmap"
  BY <1>1 DEF CuentaInv, Lleva, Desmapeando, ConClase
<1>3. PICK h \in 1..Listas : <<a, h>> \in MapaDe(p)
  BY <1>0, <1>2 DEF AlDesmapear
<1>4. PICK i \in DOMAIN mapeos : mapeos[i].archivo = a /\ mapeos[i].lista = h
  BY <1>3, SuEntrada
<1>5. DeArchivo(a) = i /\ i # 0
  BY <1>4, SeEncuentra, LasEntradas
<1> DEFINE l == [loc[p] EXCEPT !.lista = h]
           c == mapeos[i].contador - 1
<1>6. mapeos' = [mapeos EXCEPT ![i].contador = c] /\ Ir(p, "quitar", l)
  <2>1. mapeos' = [mapeos EXCEPT ![DeArchivo(a)].contador = @ - 1]
        /\ Ir(p, "quitar", [loc[p] EXCEPT !.lista = mapeos[DeArchivo(a)].lista])
    <3> DEFINE k == SelectInSeq(mapeos, LAMBDA m : m.archivo = loc[p].usa.archivo)
    <3>1. k = DeArchivo(a)
      BY <1>0 DEF DeArchivo
    <3>2. IF k = 0 THEN Responder(p) /\ UNCHANGED <<mapeos, mutexMapeo>>
          ELSE /\ mapeos' = [mapeos EXCEPT ![k].contador = @ - 1]
               /\ mutexMapeo' = p
               /\ Ir(p, "quitar", [loc[p] EXCEPT !.lista = mapeos[k].lista])
      BY DEF Bajar
    <3> HIDE DEF k
    <3>3. QED
      BY <1>5, <3>1, <3>2
  <2>2. QED
    BY <1>4, <1>5, <2>1
<1>7. c \in Int
  BY LasEntradas
<1>8. l.clase = "unmap" /\ l.usa.archivo = a /\ l.lista = h /\ {"clase", "usa", "lista", "seg"} \subseteq DOMAIN l
  BY <1>0, <1>2 DEF Lleva
<1> HIDE DEF c, l
<1>9. SoloCuenta(i, c)
  BY <1>6, <1>7, CuentaOtra
<1>10. Paso(p, "quitar", l, tabla[p])
  BY <1>1, <1>6, SinTocar
<1>11. Segmentos(tabla[p]) /\ SinDobles(tabla[p])
  BY SuTabla
<1>12. /\ Quienes(h)' = Quienes(h)
       /\ YaDescontados(h)' = YaDescontados(h) \cup {p} /\ p \notin YaDescontados(h)
  <2>1. Quienes(h)' = Quienes(h)
    BY <1>1 DEF Quienes, MapaDe
  <2>2. pc'[p] = "quitar" /\ loc'[p] = l /\ \A q \in Programas \ {p} : pc'[q] = pc[q] /\ loc'[q] = loc[q]
    BY <1>10, TrasPaso
  <2>3. QED
    BY <1>1, <1>8, <2>1, <2>2 DEF YaDescontados
<1>13. /\ Quienes(h)' # {} /\ IsFiniteSet(Quienes(h)')
       /\ c = Cardinality(Quienes(h)') - Cardinality(YaDescontados(h)')
  <2>1. /\ IsFiniteSet(Quienes(h)) /\ IsFiniteSet(YaDescontados(h)) /\ Quienes(h) # {}
        /\ mapeos[i].contador = Cardinality(Quienes(h)) - Cardinality(YaDescontados(h))
        /\ Cardinality(Quienes(h)) \in Nat /\ Cardinality(YaDescontados(h)) \in Nat
    BY <1>4, DescontadosEsFinito
  <2>2. Cardinality(YaDescontados(h) \cup {p}) = Cardinality(YaDescontados(h)) + 1
    BY <1>12, <2>1, UnoMas
  <2>3. QED
    BY <1>12, <2>1, <2>2 DEF c
<1>14. Tablas' /\ UnaEntrada' /\ ConEntrada' /\ Cuentan'
  BY <1>1, <1>4, <1>8, <1>9, <1>10, <1>11, <1>13, UnaCuenta
<1>15. Lleva(p)'
  <2>0. /\ pc'[p] = "quitar" /\ loc'[p] = l /\ Pares(tabla'[p]) = Pares(tabla[p])
        /\ \A q \in Programas \ {p} : pc'[q] = pc[q] /\ Pares(tabla'[q]) = Pares(tabla[q])
    BY <1>1, <1>10, TrasPaso
  <2>1. AlDesmapear(p)'
    BY <1>2, <1>3, <1>8, <2>0 DEF AlDesmapear, MapaDe
  <2>2. "quitar" \notin Mapeando \cup Cerrando \cup Asignando
    BY DEF Mapeando, Cerrando, Asignando
  <2>3. ConClase(pc'[p], loc'[p].clase) /\ AlCerrar(p)' /\ AlAsignar(p)'
    BY <1>8, <2>0, <2>2 DEF ConClase, AlCerrar, AlAsignar
  <2>4. QED
    BY <1>8, <2>0, <2>1, <2>2, <2>3 DEF Lleva
<1>16. ASSUME NEW q \in Programas \ {p} PROVE SinMolestar(p, q, "quitar", l, tabla[p])
  <2>1. "quitar" \notin Mapeando \cup Cerrando /\ pc[p] \in Desmapeando
    BY <1>1 DEF Mapeando, Cerrando, Desmapeando
  <2>2. pc[q] # "olvidar"
    BY <2>1, Descontados
  <2>3. pc[q] = "publicar" => \A j \in DOMAIN mapeos' : mapeos'[j].archivo # loc[q].usa.archivo
    BY <1>9, OtrosConEntrada
  <2>4. QED
    BY <2>1, <2>2, <2>3 DEF SinMolestar
<1>17. QED
  BY <1>10, <1>14, <1>15, <1>16, CuentaTras

(* Nobody that is mapping a file has it. *)
LEMMA NadieLoTiene ==
  ASSUME CuentaInv, NEW p \in Programas, pc[p] \in Mapeando, NEW a, a = loc[p].usa.archivo
  PROVE  /\ loc[p].usa \in Usa[p] /\ \A h : <<a, h>> \notin MapaDe(p)
         /\ \A k \in Mapas(tabla[p]) : tabla[p][k].archivo # a
         /\ \A q \in Programas \ {p} :
              /\ pc[q] \in Mapeando => loc[q].usa.archivo # a
              /\ pc[q] \in Cerrando => \A h : <<a, h>> \notin MapaDe(q)
<1>1. AlMapear(p)
  BY DEF CuentaInv, Lleva
<1>2. \A h : <<a, h>> \notin MapaDe(p)
  BY <1>1, SuEntrada DEF AlMapear, Libre
<1>3. ASSUME NEW q \in Programas \ {p}
      PROVE  /\ pc[q] \in Mapeando => loc[q].usa.archivo # a
             /\ pc[q] \in Cerrando => \A h : <<a, h>> \notin MapaDe(q)
  BY <1>1, SuEntrada DEF AlMapear, Libre
<1>4. \A k \in Mapas(tabla[p]) : tabla[p][k].archivo # a
  <2>1. \A k \in Mapas(tabla[p]) : <<tabla[p][k].archivo, tabla[p][k].lista>> \in MapaDe(p)
    BY DEF MapaDe, Pares
  <2>2. QED
    BY <1>2, <2>1
<1>5. QED
  BY <1>1, <1>2, <1>3, <1>4 DEF AlMapear

(* The segment that muse_map adds. *)
LEMMA UnMapaMas ==
  ASSUME CuentaInv, NEW p \in Programas, pc[p] \in Mapeando, NEW a, a = loc[p].usa.archivo, NEW h,
         NEW u, u = Agregado(tabla[p], SegmentoMapeado(p, h))
  PROVE  Segmentos(u) /\ SinDobles(u) /\ Pares(u) = Pares(tabla[p]) \cup {<<a, h>>}
<1>0. PICK t, s : t = tabla[p] /\ s = SegmentoMapeado(p, h)
  OBVIOUS
<1>1. s.mmapeado = TRUE /\ "mmapeado" \in DOMAIN s /\ s.archivo = a /\ s.lista = h
  BY <1>0 DEF SegmentoMapeado
<1>2. Segmentos(t) /\ SinDobles(t)
  BY <1>0, SuTabla
<1>3. \A k \in Mapas(t) : t[k].archivo # s.archivo
  BY <1>0, <1>1, NadieLoTiene
<1>4. u = Agregado(t, s) /\ s.mmapeado \in BOOLEAN
  BY <1>0, <1>1
<1>5. Segmentos(u) /\ (s.mmapeado => Pares(u) = Pares(t) \cup {<<s.archivo, s.lista>>})
  BY <1>1, <1>2, <1>4, AgregaSegmento
<1>6. SinDobles(t) /\ (s.mmapeado => \A k \in Mapas(t) : t[k].archivo # s.archivo) => SinDobles(u)
  BY <1>1, <1>2, <1>4, AgregaSegmento
<1>7. QED
  BY <1>0, <1>1, <1>2, <1>3, <1>5, <1>6

LEMMA BuscarCuenta ==
  ASSUME CuentaInv, CandadosInv', NEW p \in Programas, BuscarMapeo(p)
  PROVE  CuentaInv'
<1>0. PICK a : a = loc[p].usa.archivo
  OBVIOUS
<1>1. pc[p] = "buscar_mapeo" /\ pc[p] \in Mapeando
  BY DEF BuscarMapeo, Esta, Mapeando
<1>2. mapeos' = [i \in DOMAIN mapeos |-> IF i \in EntradasDe(a) THEN Contada(mapeos[i]) ELSE mapeos[i]]
  BY <1>0 DEF BuscarMapeo
<1>3. CASE EntradasDe(a) = {}
  <2>1. mapeos' = mapeos
    <3>1. mapeos = [i \in DOMAIN mapeos |-> mapeos[i]]
      BY LasEntradas
    <3>2. QED
      BY <1>2, <1>3, <3>1
  <2>2. Ir(p, "publicar", loc[p]) /\ tabla' = tabla
    BY <1>0, <1>3 DEF BuscarMapeo
  <2>3. Paso(p, "publicar", loc[p], tabla[p])
    BY <2>2, SinTocar
  <2>4. /\ pc'[p] = "publicar" /\ loc'[p] = loc[p] /\ Pares(tabla'[p]) = Pares(tabla[p])
        /\ \A q \in Programas \ {p} : pc'[q] = pc[q] /\ loc'[q] = loc[q] /\ Pares(tabla'[q]) = Pares(tabla[q])
    BY <2>2, <2>3, TrasPaso
  <2>5. Lleva(p)'
    <3>1. Lleva(p) /\ AlMapear(p) /\ loc[p].clase = "map"
      BY <1>1 DEF CuentaInv, Lleva, Mapeando, ConClase
    <3>2. \A i \in DOMAIN mapeos : mapeos[i].archivo # loc[p].usa.archivo
      BY <1>0, <1>3 DEF EntradasDe
    <3>3. AlMapear(p)'
      BY <2>1, <2>4, <3>1, <3>2 DEF AlMapear, Libre, MapaDe
    <3>4. "publicar" \notin Desmapeando \cup Cerrando \cup Asignando
      BY DEF Desmapeando, Cerrando, Asignando
    <3>5. ConClase(pc'[p], loc'[p].clase) /\ AlCerrar(p)' /\ AlAsignar(p)'
      BY <2>4, <3>1, <3>4 DEF ConClase, AlCerrar, AlAsignar
    <3>6. QED
      BY <2>4, <3>1, <3>3, <3>4, <3>5 DEF Lleva
  <2>6. Segmentos(tabla[p]) /\ SinDobles(tabla[p])
    BY SuTabla
  <2>7. {pc[p], "publicar"} \cap {"quitar", "olvidar"} = {} /\ "publicar" \notin Cerrando
    BY <1>1 DEF Cerrando
  <2>8. QED
    BY <1>1, <2>1, <2>3, <2>5, <2>6, <2>7, PasoQuieto
<1>4. CASE EntradasDe(a) # {}
  <2>1. PICK i \in DOMAIN mapeos : mapeos[i].archivo = a
    BY <1>4 DEF EntradasDe
  <2>2. EntradasDe(a) = {i}
    BY <2>1 DEF EntradasDe, CuentaInv, UnaEntrada
  <2>3. Max(EntradasDe(a)) = i
    BY <2>1, <2>2, LasEntradas DEF Max
  <2>4. PICK h : h = mapeos[i].lista
    OBVIOUS
  <2> DEFINE u == Agregado(tabla[p], SegmentoMapeado(p, h))
             c == mapeos[i].contador + 1
  <2>5. tabla' = [tabla EXCEPT ![p] = u] /\ Ir(p, "libre", LocalVacio)
    <3>1. /\ tabla' = [tabla EXCEPT ![p] = Append(@, SegmentoMapeado(p, mapeos[Max(EntradasDe(a))].lista))]
          /\ Responder(p)
      BY <1>0, <1>4 DEF BuscarMapeo
    <3>2. QED
      BY <2>3, <2>4, <3>1 DEF Agregado, Responder
  <2>6. mapeos' = [mapeos EXCEPT ![i].contador = c]
    <3>1. mapeos \in [DOMAIN mapeos -> Entrada]
      BY LasEntradas
    <3>2. mapeos' = [j \in DOMAIN mapeos |-> IF j = i THEN Contada(mapeos[j]) ELSE mapeos[j]]
      BY <1>2, <2>2
    <3>3. QED
      BY <2>1, <3>1, <3>2 DEF Contada
  <2>7. c \in Int
    BY LasEntradas
  <2> HIDE DEF c, u
  <2>8. SoloCuenta(i, c)
    BY <2>6, <2>7, CuentaOtra
  <2>9. Paso(p, "libre", LocalVacio, u)
    BY <2>5 DEF Paso, Ir
  <2>10. Segmentos(u) /\ SinDobles(u) /\ Pares(u) = Pares(tabla[p]) \cup {<<a, h>>}
    BY <1>0, <1>1, UnMapaMas DEF u
  <2>11. loc[p].usa \in Usa[p] /\ a \in Archivos
    BY <1>0, <1>1, <2>1, NadieLoTiene, LasEntradas DEF Entrada
  <2>12. \A q \in Programas : \A b : <<b, h>> \in MapaDe(q) => b = a
    <3> SUFFICES ASSUME NEW q \in Programas, NEW b, <<b, h>> \in MapaDe(q) PROVE b = a
      OBVIOUS
    <3>1. PICK j \in DOMAIN mapeos : mapeos[j].archivo = b /\ mapeos[j].lista = h
      BY SuEntrada
    <3>2. j = i
      BY <2>4, <3>1 DEF CuentaInv, UnaEntrada
    <3>3. QED
      BY <2>1, <3>1, <3>2
  <2>13. p \notin Quienes(h)
    BY <1>0, <1>1, <2>12, NadieLoTiene DEF Quienes
  <2>14. Quienes(h)' = Quienes(h) \cup {p} /\ YaDescontados(h)' = YaDescontados(h)
    <3>1. /\ pc'[p] = "libre" /\ loc'[p] = LocalVacio /\ Pares(tabla'[p]) = Pares(u)
          /\ \A q \in Programas \ {p} : pc'[q] = pc[q] /\ loc'[q] = loc[q] /\ Pares(tabla'[q]) = Pares(tabla[q])
      BY <2>9, TrasPaso DEF MapaDe
    <3>2. Quienes(h)' = Quienes(h) \cup {p}
      BY <2>10, <2>11, <3>1 DEF Quienes, MapaDe
    <3>3. YaDescontados(h)' = YaDescontados(h)
      BY <1>1, <3>1 DEF YaDescontados
    <3>4. QED
      BY <3>2, <3>3
  <2>15. /\ Quienes(h)' # {} /\ IsFiniteSet(Quienes(h)')
         /\ c = Cardinality(Quienes(h)') - Cardinality(YaDescontados(h)')
    <3>1. /\ IsFiniteSet(Quienes(h))
          /\ mapeos[i].contador = Cardinality(Quienes(h)) - Cardinality(YaDescontados(h))
          /\ Cardinality(Quienes(h)) \in Nat /\ Cardinality(YaDescontados(h)) \in Nat
      BY <2>4, DescontadosEsFinito
    <3>2. IsFiniteSet(Quienes(h) \cup {p}) /\ Cardinality(Quienes(h) \cup {p}) = Cardinality(Quienes(h)) + 1
      BY <2>13, <3>1, UnoMas
    <3>3. QED
      BY <2>14, <3>1, <3>2 DEF c
  <2>16. Tablas' /\ UnaEntrada' /\ ConEntrada' /\ Cuentan'
    <3>1. \A b, g : <<b, g>> \in Pares(u) =>
            <<b, g>> \in Pares(tabla[p]) \/ (g = h /\ b = mapeos[i].archivo /\ \E w \in Usa[p] : w.archivo = b)
      BY <1>0, <2>1, <2>10, <2>11
    <3>2. \A b, g : <<b, g>> \in Pares(tabla[p]) => <<b, g>> \in Pares(u) \/ g = h
      BY <2>10
    <3>3. pc[p] \notin {"quitar", "olvidar"} /\ "libre" \notin {"quitar", "olvidar"}
      BY <1>1
    <3>4. QED
      BY <2>4, <2>8, <2>9, <2>10, <2>15, <3>1, <3>2, <3>3, UnaCuenta
  <2>17. Lleva(p)'
    BY <2>9, SuLocal, LlevaQuieto DEF Tranquilos
  <2>18. ASSUME NEW q \in Programas \ {p} PROVE SinMolestar(p, q, "libre", LocalVacio, u)
    <3>1. "libre" \notin Mapeando \cup Cerrando
      BY DEF Mapeando, Cerrando
    <3>2. pc[q] = "olvidar" => loc[q].lista # h
      <4> SUFFICES ASSUME pc[q] = "olvidar", loc[q].lista = h PROVE FALSE
        OBVIOUS
      <4>1. q \in Quienes(h)
        BY Descontados
      <4>2. <<a, h>> \in MapaDe(q)
        BY <2>12, <4>1 DEF Quienes
      <4>3. pc[q] \in Cerrando
        BY DEF Cerrando
      <4>4. QED
        BY <1>0, <1>1, <4>2, <4>3, NadieLoTiene
    <3>3. QED
      BY <2>4, <2>8, <3>1, <3>2, OtrosConEntrada DEF SinMolestar
  <2>19. QED
    BY <2>9, <2>16, <2>17, <2>18, CuentaTras
<1>5. QED
  BY <1>3, <1>4

LEMMA PublicarCuenta ==
  ASSUME CuentaInv, CandadosInv', NEW p \in Programas, Publicar(p)
  PROVE  CuentaInv'
<1>0. PICK a, h : a = loc[p].usa.archivo /\ h = Min(ListasLibres)
  OBVIOUS
<1>1. pc[p] = "publicar" /\ pc[p] \in Mapeando /\ ListasLibres # {}
  BY DEF Publicar, Esta, Mapeando
<1>2. h \in 1..Listas /\ h \notin ListasEnUso
  <2>1. ListasLibres \in SUBSET Nat
    BY SegmentosSupuesto DEF ListasLibres
  <2>2. h \in ListasLibres
    BY <1>0, <1>1, <2>1, MinEsta
  <2>3. QED
    BY <2>2 DEF ListasLibres
<1> DEFINE u == Agregado(tabla[p], SegmentoMapeado(p, h))
           m == [archivo |-> a, contador |-> 1, lista |-> h]
           n == Len(mapeos) + 1
<1>3. tabla' = [tabla EXCEPT ![p] = u] /\ Ir(p, "libre", LocalVacio) /\ mapeos' = Append(mapeos, m)
  BY <1>0 DEF Publicar, Responder, Agregado
<1>4. Segmentos(u) /\ SinDobles(u) /\ Pares(u) = Pares(tabla[p]) \cup {<<a, h>>}
  <2>1. pc[p] \in Mapeando /\ a = loc[p].usa.archivo
    BY <1>0, <1>1
  <2>2. QED
    BY <2>1, UnMapaMas
<1>5. loc[p].usa \in Usa[p] /\ a \in Archivos
  BY <1>0, <1>1, NadieLoTiene, SegmentosSupuesto
<1> HIDE DEF u
<1>6. Paso(p, "libre", LocalVacio, u)
  BY <1>3 DEF Paso, Ir
<1>7. /\ pc'[p] = "libre" /\ loc'[p] = LocalVacio /\ tabla'[p] = u /\ Pares(tabla'[p]) = Pares(u)
      /\ tabla' \in [Programas -> Range(tabla')]
      /\ \A q \in Programas \ {p} :
           pc'[q] = pc[q] /\ loc'[q] = loc[q] /\ tabla'[q] = tabla[q] /\ Pares(tabla'[q]) = Pares(tabla[q])
  BY <1>6, TrasPaso DEF MapaDe
<1>8. m \in Entrada /\ m.archivo = a /\ m.lista = h /\ m.contador = 1
  BY <1>2, <1>5 DEF Entrada
<1> HIDE DEF m
<1>9. /\ mapeos' \in Seq(Entrada) /\ DOMAIN mapeos' = 1..n /\ mapeos'[n] = m /\ DOMAIN mapeos = 1..(n - 1) /\ n \in Nat \ {0}
      /\ \A j \in DOMAIN mapeos : mapeos'[j] = mapeos[j]
  BY <1>3, <1>8, LasEntradas, AppendProperties
<1> HIDE DEF n
<1>10. DOMAIN mapeos' = DOMAIN mapeos \cup {n} /\ n \notin DOMAIN mapeos
  BY <1>9
<1>11. \A j \in DOMAIN mapeos : mapeos[j].archivo # a /\ mapeos[j].lista # h
  <2>1. AlMapear(p)
    BY <1>1 DEF CuentaInv, Lleva
  <2>2. \A j \in DOMAIN mapeos : mapeos[j].archivo # a
    BY <1>0, <1>1, <2>1 DEF AlMapear
  <2>3. \A j \in DOMAIN mapeos : mapeos[j].lista # h
    BY <1>2 DEF ListasEnUso
  <2>4. QED
    BY <2>2, <2>3
<1>12. \A q \in Programas : \A b : <<b, h>> \notin MapaDe(q)
  BY <1>11, SuEntrada
<1>13. Tablas'
  <2>1. \A q \in Programas : Segmentos(tabla'[q]) /\ SinDobles(tabla'[q])
    BY <1>4, <1>7 DEF CuentaInv, Tablas
  <2>2. QED
    BY <1>7, <1>9, <2>1 DEF Tablas, Entrada
<1>14. UnaEntrada'
  <2> SUFFICES ASSUME NEW i \in DOMAIN mapeos', NEW j \in DOMAIN mapeos',
                      mapeos'[i].archivo = mapeos'[j].archivo \/ mapeos'[i].lista = mapeos'[j].lista
               PROVE  i = j
    BY DEF UnaEntrada
  <2>1. CASE i \in DOMAIN mapeos /\ j \in DOMAIN mapeos
    BY <1>9, <2>1 DEF CuentaInv, UnaEntrada
  <2>2. CASE i = n /\ j \in DOMAIN mapeos
    BY <1>8, <1>9, <1>11, <2>2
  <2>3. CASE i \in DOMAIN mapeos /\ j = n
    BY <1>8, <1>9, <1>11, <2>3
  <2>4. QED
    BY <1>10, <2>1, <2>2, <2>3
<1>15. ConEntrada'
  <2> SUFFICES ASSUME NEW q \in Programas, NEW x \in Pares(tabla'[q])
               PROVE  /\ \E w \in Usa[q] : w.archivo = x[1]
                      /\ \E j \in DOMAIN mapeos' : mapeos'[j].archivo = x[1] /\ mapeos'[j].lista = x[2]
    BY DEF ConEntrada, MapaDe
  <2>1. CASE x \in Pares(tabla[q])
    <3>1. /\ \E w \in Usa[q] : w.archivo = x[1]
          /\ \E j \in DOMAIN mapeos : mapeos[j].archivo = x[1] /\ mapeos[j].lista = x[2]
      BY <2>1 DEF CuentaInv, ConEntrada, MapaDe
    <3>2. QED
      BY <1>9, <1>10, <3>1
  <2>2. CASE x \notin Pares(tabla[q])
    <3>1. q = p /\ x = <<a, h>>
      BY <1>4, <1>7, <2>2
    <3>2. mapeos'[n].archivo = x[1] /\ mapeos'[n].lista = x[2] /\ loc[p].usa.archivo = x[1]
      BY <1>0, <1>8, <1>9, <3>1
    <3>3. QED
      BY <1>5, <1>10, <3>1, <3>2
  <2>3. QED
    BY <2>1, <2>2
<1>16. Cuentan'
  <2> SUFFICES ASSUME NEW j \in DOMAIN mapeos', NEW g, g = mapeos'[j].lista
               PROVE  /\ Quienes(g)' # {} /\ IsFiniteSet(Quienes(g)')
                      /\ mapeos'[j].contador = Cardinality(Quienes(g)') - Cardinality(YaDescontados(g)')
    BY DEF Cuentan
  <2>1. CASE j = n
    <3>1. g = h /\ mapeos'[j].contador = 1
      BY <1>8, <1>9, <2>1
    <3>2. Quienes(h)' = {p}
      BY <1>4, <1>5, <1>7, <1>12 DEF Quienes, MapaDe
    <3>3. YaDescontados(h)' = {}
      <4>1. \A q \in Programas : q \notin YaDescontados(h)
        BY <1>12, Descontados DEF Quienes
      <4>2. QED
        BY <1>7, <4>1 DEF YaDescontados
    <3>4. Cardinality({p}) = 1 /\ IsFiniteSet({p}) /\ Cardinality({}) = 0
      BY FS_Singleton, FS_EmptySet
    <3>5. QED
      BY <3>1, <3>2, <3>3, <3>4
  <2>2. CASE j \in DOMAIN mapeos
    <3>1. g = mapeos[j].lista /\ mapeos'[j].contador = mapeos[j].contador /\ g # h
      BY <1>9, <1>11, <2>2
    <3>2. \A b : <<b, g>> \in Pares(u) <=> <<b, g>> \in Pares(tabla[p])
      BY <1>4, <3>1
    <3>3. Quienes(g)' = Quienes(g)
      BY <1>7, <3>2 DEF Quienes, MapaDe
    <3>4. YaDescontados(g)' = YaDescontados(g)
      BY <1>1, <1>7 DEF YaDescontados
    <3>5. /\ Quienes(g) # {} /\ IsFiniteSet(Quienes(g))
          /\ mapeos[j].contador = Cardinality(Quienes(g)) - Cardinality(YaDescontados(g))
      BY <2>2, <3>1 DEF CuentaInv, Cuentan
    <3>6. QED
      BY <3>1, <3>3, <3>4, <3>5
  <2>3. QED
    BY <1>10, <2>1, <2>2
<1>17. Lleva(p)'
  BY <1>6, SuLocal, LlevaQuieto DEF Tranquilos
<1>18. ASSUME NEW q \in Programas \ {p} PROVE SinMolestar(p, q, "libre", LocalVacio, u)
  <2>1. "libre" \notin Mapeando \cup Cerrando
    BY DEF Mapeando, Cerrando
  <2>2. Lleva(q)
    BY DEF CuentaInv
  <2>3. pc[q] = "publicar" => \A j \in DOMAIN mapeos' : mapeos'[j].archivo # loc[q].usa.archivo
    <3> SUFFICES ASSUME pc[q] = "publicar", NEW j \in DOMAIN mapeos' PROVE mapeos'[j].archivo # loc[q].usa.archivo
      OBVIOUS
    <3>1. pc[q] \in Mapeando /\ loc[q].usa.archivo # a
      BY <1>0, <1>1, NadieLoTiene DEF Mapeando
    <3>2. \A i \in DOMAIN mapeos : mapeos[i].archivo # loc[q].usa.archivo
      BY <2>2, <3>1 DEF Lleva, AlMapear
    <3>3. QED
      BY <1>8, <1>9, <1>10, <3>1, <3>2
  <2>4. pc[q] = "olvidar" => \E j \in DOMAIN mapeos' : mapeos'[j].lista = loc[q].lista /\ mapeos'[j].contador = 0
    BY <1>9, <1>10, <2>2 DEF Lleva, AlCerrar
  <2>5. QED
    BY <2>1, <2>3, <2>4 DEF SinMolestar
<1>19. QED
  BY <1>6, <1>13, <1>14, <1>15, <1>16, <1>17, <1>18, CuentaTras

-----------------------------------------------------------------------------
(* Who leaves a mapping, and the last of them. *)

Menos(u, t, i) ==
  \E f \in [DOMAIN u -> DOMAIN t] :
    /\ \A j \in DOMAIN u : f[j] # i /\ u[j] = t[f[j]]
    /\ \A j, k \in DOMAIN u : f[j] = f[k] => j = k
    /\ \A k \in DOMAIN t : k # i => \E j \in DOMAIN u : f[j] = k

LEMMA SinUno ==
  ASSUME NEW S, NEW t \in Seq(S), NEW i \in 1..Len(t), NEW u, u = RemoveAt(t, i)
  PROVE  /\ u \in Seq(S)
         /\ Menos(u, t, i)
<1> DEFINE f == [j \in DOMAIN u |-> IF j < i THEN j ELSE j + 1]
<1>1. /\ u \in Seq(S) /\ DOMAIN u = 1..(Len(t) - 1) /\ Len(t) \in Nat
      /\ \A j \in 1..(Len(t) - 1) : u[j] = IF j < i THEN t[j] ELSE t[j + 1]
  BY QuitaPosicion
<1>2. \A j \in DOMAIN u : f[j] \in 1..Len(t) /\ f[j] # i /\ u[j] = t[f[j]]
  BY <1>1
<1>3. \A j, k \in DOMAIN u : f[j] = f[k] => j = k
  BY <1>1
<1>4. ASSUME NEW k \in 1..Len(t), k # i PROVE \E j \in DOMAIN u : f[j] = k
  <2>1. CASE k < i
    <3>1. k \in DOMAIN u /\ f[k] = k
      BY <1>1, <2>1
    <3>2. QED
      BY <3>1
  <2>2. CASE k > i
    <3>1. k - 1 \in DOMAIN u /\ f[k - 1] = k
      BY <1>1, <2>2
    <3>2. QED
      BY <3>1
  <2>3. QED
    BY <1>4, <2>1, <2>2
<1>5. f \in [DOMAIN u -> DOMAIN t] /\ DOMAIN t = 1..Len(t)
  <2>1. DOMAIN t = 1..Len(t)
    OBVIOUS
  <2>2. QED
    BY <1>2, <2>1
<1> HIDE DEF f
<1>6. Menos(u, t, i)
  BY <1>2, <1>3, <1>4, <1>5 DEF Menos
<1>7. QED
  BY <1>1, <1>6

(* The list of a mapping that goes. *)
LEMMA Sale ==
  ASSUME CuentaInv, NEW p \in Programas, NEW punto, NEW l, NEW u, Paso(p, punto, l, u),
         NEW a, NEW h, <<a, h>> \in MapaDe(p), Pares(u) = Pares(tabla[p]) \ {<<a, h>>},
         punto \notin {"quitar", "olvidar"}
  PROVE  Quienes(h)' = Quienes(h) \ {p} /\ YaDescontados(h)' = YaDescontados(h) \ {p} /\ p \in Quienes(h)
<1>1. /\ pc'[p] = punto /\ loc'[p] = l /\ Pares(tabla'[p]) = Pares(u)
      /\ \A q \in Programas \ {p} : pc'[q] = pc[q] /\ loc'[q] = loc[q] /\ Pares(tabla'[q]) = Pares(tabla[q])
  BY TrasPaso DEF MapaDe
<1>2. \A b : <<b, h>> \notin Pares(u)
  <2> SUFFICES ASSUME NEW b, <<b, h>> \in Pares(u) PROVE FALSE
    OBVIOUS
  <2>1. <<b, h>> \in MapaDe(p) /\ b # a
    BY DEF MapaDe
  <2>2. PICK i \in DOMAIN mapeos : /\ mapeos[i].archivo = a /\ mapeos[i].lista = h
                                   /\ \A j \in DOMAIN mapeos : mapeos[j].archivo = a \/ mapeos[j].lista = h => j = i
    BY SuEntrada
  <2>3. PICK j \in DOMAIN mapeos : mapeos[j].archivo = b /\ mapeos[j].lista = h
    BY <2>1, SuEntrada
  <2>4. QED
    BY <2>1, <2>2, <2>3
<1>3. Quienes(h)' = Quienes(h) \ {p}
  BY <1>1, <1>2 DEF Quienes, MapaDe
<1>4. YaDescontados(h)' = YaDescontados(h) \ {p}
  BY <1>1 DEF YaDescontados
<1>5. p \in Quienes(h)
  BY SuEntrada
<1>6. QED
  BY <1>3, <1>4, <1>5

(* The entry goes with the last mapping. *)
LEMMA QuitaEntrada ==
  ASSUME CuentaInv, NEW p \in Programas, NEW punto, NEW l, NEW u, Paso(p, punto, l, u), Segmentos(u), SinDobles(u),
         NEW i \in DOMAIN mapeos, NEW a, a = mapeos[i].archivo, NEW h, h = mapeos[i].lista, Quienes(h) = {p},
         <<a, h>> \in MapaDe(p), Pares(u) = Pares(tabla[p]) \ {<<a, h>>},
         pc[p] \in {"quitar", "olvidar"} => loc[p].lista = h, punto \notin {"quitar", "olvidar"},
         mapeos' = RemoveAt(mapeos, i)
  PROVE  /\ Tablas' /\ UnaEntrada' /\ ConEntrada' /\ Cuentan'
         /\ \A j \in DOMAIN mapeos' : \E k \in DOMAIN mapeos : mapeos'[j] = mapeos[k]
<1>1. /\ pc'[p] = punto /\ loc'[p] = l /\ tabla'[p] = u /\ Pares(tabla'[p]) = Pares(u)
      /\ tabla' \in [Programas -> Range(tabla')]
      /\ \A q \in Programas \ {p} :
           pc'[q] = pc[q] /\ loc'[q] = loc[q] /\ tabla'[q] = tabla[q] /\ Pares(tabla'[q]) = Pares(tabla[q])
  BY TrasPaso DEF MapaDe
<1>2. mapeos \in Seq(Entrada) /\ DOMAIN mapeos = 1..Len(mapeos)
  BY LasEntradas
<1>3. PICK t, nueva : t = mapeos /\ nueva = mapeos'
  OBVIOUS
<1>4. PICK f \in [DOMAIN mapeos' -> DOMAIN mapeos] :
        /\ mapeos' \in Seq(Entrada)
        /\ \A j \in DOMAIN mapeos' : f[j] # i /\ mapeos'[j] = mapeos[f[j]]
        /\ \A j, k \in DOMAIN mapeos' : f[j] = f[k] => j = k
        /\ \A k \in DOMAIN mapeos : k # i => \E j \in DOMAIN mapeos' : f[j] = k
  <2>1. t \in Seq(Entrada) /\ i \in 1..Len(t) /\ nueva = RemoveAt(t, i)
    BY <1>2, <1>3
  <2>2. nueva \in Seq(Entrada) /\ Menos(nueva, t, i)
    BY ONLY <2>1, SinUno
  <2>3. mapeos' \in Seq(Entrada) /\ Menos(nueva, t, i)
    BY <1>3, <2>2
  <2>4. QED
    BY <1>3, <2>3 DEF Menos
<1>5. Tablas'
  <2>1. \A q \in Programas : Segmentos(tabla'[q]) /\ SinDobles(tabla'[q])
    BY <1>1 DEF CuentaInv, Tablas
  <2>2. QED
    BY <1>1, <1>4, <2>1 DEF Tablas, Entrada
<1>6. UnaEntrada'
  BY <1>4 DEF CuentaInv, UnaEntrada
<1>7. ConEntrada'
  <2> SUFFICES ASSUME NEW q \in Programas, NEW x \in Pares(tabla'[q])
               PROVE  /\ \E w \in Usa[q] : w.archivo = x[1]
                      /\ \E j \in DOMAIN mapeos' : mapeos'[j].archivo = x[1] /\ mapeos'[j].lista = x[2]
    BY DEF ConEntrada, MapaDe
  <2>1. x \in Pares(tabla[q]) /\ (q = p => x # <<a, h>>)
    BY <1>1
  <2>2. PICK b, g : x = <<b, g>>
    BY <2>1 DEF Pares
  <2>3. \E w \in Usa[q] : w.archivo = b
    BY <2>1, <2>2, SuEntrada DEF MapaDe
  <2>4. PICK k \in DOMAIN mapeos : mapeos[k].archivo = b /\ mapeos[k].lista = g
    BY <2>1, <2>2, SuEntrada DEF MapaDe
  <2>5. k # i
    <3> SUFFICES ASSUME k = i PROVE FALSE
      OBVIOUS
    <3>1. b = a /\ g = h
      BY <2>4
    <3>2. q \in Quienes(h)
      BY <2>1, <2>2, <3>1, SuEntrada DEF MapaDe
    <3>3. QED
      BY <2>1, <2>2, <3>1, <3>2
  <2>6. PICK j \in DOMAIN mapeos' : f[j] = k
    BY <1>4, <2>5
  <2>7. mapeos'[j] = mapeos[k]
    BY <1>4, <2>6
  <2>8. QED
    BY <2>2, <2>3, <2>4, <2>7
<1>8. Cuentan'
  <2> SUFFICES ASSUME NEW j \in DOMAIN mapeos', NEW g, g = mapeos'[j].lista
               PROVE  /\ Quienes(g)' # {} /\ IsFiniteSet(Quienes(g)')
                      /\ mapeos'[j].contador = Cardinality(Quienes(g)') - Cardinality(YaDescontados(g)')
    BY DEF Cuentan
  <2>1. PICK k \in DOMAIN mapeos : k # i /\ mapeos'[j] = mapeos[k]
    BY <1>4
  <2>2. g = mapeos[k].lista /\ g # h
    BY <2>1 DEF CuentaInv, UnaEntrada
  <2>3. \A b : <<b, g>> \in Pares(u) <=> <<b, g>> \in Pares(tabla[p])
    BY <2>2
  <2>4. Quienes(g)' = Quienes(g)
    BY <1>1, <2>3 DEF Quienes, MapaDe
  <2>5. YaDescontados(g)' = YaDescontados(g)
    BY <1>1, <2>2 DEF YaDescontados
  <2>6. /\ Quienes(g) # {} /\ IsFiniteSet(Quienes(g))
        /\ mapeos[k].contador = Cardinality(Quienes(g)) - Cardinality(YaDescontados(g))
    BY <2>2 DEF CuentaInv, Cuentan
  <2>7. QED
    BY <2>1, <2>4, <2>5, <2>6
<1>9. QED
  BY <1>4, <1>5, <1>6, <1>7, <1>8

-----------------------------------------------------------------------------
(* The segment of a mapping goes, and what is left of its count. *)

LEMMA SaleElSegmento ==
  ASSUME CuentaInv, NEW p \in Programas, NEW k \in Mapas(tabla[p]), NEW a, a = tabla[p][k].archivo,
         NEW h, h = tabla[p][k].lista, NEW u, u = RemoveAt(tabla[p], k)
  PROVE  Segmentos(u) /\ SinDobles(u) /\ Pares(u) = Pares(tabla[p]) \ {<<a, h>>} /\ <<a, h>> \in MapaDe(p)
<1>1. PICK t : t = tabla[p]
  OBVIOUS
<1>2. Segmentos(t) /\ SinDobles(t) /\ k \in DOMAIN t /\ t[k].mmapeado /\ u = RemoveAt(t, k)
  BY <1>1, SuTabla DEF Mapas
<1>3. /\ Segmentos(u) /\ (SinDobles(t) => SinDobles(u))
      /\ SinDobles(t) /\ t[k].mmapeado => Pares(u) = Pares(t) \ {<<t[k].archivo, t[k].lista>>}
  BY ONLY <1>2, QuitaSegmento
<1>4. <<a, h>> \in MapaDe(p)
  BY SusPares DEF MapaDe
<1>5. QED
  BY <1>1, <1>2, <1>3, <1>4

(* Who leaves a mapping is the only one that has counted itself out of it. *)
LEMMA ElQueSale ==
  ASSUME CuentaInv, NEW p \in Programas, pc[p] \in {"quitar", "descontar", "olvidar"},
         NEW i \in DOMAIN mapeos, NEW h, h = mapeos[i].lista, loc[p].lista = h, p \in Quienes(h)
  PROVE  /\ YaDescontados(h) = IF pc[p] = "descontar" THEN {} ELSE {p}
         /\ IsFiniteSet(Quienes(h) \ {p}) /\ Cardinality(Quienes(h) \ {p}) \in Nat
         /\ mapeos[i].contador = Cardinality(Quienes(h) \ {p}) + (IF pc[p] = "descontar" THEN 1 ELSE 0)
         /\ Cardinality(Quienes(h) \ {p}) = 0 <=> Quienes(h) = {p}
<1>1. YaDescontados(h) = IF pc[p] = "descontar" THEN {} ELSE {p}
  <2>1. ASSUME NEW q \in Programas, pc[q] \in {"quitar", "olvidar"}, q # p PROVE FALSE
    <3>1. /\ pc[p] \in Cerrando /\ pc[q] \in Cerrando => p = q
          /\ pc[p] = "quitar" /\ pc[q] = "quitar" => p = q
          /\ ~(pc[p] \in Desmapeando /\ pc[q] \in {"descontar", "olvidar"})
      BY Descontados
    <3>2. ~(pc[q] \in Desmapeando /\ pc[p] \in {"descontar", "olvidar"})
      BY Descontados
    <3>3. QED
      BY <2>1, <3>1, <3>2 DEF Cerrando, Desmapeando
  <2>2. QED
    BY <2>1 DEF YaDescontados
<1>2. /\ IsFiniteSet(Quienes(h)) /\ Cardinality(Quienes(h)) \in Nat
      /\ mapeos[i].contador = Cardinality(Quienes(h)) - Cardinality(YaDescontados(h))
  BY DescontadosEsFinito
<1>3. IsFiniteSet(Quienes(h) \ {p}) /\ Cardinality(Quienes(h) \ {p}) = Cardinality(Quienes(h)) - 1
  BY <1>2, UnoMas
<1>4. Cardinality(Quienes(h) \ {p}) \in Nat /\ (Cardinality(Quienes(h) \ {p}) = 0 <=> Quienes(h) \ {p} = {})
  BY <1>3, UnoMas
<1>5. Cardinality({p}) = 1 /\ Cardinality({}) = 0
  BY FS_Singleton, FS_EmptySet
<1>6. mapeos[i].contador = Cardinality(Quienes(h) \ {p}) + (IF pc[p] = "descontar" THEN 1 ELSE 0)
  <2>1. CASE pc[p] = "descontar"
    BY <1>1, <1>2, <1>3, <1>5, <2>1
  <2>2. CASE pc[p] # "descontar"
    BY <1>1, <1>2, <1>3, <1>5, <2>2
  <2>3. QED
    BY <2>1, <2>2
<1>7. QED
  BY <1>1, <1>3, <1>4, <1>6

(* Whose way it is not in. *)
LEMMA NoMolesta ==
  ASSUME CuentaInv, NEW p \in Programas, NEW q \in Programas \ {p}, NEW punto, NEW l, NEW u,
         pc[p] \in Cerrando \cup {"quitar"}, punto \notin Mapeando, punto \in Cerrando => pc[p] \in Cerrando,
         Pares(u) \subseteq Pares(tabla[p]),
         \A j \in DOMAIN mapeos' : \E i \in DOMAIN mapeos : mapeos'[j].archivo = mapeos[i].archivo
  PROVE  SinMolestar(p, q, punto, l, u)
<1>1. Lleva(q)
  BY DEF CuentaInv
<1>2. punto \in Cerrando /\ pc[q] \in Mapeando => \A h \in 1..Listas : <<loc[q].usa.archivo, h>> \notin Pares(u)
  BY <1>1 DEF Lleva, AlMapear, Libre, MapaDe
<1>3. punto \in Cerrando /\ pc[q] \in Desmapeando => Pares(u) = {}
  BY <1>1 DEF Lleva, AlDesmapear, MapaDe
<1>4. pc[q] = "publicar" => \A i \in DOMAIN mapeos' : mapeos'[i].archivo # loc[q].usa.archivo
  BY <1>1 DEF Lleva, AlMapear, Mapeando
<1>5. pc[q] # "olvidar"
  BY Descontados DEF Cerrando, Desmapeando
<1>6. QED
  BY <1>2, <1>3, <1>4, <1>5 DEF SinMolestar

(* A mapping ends: its entry with it, if it was the last. *)
LEMMA SeVa ==
  ASSUME CuentaInv, CandadosInv', NEW p \in Programas, pc[p] \in {"quitar", "descontar", "olvidar"},
         NEW punto \in {"libre", "cerrar"}, punto = "cerrar" => pc[p] \in Cerrando, NEW l,
         NEW k \in Mapas(tabla[p]), NEW a, a = tabla[p][k].archivo, NEW h, h = tabla[p][k].lista, loc[p].lista = h,
         NEW i \in DOMAIN mapeos, mapeos[i].archivo = a, mapeos[i].lista = h,
         NEW u, u = RemoveAt(tabla[p], k), Paso(p, punto, l, u), Lleva(p)',
         IF Quienes(h) = {p} THEN mapeos' = RemoveAt(mapeos, i) ELSE SoloCuenta(i, Cardinality(Quienes(h) \ {p}))
  PROVE  CuentaInv'
<1>1. Segmentos(u) /\ SinDobles(u) /\ Pares(u) = Pares(tabla[p]) \ {<<a, h>>} /\ <<a, h>> \in MapaDe(p)
  BY SaleElSegmento
<1>2. punto \notin {"quitar", "olvidar"}
  OBVIOUS
<1>3. /\ Quienes(h)' = Quienes(h) \ {p} /\ YaDescontados(h)' = YaDescontados(h) \ {p} /\ p \in Quienes(h)
  BY <1>1, <1>2, Sale
<1>4. /\ YaDescontados(h) = IF pc[p] = "descontar" THEN {} ELSE {p}
      /\ IsFiniteSet(Quienes(h) \ {p}) /\ Cardinality(Quienes(h) \ {p}) \in Nat
      /\ Cardinality(Quienes(h) \ {p}) = 0 <=> Quienes(h) = {p}
  BY <1>3, ElQueSale
<1>5. /\ Tablas' /\ UnaEntrada' /\ ConEntrada' /\ Cuentan'
      /\ \A j \in DOMAIN mapeos' : \E m \in DOMAIN mapeos : mapeos'[j].archivo = mapeos[m].archivo
  <2>1. CASE Quienes(h) = {p}
    <3>1. mapeos' = RemoveAt(mapeos, i)
      BY <2>1
    <3>2. /\ Tablas' /\ UnaEntrada' /\ ConEntrada' /\ Cuentan'
          /\ \A j \in DOMAIN mapeos' : \E m \in DOMAIN mapeos : mapeos'[j] = mapeos[m]
      BY <1>1, <1>2, <2>1, <3>1, QuitaEntrada
    <3>3. QED
      BY <3>2
  <2>2. CASE Quienes(h) # {p}
    <3>1. PICK c : c = Cardinality(Quienes(h) \ {p}) /\ SoloCuenta(i, c)
      BY <2>2
    <3>2. Quienes(h)' # {} /\ IsFiniteSet(Quienes(h)')
      BY <1>3, <1>4, <2>2
    <3>3. YaDescontados(h)' = {} /\ Cardinality(YaDescontados(h)') = 0
      BY <1>3, <1>4, FS_EmptySet
    <3>4. c = Cardinality(Quienes(h)') - Cardinality(YaDescontados(h)')
      BY <1>3, <1>4, <3>1, <3>3
    <3>5. \A b, g : <<b, g>> \in Pares(u) =>
            <<b, g>> \in Pares(tabla[p]) \/ (g = h /\ b = mapeos[i].archivo /\ \E w \in Usa[p] : w.archivo = b)
      BY <1>1
    <3>6. \A b, g : <<b, g>> \in Pares(tabla[p]) => <<b, g>> \in Pares(u) \/ g = h
      BY <1>1
    <3>7. Tablas' /\ UnaEntrada' /\ ConEntrada' /\ Cuentan'
      BY <1>1, <1>2, <3>1, <3>2, <3>4, <3>5, <3>6, UnaCuenta
    <3>8. QED
      BY <3>1, <3>7 DEF SoloCuenta
  <2>3. QED
    BY <2>1, <2>2
<1>6. punto \notin Mapeando /\ (punto \in Cerrando => pc[p] \in Cerrando) /\ pc[p] \in Cerrando \cup {"quitar"}
  BY DEF Mapeando, Cerrando
<1>7. Pares(u) \subseteq Pares(tabla[p])
  BY <1>1
<1>8. \A q \in Programas \ {p} : SinMolestar(p, q, punto, l, u)
  BY <1>5, <1>6, <1>7, NoMolesta
<1>9. QED
  BY <1>5, <1>8, CuentaTras

-----------------------------------------------------------------------------
(* muse_unmap drops the segment, and muse_close each of them. *)

LEMMA SuSegmento ==
  ASSUME CuentaInv, NEW p \in Programas, NEW a, NEW h, <<a, h>> \in MapaDe(p)
  PROVE  \E k \in Mapas(tabla[p]) :
           tabla[p][k].archivo = a /\ tabla[p][k].lista = h /\ Min(SegmentosDe(p, a)) = k
<1>1. PICK k \in Mapas(tabla[p]) : tabla[p][k].archivo = a /\ tabla[p][k].lista = h
  BY SusPares DEF MapaDe
<1>2. SegmentosDe(p, a) = {k}
  BY <1>1, SuTabla DEF SegmentosDe, Mapas, SinDobles
<1>3. k \in Int
  BY SuTabla DEF Mapas
<1>4. Min(SegmentosDe(p, a)) = k
  BY <1>2, <1>3 DEF Min
<1>5. QED
  BY <1>1, <1>4

LEMMA QuitarCuenta ==
  ASSUME CuentaInv, CandadosInv', NEW p \in Programas, Quitar(p)
  PROVE  CuentaInv'
<1>1. PICK a, h : a = loc[p].usa.archivo /\ h = loc[p].lista
  OBVIOUS
<1>2. pc[p] = "quitar"
  BY DEF Quitar, Esta
<1>3. <<a, h>> \in MapaDe(p)
  BY <1>1, <1>2 DEF CuentaInv, Lleva, AlDesmapear, Desmapeando
<1>4. PICK k \in Mapas(tabla[p]) :
        tabla[p][k].archivo = a /\ tabla[p][k].lista = h /\ Min(SegmentosDe(p, a)) = k
  BY <1>3, SuSegmento
<1>5. PICK i \in DOMAIN mapeos : mapeos[i].archivo = a /\ mapeos[i].lista = h
  BY <1>3, SuEntrada
<1>6. DeArchivo(a) = i /\ EntradaDeLista(h) = i
  BY <1>5, SeEncuentra
<1>7. PICK u : u = RemoveAt(tabla[p], k)
  OBVIOUS
<1>8. tabla' = [tabla EXCEPT ![p] = u] /\ Ir(p, "libre", LocalVacio)
  <2>1. tabla' = [tabla EXCEPT ![p] = RemoveAt(@, Min(SegmentosDe(p, a)))] /\ Responder(p)
    BY <1>1 DEF Quitar
  <2>2. QED
    BY <1>4, <1>7, <2>1 DEF Responder
<1>9. Paso(p, "libre", LocalVacio, u)
  BY <1>8 DEF Paso, Ir
<1>10. mapeos' = IF mapeos[i].contador = 0 THEN RemoveAt(mapeos, i) ELSE mapeos
  BY <1>1, <1>6 DEF Quitar, SinEntrada, DeArchivo
<1>11. p \in Quienes(h)
  BY <1>3, SuEntrada
<1>12. /\ mapeos[i].contador = Cardinality(Quienes(h) \ {p}) /\ Cardinality(Quienes(h) \ {p}) \in Nat
       /\ Cardinality(Quienes(h) \ {p}) = 0 <=> Quienes(h) = {p}
  <2>1. pc[p] \in {"quitar", "descontar", "olvidar"} /\ h = mapeos[i].lista /\ loc[p].lista = h
    BY <1>1, <1>2, <1>5
  <2>2. /\ Cardinality(Quienes(h) \ {p}) \in Nat
        /\ mapeos[i].contador = Cardinality(Quienes(h) \ {p}) + (IF pc[p] = "descontar" THEN 1 ELSE 0)
        /\ Cardinality(Quienes(h) \ {p}) = 0 <=> Quienes(h) = {p}
    BY <1>11, <2>1, ElQueSale
  <2>3. QED
    BY <1>2, <2>2
<1>13. IF Quienes(h) = {p} THEN mapeos' = RemoveAt(mapeos, i) ELSE SoloCuenta(i, Cardinality(Quienes(h) \ {p}))
  <2>1. CASE Quienes(h) = {p}
    BY <1>10, <1>12, <2>1
  <2>2. CASE Quienes(h) # {p}
    <3>1. mapeos' = mapeos
      BY <1>10, <1>12, <2>2
    <3>2. mapeos \in Seq(Entrada)
      BY LasEntradas
    <3>3. SoloCuenta(i, Cardinality(Quienes(h) \ {p}))
      BY <1>12, <3>1, <3>2 DEF SoloCuenta
    <3>4. QED
      BY <2>2, <3>3
  <2>3. QED
    BY <2>1, <2>2
<1>14. Lleva(p)'
  BY <1>9, SuLocal, LlevaQuieto DEF Tranquilos
<1>15. QED
  BY <1>1, <1>2, <1>4, <1>5, <1>7, <1>9, <1>13, <1>14, SeVa

(* The first segment of a program that closes. *)
LEMMA LlevaAlCerrar ==
  ASSUME CuentaInv, NEW p \in Programas, pc[p] \in Cerrando, NEW l, NEW u, Paso(p, "cerrar", l, u),
         l.clase = loc[p].clase, DOMAIN l = DOMAIN loc[p]
  PROVE  Lleva(p)'
<1>1. pc'[p] = "cerrar" /\ loc'[p] = l
  BY TrasPaso
<1>2. l.clase = "close" /\ {"clase", "usa", "lista", "seg"} \subseteq DOMAIN l
  BY DEF CuentaInv, Lleva, ConClase
<1>3. "cerrar" \notin Mapeando \cup Desmapeando \cup Asignando
  BY DEF Mapeando, Desmapeando, Asignando
<1>4. ConClase(pc'[p], loc'[p].clase) /\ AlCerrar(p)' /\ AlAsignar(p)'
  BY <1>1, <1>2, <1>3 DEF ConClase, AlCerrar, AlAsignar
<1>5. QED
  BY <1>1, <1>2, <1>3, <1>4 DEF Lleva

LEMMA CabezaMapeada ==
  ASSUME CuentaInv, NEW p \in Programas, pc[p] \in {"descontar", "olvidar"},
         NEW a, a = Head(tabla[p]).archivo, NEW h, h = loc[p].lista
  PROVE  /\ 1 \in Mapas(tabla[p]) /\ a = tabla[p][1].archivo /\ h = tabla[p][1].lista
         /\ tabla[p] # <<>> /\ Head(tabla[p]).mmapeado /\ Head(tabla[p]).lista = h
         /\ Tail(tabla[p]) = RemoveAt(tabla[p], 1) /\ p \in Quienes(h)
         /\ \E i \in DOMAIN mapeos :
              mapeos[i].archivo = a /\ mapeos[i].lista = h /\ DeArchivo(a) = i /\ EntradaDeLista(h) = i
<1>1. tabla[p] # <<>> /\ Head(tabla[p]).mmapeado /\ h = Head(tabla[p]).lista
  BY DEF CuentaInv, Lleva, AlCerrar
<1>2. /\ 1 \in DOMAIN tabla[p] /\ Head(tabla[p]) = tabla[p][1] /\ Tail(tabla[p]) = RemoveAt(tabla[p], 1)
      /\ <<Head(tabla[p]).archivo, Head(tabla[p]).lista>> \in MapaDe(p)
  BY <1>1, SuCabeza
<1>3. <<a, h>> \in MapaDe(p)
  BY <1>1, <1>2
<1>4. p \in Quienes(h)
  BY <1>3, SuEntrada
<1>5. PICK i \in DOMAIN mapeos : mapeos[i].archivo = a /\ mapeos[i].lista = h
  BY <1>3, SuEntrada
<1>6. DeArchivo(a) = i /\ EntradaDeLista(h) = i
  BY <1>5, SeEncuentra
<1>7. QED
  BY <1>1, <1>2, <1>4, <1>5, <1>6 DEF Mapas

LEMMA CerrarCuenta ==
  ASSUME CuentaInv, CandadosInv', NEW p \in Programas, Cerrar(p)
  PROVE  CuentaInv'
<1>1. pc[p] = "cerrar" /\ pc[p] \in Cerrando /\ tabla[p] # <<>> /\ mapeos' = mapeos
  BY DEF Cerrar, Esta, Cerrando, compartidos
<1>2. /\ 1 \in DOMAIN tabla[p] /\ Head(tabla[p]) = tabla[p][1] /\ Tail(tabla[p]) = RemoveAt(tabla[p], 1)
      /\ Head(tabla[p]).mmapeado \in BOOLEAN
      /\ Head(tabla[p]).mmapeado => <<Head(tabla[p]).archivo, Head(tabla[p]).lista>> \in MapaDe(p)
  BY <1>1, SuCabeza
<1>3. {"clase", "usa", "lista", "seg"} \subseteq DOMAIN loc[p] /\ loc[p].clase = "close"
  BY <1>1 DEF CuentaInv, Lleva, ConClase
<1>4. Segmentos(tabla[p]) /\ SinDobles(tabla[p])
  BY SuTabla
<1>5. CASE ~Head(tabla[p]).mmapeado
  <2>1. PICK t, u : t = tabla[p] /\ u = Tail(t)
    OBVIOUS
  <2>2. tabla' = [tabla EXCEPT ![p] = u] /\ pc' = pc /\ loc' = loc
    BY <1>5, <2>1 DEF Cerrar
  <2>3. Segmentos(t) /\ SinDobles(t) /\ 1 \in DOMAIN t /\ u = RemoveAt(t, 1) /\ ~t[1].mmapeado
    BY <1>2, <1>4, <1>5, <2>1
  <2>4. Segmentos(u) /\ (SinDobles(t) => SinDobles(u)) /\ (~t[1].mmapeado => Pares(u) = Pares(t))
    BY ONLY <2>3, QuitaSegmento
  <2>5. Segmentos(u) /\ SinDobles(u) /\ Pares(u) = Pares(tabla[p])
    BY <2>1, <2>3, <2>4
  <2>6. Paso(p, "cerrar", loc[p], u)
    <3>1. pc \in [Programas -> Puntos] /\ loc \in [Programas -> Range(loc)]
      BY DEF CuentaInv, CandadosInv
    <3>2. pc = [pc EXCEPT ![p] = "cerrar"] /\ loc = [loc EXCEPT ![p] = loc[p]]
      BY <1>1, <3>1
    <3>3. QED
      BY <2>2, <3>2 DEF Paso
  <2>7. Lleva(p)'
    BY <1>1, <2>6, LlevaAlCerrar
  <2>8. {pc[p], "cerrar"} \cap {"quitar", "olvidar"} = {} /\ "cerrar" \notin Mapeando
    BY <1>1 DEF Mapeando
  <2>9. QED
    BY <1>1, <2>5, <2>6, <2>7, <2>8, PasoQuieto
<1>6. CASE Head(tabla[p]).mmapeado
  <2>1. PICK a, h : a = Head(tabla[p]).archivo /\ h = Head(tabla[p]).lista
    OBVIOUS
  <2>2. <<a, h>> \in MapaDe(p)
    BY <1>2, <1>6, <2>1
  <2>3. PICK i \in DOMAIN mapeos : mapeos[i].archivo = a /\ mapeos[i].lista = h
    BY <2>2, SuEntrada
  <2>4. DeArchivo(a) = i /\ i # 0
    BY <2>3, SeEncuentra, LasEntradas
  <2> DEFINE l == [loc[p] EXCEPT !.lista = h]
  <2>5. Ir(p, "descontar", l) /\ tabla' = tabla
    <3> DEFINE j == SelectInSeq(mapeos, LAMBDA m : m.archivo = Head(tabla[p]).archivo)
    <3>1. j = i
      BY <2>1, <2>4 DEF DeArchivo
    <3>2. Ir(p, "descontar", [loc[p] EXCEPT !.lista = IF j = 0 THEN 0 ELSE mapeos[j].lista]) /\ tabla' = tabla
      BY <1>6 DEF Cerrar
    <3> HIDE DEF j
    <3>3. QED
      BY <2>3, <2>4, <3>1, <3>2
  <2>6. l.clase = "close" /\ l.lista = h /\ {"clase", "usa", "lista", "seg"} \subseteq DOMAIN l
    BY <1>3
  <2> HIDE DEF l
  <2>7. Paso(p, "descontar", l, tabla[p])
    BY <2>5, SinTocar
  <2>8. pc'[p] = "descontar" /\ loc'[p] = l
    BY <2>7, TrasPaso
  <2>9. Lleva(p)'
    <3>1. "descontar" \notin Mapeando \cup Desmapeando \cup Asignando
      BY DEF Mapeando, Desmapeando, Asignando
    <3>2. AlCerrar(p)'
      BY <1>1, <1>6, <2>1, <2>5, <2>6, <2>8 DEF AlCerrar
    <3>3. ConClase(pc'[p], loc'[p].clase) /\ AlAsignar(p)'
      BY <2>6, <2>8, <3>1 DEF ConClase, AlAsignar
    <3>4. QED
      BY <2>6, <2>8, <3>1, <3>2, <3>3 DEF Lleva
  <2>10. {pc[p], "descontar"} \cap {"quitar", "olvidar"} = {} /\ "descontar" \notin Mapeando
    BY <1>1 DEF Mapeando
  <2>11. QED
    BY <1>1, <1>4, <2>7, <2>9, <2>10, PasoQuieto
<1>7. QED
  BY <1>2, <1>5, <1>6

LEMMA DescontarCuenta ==
  ASSUME CuentaInv, CandadosInv', NEW p \in Programas, Descontar(p)
  PROVE  CuentaInv'
<1>1. pc[p] = "descontar" /\ pc[p] \in Cerrando
  BY DEF Descontar, Esta, Cerrando
<1>2. PICK a, h : a = Head(tabla[p]).archivo /\ h = loc[p].lista
  OBVIOUS
<1>3. pc[p] \in {"descontar", "olvidar"} /\ pc[p] \in {"quitar", "descontar", "olvidar"}
  BY <1>1
<1>4. /\ 1 \in Mapas(tabla[p]) /\ a = tabla[p][1].archivo /\ h = tabla[p][1].lista
      /\ tabla[p] # <<>> /\ Head(tabla[p]).mmapeado /\ Head(tabla[p]).lista = h
      /\ Tail(tabla[p]) = RemoveAt(tabla[p], 1) /\ p \in Quienes(h)
      /\ \E i \in DOMAIN mapeos :
           mapeos[i].archivo = a /\ mapeos[i].lista = h /\ DeArchivo(a) = i /\ EntradaDeLista(h) = i
  BY <1>2, <1>3, CabezaMapeada
<1>5. PICK i \in DOMAIN mapeos : mapeos[i].archivo = a /\ mapeos[i].lista = h /\ EntradaDeLista(h) = i
  BY <1>4
<1>6. /\ YaDescontados(h) = {}
      /\ IsFiniteSet(Quienes(h) \ {p}) /\ Cardinality(Quienes(h) \ {p}) \in Nat
      /\ mapeos[i].contador = Cardinality(Quienes(h) \ {p}) + 1
      /\ Cardinality(Quienes(h) \ {p}) = 0 <=> Quienes(h) = {p}
  <2>1. h = mapeos[i].lista /\ loc[p].lista = h
    BY <1>2, <1>5
  <2>2. /\ YaDescontados(h) = IF pc[p] = "descontar" THEN {} ELSE {p}
        /\ IsFiniteSet(Quienes(h) \ {p}) /\ Cardinality(Quienes(h) \ {p}) \in Nat
        /\ mapeos[i].contador = Cardinality(Quienes(h) \ {p}) + (IF pc[p] = "descontar" THEN 1 ELSE 0)
        /\ Cardinality(Quienes(h) \ {p}) = 0 <=> Quienes(h) = {p}
    BY <1>3, <1>4, <2>1, ElQueSale
  <2>3. QED
    BY <1>1, <2>2
<1>7. PICK c : c = mapeos[i].contador - 1
  OBVIOUS
<1>8. c \in Int /\ c = Cardinality(Quienes(h) \ {p}) /\ (c = 0 <=> Quienes(h) = {p})
      /\ (mapeos[i].contador = 1 <=> Quienes(h) = {p})
  BY <1>6, <1>7
<1>9. SoloCuenta(i, c)
  <2>1. mapeos' = [mapeos EXCEPT ![i].contador = @ - 1]
    BY <1>2, <1>5 DEF Descontar
  <2>2. mapeos' = [mapeos EXCEPT ![i].contador = c]
    BY <1>7, <2>1
  <2>3. QED
    BY <1>8, <2>2, CuentaOtra
<1>10. /\ Ir(p, IF Quienes(h) = {p} THEN "olvidar" ELSE "cerrar",
             [loc[p] EXCEPT !.lista = IF Quienes(h) = {p} THEN h ELSE 0])
       /\ tabla' = IF Quienes(h) = {p} THEN tabla ELSE [tabla EXCEPT ![p] = Tail(@)]
  <2> DEFINE fin == mapeos[EntradaDeLista(loc[p].lista)].contador = 1
  <2>1. fin <=> Quienes(h) = {p}
    BY <1>2, <1>5, <1>8
  <2>2. /\ Ir(p, IF fin THEN "olvidar" ELSE "cerrar", [loc[p] EXCEPT !.lista = IF fin THEN loc[p].lista ELSE 0])
        /\ tabla' = IF fin THEN tabla ELSE [tabla EXCEPT ![p] = Tail(@)]
    BY DEF Descontar
  <2> HIDE DEF fin
  <2>3. CASE Quienes(h) = {p}
    BY <1>2, <2>1, <2>2, <2>3
  <2>4. CASE Quienes(h) # {p}
    BY <2>1, <2>2, <2>4
  <2>5. QED
    BY <2>3, <2>4
<1>11. CASE Quienes(h) # {p}
  <2> DEFINE l == [loc[p] EXCEPT !.lista = 0]
  <2>1. PICK u : u = RemoveAt(tabla[p], 1)
    OBVIOUS
  <2>2. Ir(p, "cerrar", l) /\ tabla' = [tabla EXCEPT ![p] = u]
    BY <1>4, <1>10, <1>11, <2>1
  <2>3. l.clase = loc[p].clase /\ DOMAIN l = DOMAIN loc[p]
    OBVIOUS
  <2> HIDE DEF l
  <2>4. Paso(p, "cerrar", l, u)
    BY <2>2 DEF Paso, Ir
  <2>5. Lleva(p)'
    BY <1>1, <2>3, <2>4, LlevaAlCerrar
  <2>6. IF Quienes(h) = {p} THEN mapeos' = RemoveAt(mapeos, i) ELSE SoloCuenta(i, Cardinality(Quienes(h) \ {p}))
    BY <1>8, <1>9, <1>11
  <2>7. loc[p].lista = h /\ "cerrar" \in {"libre", "cerrar"}
    BY <1>2
  <2>8. QED
    BY <1>1, <1>3, <1>4, <1>5, <2>1, <2>4, <2>5, <2>6, <2>7, SeVa
<1>12. CASE Quienes(h) = {p}
  <2> DEFINE l == [loc[p] EXCEPT !.lista = h]
  <2>1. Ir(p, "olvidar", l) /\ tabla' = tabla
    BY <1>10, <1>12
  <2>2. {"clase", "usa", "lista", "seg"} \subseteq DOMAIN loc[p] /\ loc[p].clase = "close"
    BY <1>1 DEF CuentaInv, Lleva, ConClase
  <2>3. l.clase = "close" /\ l.lista = h /\ {"clase", "usa", "lista", "seg"} \subseteq DOMAIN l
    BY <2>2
  <2> HIDE DEF l
  <2>4. Paso(p, "olvidar", l, tabla[p])
    BY <2>1, SinTocar
  <2>5. pc'[p] = "olvidar" /\ loc'[p] = l
    BY <2>4, TrasPaso
  <2>6. /\ p \in Quienes(h)' /\ Quienes(h)' \ {p} = Quienes(h) \ {p}
        /\ p \in YaDescontados(h)' /\ YaDescontados(h)' \ {p} = YaDescontados(h) \ {p}
    <3>1. Quienes(h)' = Quienes(h)
      BY <2>1 DEF Quienes, MapaDe
    <3>2. p \in YaDescontados(h)'
      BY <2>3, <2>5 DEF YaDescontados
    <3>3. YaDescontados(h)' \ {p} = YaDescontados(h) \ {p}
      BY <2>4, QuienesTrasPaso
    <3>4. QED
      BY <1>4, <3>1, <3>2, <3>3
  <2>7. Quienes(h)' = {p} /\ YaDescontados(h)' = {p}
    BY <1>6, <1>12, <2>6
  <2>8. Tablas' /\ UnaEntrada' /\ ConEntrada' /\ Cuentan'
    <3>1. Segmentos(tabla[p]) /\ SinDobles(tabla[p])
      BY SuTabla
    <3>2. Quienes(h)' # {} /\ IsFiniteSet(Quienes(h)') /\ c = Cardinality(Quienes(h)') - Cardinality(YaDescontados(h)')
      <4>1. IsFiniteSet({p}) /\ Cardinality({p}) = 1
        BY FS_Singleton
      <4>2. c = 0 /\ c = Cardinality({p}) - Cardinality({p})
        BY <1>8, <1>12, <4>1
      <4>3. Quienes(h)' # {} /\ IsFiniteSet(Quienes(h)')
        BY <2>7, <4>1
      <4>4. QED
        BY <2>7, <4>2, <4>3
    <3>3. (pc[p] \in {"quitar", "olvidar"} => loc[p].lista = h) /\ ("olvidar" \in {"quitar", "olvidar"} => l.lista = h)
      BY <1>2, <2>3
    <3>4. h = mapeos[i].lista
      BY <1>5
    <3>5. /\ \A b, g : <<b, g>> \in Pares(tabla[p]) =>
               <<b, g>> \in Pares(tabla[p]) \/ (g = h /\ b = mapeos[i].archivo /\ \E w \in Usa[p] : w.archivo = b)
          /\ \A b, g : <<b, g>> \in Pares(tabla[p]) => <<b, g>> \in Pares(tabla[p]) \/ g = h
      OBVIOUS
    <3>6. QED
      BY <1>9, <2>4, <3>1, <3>2, <3>3, <3>4, <3>5, UnaCuenta
  <2>9. Lleva(p)'
    <3>1. "olvidar" \notin Mapeando \cup Desmapeando \cup Asignando
      BY DEF Mapeando, Desmapeando, Asignando
    <3>2. \E j \in DOMAIN mapeos' : mapeos'[j].lista = h /\ mapeos'[j].contador = 0
      BY <1>5, <1>8, <1>9, <1>12 DEF SoloCuenta
    <3>3. AlCerrar(p)'
      BY <1>4, <2>1, <2>3, <2>5, <3>2 DEF AlCerrar
    <3>4. ConClase(pc'[p], loc'[p].clase) /\ AlAsignar(p)'
      BY <2>3, <2>5, <3>1 DEF ConClase, AlAsignar
    <3>5. QED
      BY <2>3, <2>5, <3>1, <3>3, <3>4 DEF Lleva
  <2>10. \A q \in Programas \ {p} : SinMolestar(p, q, "olvidar", l, tabla[p])
    <3>1. "olvidar" \notin Mapeando /\ pc[p] \in Cerrando \cup {"quitar"}
      BY <1>1 DEF Mapeando
    <3>2. \A j \in DOMAIN mapeos' : \E m \in DOMAIN mapeos : mapeos'[j].archivo = mapeos[m].archivo
      BY <1>9 DEF SoloCuenta
    <3>3. QED
      BY <1>1, <3>1, <3>2, NoMolesta
  <2>11. QED
    BY <2>4, <2>8, <2>9, <2>10, CuentaTras
<1>13. QED
  BY <1>11, <1>12

LEMMA OlvidarCuenta ==
  ASSUME CuentaInv, CandadosInv', NEW p \in Programas, Olvidar(p)
  PROVE  CuentaInv'
<1>1. pc[p] = "olvidar" /\ pc[p] \in Cerrando
  BY DEF Olvidar, Esta, Cerrando
<1>2. PICK a, h : a = Head(tabla[p]).archivo /\ h = loc[p].lista
  OBVIOUS
<1>3. pc[p] \in {"descontar", "olvidar"} /\ pc[p] \in {"quitar", "descontar", "olvidar"}
  BY <1>1
<1>4. /\ 1 \in Mapas(tabla[p]) /\ a = tabla[p][1].archivo /\ h = tabla[p][1].lista
      /\ tabla[p] # <<>> /\ Head(tabla[p]).mmapeado /\ Head(tabla[p]).lista = h
      /\ Tail(tabla[p]) = RemoveAt(tabla[p], 1) /\ p \in Quienes(h)
      /\ \E i \in DOMAIN mapeos :
           mapeos[i].archivo = a /\ mapeos[i].lista = h /\ DeArchivo(a) = i /\ EntradaDeLista(h) = i
  BY <1>2, <1>3, CabezaMapeada
<1>5. PICK i \in DOMAIN mapeos : mapeos[i].archivo = a /\ mapeos[i].lista = h /\ DeArchivo(a) = i
  BY <1>4
<1>6. Quienes(h) = {p}
  <2>1. h = mapeos[i].lista /\ loc[p].lista = h
    BY <1>2, <1>5
  <2>2. /\ Cardinality(Quienes(h) \ {p}) \in Nat
        /\ mapeos[i].contador = Cardinality(Quienes(h) \ {p}) + (IF pc[p] = "descontar" THEN 1 ELSE 0)
        /\ Cardinality(Quienes(h) \ {p}) = 0 <=> Quienes(h) = {p}
    BY <1>3, <1>4, <2>1, ElQueSale
  <2>3. PICK j \in DOMAIN mapeos : mapeos[j].lista = h /\ mapeos[j].contador = 0
    BY <1>1, <1>2 DEF CuentaInv, Lleva, AlCerrar
  <2>4. j = i
    BY <1>5, <2>3 DEF CuentaInv, UnaEntrada
  <2>5. QED
    BY <1>1, <2>2, <2>3, <2>4
<1> DEFINE l == [loc[p] EXCEPT !.lista = 0]
<1>7. PICK u : u = RemoveAt(tabla[p], 1)
  OBVIOUS
<1>8. Ir(p, "cerrar", l) /\ tabla' = [tabla EXCEPT ![p] = u]
  BY <1>4, <1>7 DEF Olvidar
<1>9. mapeos' = RemoveAt(mapeos, i)
  BY <1>2, <1>5 DEF Olvidar, SinEntrada, DeArchivo
<1>10. l.clase = loc[p].clase /\ DOMAIN l = DOMAIN loc[p]
  OBVIOUS
<1> HIDE DEF l
<1>11. Paso(p, "cerrar", l, u)
  BY <1>8 DEF Paso, Ir
<1>12. Lleva(p)'
  BY <1>1, <1>10, <1>11, LlevaAlCerrar
<1>13. IF Quienes(h) = {p} THEN mapeos' = RemoveAt(mapeos, i) ELSE SoloCuenta(i, Cardinality(Quienes(h) \ {p}))
  BY <1>6, <1>9
<1>14. loc[p].lista = h /\ "cerrar" \in {"libre", "cerrar"}
  BY <1>2
<1>15. QED
  BY <1>1, <1>3, <1>4, <1>5, <1>7, <1>11, <1>12, <1>13, <1>14, SeVa

-----------------------------------------------------------------------------
(* What the counts are worth. *)

LEMMA CuentaInicial == SegmentosInit => CuentaInv
<1> SUFFICES ASSUME SegmentosInit PROVE CuentaInv
  OBVIOUS
<1>1. CandadosInv
  BY CandadosInicial
<1>2. /\ tabla = [p \in Programas |-> <<>>] /\ mapeos = <<>>
      /\ pc = [p \in Programas |-> "nuevo"] /\ loc = [p \in Programas |-> LocalVacio]
  BY DEF SegmentosInit
<1>3. loc \in [Programas -> Range(loc)] /\ tabla \in [Programas -> Range(tabla)]
  BY <1>2 DEF Range
<1>4. Segmentos(<<>>) /\ SinDobles(<<>>) /\ Pares(<<>>) = {}
  BY DEF Segmentos, SinDobles, Pares, Mapas
<1>5. \A p \in Programas : tabla[p] = <<>> /\ pc[p] = "nuevo" /\ loc[p] = LocalVacio /\ MapaDe(p) = {}
  BY <1>2, <1>4 DEF MapaDe
<1>6. Tablas /\ UnaEntrada /\ ConEntrada /\ Cuentan
  <2>1. DOMAIN mapeos = {}
    BY <1>2
  <2>2. Tablas
    BY <1>2, <1>3, <1>4, <1>5 DEF Tablas
  <2>3. QED
    BY <1>5, <2>1, <2>2 DEF UnaEntrada, ConEntrada, Cuentan
<1>7. ASSUME NEW p \in Programas PROVE Lleva(p)
  <2>1. pc[p] \notin Mapeando \cup Desmapeando \cup Cerrando \cup Asignando
    BY <1>5 DEF Mapeando, Desmapeando, Cerrando, Asignando
  <2>2. {"clase", "usa", "lista", "seg"} \subseteq DOMAIN loc[p]
    BY <1>5 DEF LocalVacio
  <2>3. ConClase(pc[p], loc[p].clase) /\ AlCerrar(p) /\ AlAsignar(p)
    BY <2>1 DEF ConClase, AlCerrar, AlAsignar, Cerrando, Asignando
  <2>4. QED
    BY <2>1, <2>2, <2>3 DEF Lleva
<1>8. QED
  BY <1>1, <1>3, <1>6, <1>7 DEF CuentaInv

LEMMA PasoCuenta ==
  ASSUME CuentaInv, TodosCuidadosos, UnModo, SinRepetir, NEW p \in Programas, Pedir(p) \/ Atender(p)
  PROVE  CuentaInv'
<1>1. CandadosInv'
  BY PedirCandados, HeapCandados, MapaCandados, BajarCandados, CierreCandados DEF CuentaInv, Atender
<1>2. CASE Pedir(p)
  <2>1. CASE CopiarAlHeap(p)
    <3>1. UNCHANGED <<pc, loc, tabla, mapeos, candados>>
      BY <2>1 DEF CopiarAlHeap, compartidos
    <3>2. QED
      BY <3>1, IgualesCuenta
  <2>2. CASE EmpezarAlloc(p) \/ EmpezarFree(p)
    BY <1>1, <2>2, PedirHeapCuenta
  <2>3. CASE EmpezarMapa(p)
    BY <1>1, <2>3, EmpezarMapaCuenta
  <2>4. CASE EmpezarUnmap(p)
    BY <1>1, <2>4, EmpezarUnmapCuenta
  <2>5. CASE EmpezarCierre(p)
    BY <1>1, <2>5, EmpezarCierreCuenta
  <2>6. CASE Iniciar(p) \/ EmpezarAcceso(p) \/ Morir(p)
    BY <1>1, <2>6, AccesoCuenta
  <2>7. QED
    BY <1>2, <2>1, <2>2, <2>3, <2>4, <2>5, <2>6 DEF Pedir
<1>3. CASE AtenderHeap(p)
  BY <1>1, <1>3, DecidirCuenta, OcuparCuenta, RevisarCuenta, ReservarCuenta, SinLiberadasCuenta, AmpliarCuenta,
     JuntarCuenta DEF AtenderHeap
<1>4. CASE MapaTabla(p) \/ BuscarMapeo(p) \/ Publicar(p)
  BY <1>1, <1>4, MapaTablaCuenta, BuscarCuenta, PublicarCuenta
<1>5. CASE Cargar(p) \/ Marcar(p) \/ Pegar(p) \/ YaEsta(p) \/ Tocar(p) \/ Terminar(p) \/ Cerrado(p)
  BY <1>1, <1>5, AccesoCuenta
<1>6. CASE Bajar(p) \/ Quitar(p)
  BY <1>1, <1>6, BajarCuenta, QuitarCuenta
<1>7. CASE Cerrar(p) \/ Descontar(p) \/ Olvidar(p)
  BY <1>1, <1>7, CerrarCuenta, DescontarCuenta, OlvidarCuenta
<1>8. QED
  BY <1>2, <1>3, <1>4, <1>5, <1>6, <1>7 DEF Atender

(* A list is in one segment of each program that has it. *)
LEMMA UnaReferencia ==
  ASSUME CuentaInv, NEW h, IsFiniteSet(Quienes(h))
  PROVE  Cardinality(Referencias(h)) = Cardinality(Quienes(h))
<1> DEFINE R == Referencias(h)
           f == [q \in Quienes(h) |-> CHOOSE r \in R : r[1] = q]
<1>1. ASSUME NEW r \in R
      PROVE  \E q \in Quienes(h) : \E k \in Mapas(tabla[q]) : r = <<q, k>> /\ tabla[q][k].lista = h /\ r[1] = q
  <2>1. PICK q \in Programas : \E k \in DOMAIN tabla[q] : r = <<q, k>> /\ tabla[q][k].mmapeado /\ tabla[q][k].lista = h
    BY DEF Referencias
  <2>0. PICK k \in DOMAIN tabla[q] : r = <<q, k>> /\ tabla[q][k].mmapeado /\ tabla[q][k].lista = h
    BY <2>1
  <2>2. k \in Mapas(tabla[q])
    BY <2>0 DEF Mapas
  <2>3. <<tabla[q][k].archivo, h>> \in MapaDe(q)
    BY <2>0, <2>2, SusPares DEF MapaDe
  <2>4. q \in Quienes(h)
    BY <2>3, SuEntrada
  <2>5. QED
    BY <2>0, <2>2, <2>4
<1>2. ASSUME NEW q \in Quienes(h) PROVE \E r \in R : r[1] = q
  <2>1. PICK a : q \in Programas /\ <<a, h>> \in MapaDe(q)
    BY DEF Quienes
  <2>2. PICK k \in Mapas(tabla[q]) : tabla[q][k].lista = h
    BY <2>1, SusPares DEF MapaDe
  <2>3. <<q, k>> \in R /\ <<q, k>>[1] = q
    BY <2>1, <2>2 DEF Referencias, Mapas
  <2>4. QED
    BY <2>3
<1>3. ASSUME NEW r \in R, NEW s \in R, r[1] = s[1] PROVE r = s
  <2>1. PICK q \in Quienes(h) : \E k \in Mapas(tabla[q]) : r = <<q, k>> /\ tabla[q][k].lista = h /\ r[1] = q
    BY <1>1
  <2>2. PICK q2 \in Quienes(h) : \E j \in Mapas(tabla[q2]) : s = <<q2, j>> /\ tabla[q2][j].lista = h /\ s[1] = q2
    BY <1>1
  <2>3. q2 = q /\ q \in Programas
    BY <1>3, <2>1, <2>2 DEF Quienes
  <2>10. PICK k \in Mapas(tabla[q]) : r = <<q, k>> /\ tabla[q][k].lista = h
    BY <2>1
  <2>11. PICK j \in Mapas(tabla[q]) : s = <<q, j>> /\ tabla[q][j].lista = h
    BY <2>2, <2>3
  <2>4. <<tabla[q][k].archivo, h>> \in MapaDe(q) /\ <<tabla[q][j].archivo, h>> \in MapaDe(q)
    BY <2>10, <2>11, SusPares DEF MapaDe
  <2>5. PICK i \in DOMAIN mapeos : mapeos[i].archivo = tabla[q][k].archivo /\ mapeos[i].lista = h
    BY <2>3, <2>4, SuEntrada
  <2>6. PICK m \in DOMAIN mapeos : mapeos[m].archivo = tabla[q][j].archivo /\ mapeos[m].lista = h
    BY <2>3, <2>4, SuEntrada
  <2>7. i = m
    BY <2>5, <2>6 DEF CuentaInv, UnaEntrada
  <2>8. k = j
    BY <2>3, <2>10, <2>11, <2>5, <2>6, <2>7, SuTabla DEF SinDobles
  <2>9. QED
    BY <2>10, <2>11, <2>8
<1> HIDE DEF R
<1>4. \A q \in Quienes(h) : f[q] \in R /\ f[q][1] = q
  BY <1>2
<1>5. f \in Bijection(Quienes(h), R)
  <2>1. f \in [Quienes(h) -> R]
    BY <1>4
  <2>2. \A q, w \in Quienes(h) : f[q] = f[w] => q = w
    BY <1>4
  <2>3. \A r \in R : \E q \in Quienes(h) : f[q] = r
    <3> SUFFICES ASSUME NEW r \in R PROVE \E q \in Quienes(h) : f[q] = r
      OBVIOUS
    <3>1. r[1] \in Quienes(h)
      BY <1>1
    <3>2. f[r[1]] \in R /\ f[r[1]][1] = r[1]
      BY <1>4, <3>1
    <3>3. f[r[1]] = r
      BY <1>3, <3>2
    <3>4. QED
      BY <3>1, <3>3
  <2> HIDE DEF f
  <2>4. QED
    BY <2>1, <2>2, <2>3 DEF Bijection, Injection, Surjection, IsInjective
<1>6. ExistsBijection(Quienes(h), R)
  BY <1>5 DEF ExistsBijection
<1>7. Cardinality(R) = Cardinality(Quienes(h))
  BY <1>6, FS_Bijection
<1>8. QED
  BY <1>7 DEF R

LEMMA CuentaBasta ==
  ASSUME CuentaInv
  PROVE  CuentaExacta
<1>1. ASSUME NEW i \in DOMAIN mapeos, NEW h, h = mapeos[i].lista
      PROVE  mapeos[i].contador = Cardinality(Referencias(h)) - Cardinality(YaDescontados(h))
  <2>1. IsFiniteSet(Quienes(h)) /\ mapeos[i].contador = Cardinality(Quienes(h)) - Cardinality(YaDescontados(h))
    BY <1>1, DescontadosEsFinito
  <2>2. QED
    BY <2>1, UnaReferencia
<1>2. ASSUME NEW p \in Programas, NEW s \in Range(tabla[p]), s.mmapeado
      PROVE  EntradaDeLista(s.lista) # 0
  <2>1. PICK k \in Mapas(tabla[p]) : s = tabla[p][k]
    BY <1>2 DEF Range, Mapas
  <2>2. <<s.archivo, s.lista>> \in MapaDe(p)
    BY <2>1, SusPares DEF MapaDe
  <2>3. PICK i \in DOMAIN mapeos : mapeos[i].lista = s.lista
    BY <2>2, SuEntrada
  <2>4. EntradaDeLista(s.lista) = i /\ i # 0
    BY <2>3, SeEncuentra, LasEntradas
  <2>5. QED
    BY <2>4
<1>3. QED
  BY <1>1, <1>2 DEF CuentaExacta

(* The count of an entry of tabla_de_mapeo is that of the segments with its pages,   *)
(* less those that bajar_mapeo or muse_close have counted out already, and every     *)
(* mapped segment has its entry: for any programs, files and lengths, when all of    *)
(* them are careful, none shares with another a file it maps privately and none maps *)
(* a file twice at once.                                                             *)
THEOREM CuentaExactaConCuidado ==
  TodosCuidadosos /\ UnModo /\ SinRepetir => (ProgramasSpec => []CuentaExacta)
<1>1. TodosCuidadosos /\ UnModo /\ SinRepetir /\ CuentaInv /\ [ProgramasNext]_segmentosVars => CuentaInv'
  <2> SUFFICES ASSUME TodosCuidadosos, UnModo, SinRepetir, CuentaInv, [ProgramasNext]_segmentosVars PROVE CuentaInv'
    OBVIOUS
  <2>1. CASE ProgramasNext
    BY <2>1, PasoCuenta DEF ProgramasNext
  <2>2. CASE UNCHANGED segmentosVars
    BY <2>2, IgualesCuenta DEF segmentosVars, candados
  <2>3. QED
    BY <2>1, <2>2
<1>2. CuentaInv => CuentaExacta
  BY CuentaBasta
<1> SUFFICES ASSUME TodosCuidadosos, UnModo, SinRepetir PROVE ProgramasSpec => []CuentaExacta
  OBVIOUS
<1>3. CuentaInv /\ [ProgramasNext]_segmentosVars => CuentaInv'
  BY <1>1
<1>4. QED
  BY <1>2, <1>3, CuentaInicial, PTL DEF ProgramasSpec

-----------------------------------------------------------------------------
(* The segments of a careful program, one after another.  A table is a value here,   *)
(* and h the lists of pages of the mappings.                                      *)

(* Where what a segment has, and may take back, ends. *)
Hasta(h, s) == s.base + (IF s.mmapeado THEN Len(h[s.lista]) ELSE s.paginas + s.liberadas) * TamPag

Segmento    == DeHeap \cup DeMapeo
Ordenada(h, t) == \A j, k \in DOMAIN t : j < k => Hasta(h, t[j]) <= t[k].base
Debajo(h, t, b) == \A k \in DOMAIN t : Hasta(h, t[k]) <= b

(* A segment left with no metadata is the last one; and the metadata that will grow    *)
(* have their index right.                                                        *)
Vacio(s) == ~s.mmapeado /\ s.heaps = <<>>
VaciosAlFinal(t) == \A k \in DOMAIN t : Vacio(t[k]) => k = Len(t)
ConMeta(t, k) == k \in DOMAIN t /\ ~t[k].mmapeado /\ t[k].heaps # <<>>
UltimoAlDia(t) == ConMeta(t, Len(t)) => IndiceAlDia(t[Len(t)], Len(t[Len(t)].heaps))

Elegido(t, n) ==
  SelectInSeq(t, LAMBDA s : ~s.mmapeado /\ \E i \in DOMAIN s.heaps : Entra(s.heaps[i], n + TamMeta))

(* What muse_alloc and muse_free rely on from one step to the next. *)
SiNadieSirve(t, n) == (\A k \in DOMAIN t : ~Sirve(t[k], n)) => UltimoAlDia(t)
AlPedir(t, n) ==
  /\ n > 0
  /\ IF Elegido(t, n) # 0 THEN IndiceAlDia(t[Elegido(t, n)], HuecoDe(t[Elegido(t, n)], n))
     ELSE VaciosAlFinal(t) /\ SiNadieSirve(t, n)
AlRevisar(t, l) ==
  /\ t # <<>> /\ l.seg > 0 /\ l.t > 0 /\ VaciosAlFinal(t) /\ SiNadieSirve(t, l.t)
  /\ \A k \in DOMAIN t : k < l.seg => ~Sirve(t[k], l.t)
AlReservar(t, l) == l.seg # 0 => ConMeta(t, l.seg) /\ l.n <= t[l.seg].liberadas
AlAmpliar(t)     == ConMeta(t, Len(t)) /\ UltimoAlDia(t)
Juntables(hs, n) == \A i \in 2..n : hs[i - 1].libre /\ hs[i].libre => hs[i].indice = i - 1
AlJuntar(t, l)   ==
  /\ l.seg \in DOMAIN t /\ ~t[l.seg].mmapeado
  /\ l.n <= Len(t[l.seg].heaps) /\ Juntables(t[l.seg].heaps, l.n)

(* And muse_map, muse_unmap and muse_close. *)
Publicando == {"buscar_mapeo", "publicar"}
AlPublicar(h, t, l) == Debajo(h, t, l.base)
Momento(h, t, l, punto) ==
  /\ punto = "alloc" => AlPedir(t, l.t)
  /\ punto = "revisar" => AlRevisar(t, l)
  /\ punto = "reservar" => AlReservar(t, l)
  /\ punto = "ampliar" => AlAmpliar(t)
  /\ punto = "juntar" => AlJuntar(t, l)
  /\ punto \in Publicando => AlPublicar(h, t, l)
  /\ punto \in Desmapeando => \E k \in DOMAIN t : t[k].mmapeado /\ t[k].archivo = l.usa.archivo
  /\ punto \in {"descontar", "olvidar"} => t # <<>>

LocalBien(l) == l.t \in Nat /\ l.n \in Nat /\ l.seg \in Nat /\ l.base \in Nat

EnFila(h, t, l, punto, c) ==
  t \in Seq(Segmento) /\ Ordenada(h, t) /\ LocalBien(l) /\ (~c => Momento(h, t, l, punto))

Globales ==
  /\ pc \in [Programas -> Range(pc)] /\ loc \in [Programas -> Range(loc)] /\ tabla \in [Programas -> Range(tabla)]
  /\ DOMAIN hojas = 1..Listas
  /\ \A l \in 1..Listas : \E S : hojas[l] \in Seq(S)
  /\ mapeos \in Seq(Entrada)
  /\ \A p \in Programas :
       /\ DOMAIN loc[p] = DOMAIN LocalVacio
       /\ pc[p] \in Mapeando => loc[p].usa \in [archivo : Archivos, compartido : BOOLEAN]

SegInv == Globales /\ \A p \in Cuidadosos : EnFila(hojas, tabla[p], loc[p], pc[p], caido)

-----------------------------------------------------------------------------
LEMMA ProductoNat ==
  ASSUME NEW a \in Nat, NEW b \in Nat
  PROVE  /\ a * b \in Nat
         /\ \A c \in Nat : a <= c => a * b <= c * b
OBVIOUS

LEMMA HojasNat ==
  ASSUME NEW x \in Int
  PROVE  SinSigno(x) \in Nat /\ Hojas(x) \in Nat
<1>1. Palabra \in Nat /\ Palabra > 0 /\ TamPag \in Nat /\ TamPag > 0
  <2>1. /\ TamMeta \in Nat \ {0} /\ TamPag \in Nat /\ TamPag > TamMeta /\ Paginas \in Nat
        /\ Palabra \in Nat /\ Palabra > TamPag * Paginas
    BY SegmentosSupuesto
  <2>2. TamPag * Paginas \in Nat
    BY <2>1, ProductoNat
  <2>3. QED
    BY <2>1, <2>2
<1>2. SinSigno(x) \in Nat
  BY <1>1 DEF SinSigno
<1> DEFINE y == SinSigno(x)
<1>3. y \div TamPag \in Nat /\ y % TamPag \in Nat
  <2> HIDE DEF y
  <2>1. y \in Nat
    BY <1>2 DEF y
  <2>2. QED
    BY <1>1, <2>1
<1>4. QED
  BY <1>2, <1>3 DEF Hojas

Metadatos == [dir : Nat, espacio : Int, libre : BOOLEAN, indice : Nat]

LEMMA CualEs ==
  ASSUME NEW s \in Segmento
  PROVE  /\ s.mmapeado \in BOOLEAN /\ s.base \in Nat
         /\ ~s.mmapeado => s \in DeHeap /\ s.paginas \in Nat /\ s.liberadas \in Nat /\ s.tamanio \in Nat
                           /\ s.heaps \in Seq(Metadatos)
         /\ s.mmapeado => s \in DeMapeo /\ s.archivo \in Archivos /\ s.lista \in 1..Listas
BY DEF Segmento, DeHeap, DeMapeo, Metadatos

LEMMA UnaTabla ==
  ASSUME NEW S, NEW t \in Seq(S)
  PROVE  /\ DOMAIN t = 1..Len(t) /\ Len(t) \in Nat /\ (t = <<>> <=> Len(t) = 0)
         /\ \A k \in DOMAIN t : t[k] \in S
<1>1. t \in [1..Len(t) -> S] /\ Len(t) \in Nat
  BY LenProperties
<1>2. QED
  BY <1>1, EmptySeq

LEMMA HastaNat ==
  ASSUME NEW h, \A l \in 1..Listas : Len(h[l]) \in Nat, NEW s \in Segmento
  PROVE  Hasta(h, s) \in Nat /\ s.base <= Hasta(h, s)
<1> DEFINE n == IF s.mmapeado THEN Len(h[s.lista]) ELSE s.paginas + s.liberadas
<1>1. n \in Nat
  BY CualEs
<1>2. n * TamPag \in Nat
  <2> HIDE DEF n
  <2>1. QED
    BY <1>1, ProductoNat, SegmentosSupuesto
<1>3. Hasta(h, s) = s.base + n * TamPag
  BY DEF Hasta
<1> HIDE DEF n
<1>4. QED
  BY <1>2, <1>3, CualEs

(* Where the next segment goes. *)
LEMMA DondeVa ==
  ASSUME NEW p \in Programas, tabla[p] \in Seq(Segmento), Ordenada(hojas, tabla[p]),
         \A l \in 1..Listas : Len(hojas[l]) \in Nat
  PROVE  BaseNueva(p) \in Nat /\ Debajo(hojas, tabla[p], BaseNueva(p))
<1> DEFINE t == tabla[p]
           n == Len(t)
<1>1. DOMAIN t = 1..n /\ n \in Nat /\ (t = <<>> <=> n = 0) /\ \A k \in DOMAIN t : t[k] \in Segmento
  BY UnaTabla
<1>2. \A k \in DOMAIN t : Hasta(hojas, t[k]) \in Nat /\ t[k].base <= Hasta(hojas, t[k]) /\ t[k].base \in Nat
  BY <1>1, HastaNat, CualEs
<1>3. CASE t = <<>>
  BY <1>1, <1>3 DEF BaseNueva, Debajo
<1>4. CASE t # <<>>
  <2>1. n \in DOMAIN t
    BY <1>1, <1>4
  <2>2. BaseNueva(p) = Hasta(hojas, t[n])
    <3>1. BaseNueva(p) = t[n].base + (PaginasDe(t[n]) + Liberadas(t[n])) * TamPag
      BY <1>4 DEF BaseNueva, Last
    <3>2. t[n] \in Segmento
      BY <1>1, <2>1
    <3>3. CASE t[n].mmapeado
      <4>1. Len(hojas[t[n].lista]) \in Nat
        BY <3>2, <3>3, CualEs
      <4>2. PaginasDe(t[n]) + Liberadas(t[n]) = Len(hojas[t[n].lista])
        BY <3>3, <4>1 DEF PaginasDe, Liberadas
      <4>3. QED
        BY <3>1, <3>3, <4>2 DEF Hasta
    <3>4. CASE ~t[n].mmapeado
      <4>2. PaginasDe(t[n]) + Liberadas(t[n]) = t[n].paginas + t[n].liberadas
        BY <3>4 DEF PaginasDe, Liberadas
      <4>3. QED
        BY <3>1, <3>4, <4>2 DEF Hasta
    <3>5. QED
      BY <3>3, <3>4
  <2>3. ASSUME NEW k \in DOMAIN t PROVE Hasta(hojas, t[k]) <= Hasta(hojas, t[n])
    <3>1. CASE k = n
      BY <1>2, <2>1, <3>1
    <3>2. CASE k # n
      <4>1. k < n
        BY <1>1, <2>1, <3>2
      <4>2. Hasta(hojas, t[k]) <= t[n].base
        BY <2>1, <4>1 DEF Ordenada
      <4>3. QED
        BY <1>2, <2>1, <4>2
    <3>3. QED
      BY <3>1, <3>2
  <2>4. QED
    BY <1>2, <2>1, <2>2, <2>3 DEF Debajo
<1>5. QED
  BY <1>3, <1>4

(* A segment changes and keeps its place, or is the last one. *)
LEMMA CambiaUno ==
  ASSUME NEW h, NEW t \in Seq(Segmento), NEW k \in DOMAIN t, ~t[k].mmapeado,
         NEW s \in DeHeap, s.base = t[k].base,
         s.paginas + s.liberadas = t[k].paginas + t[k].liberadas \/ k = Len(t),
         NEW u, u = Cambiado(t, k, s), Ordenada(h, t)
  PROVE  /\ u \in Seq(Segmento) /\ Len(u) = Len(t) /\ DOMAIN u = DOMAIN t /\ u[k] = s
         /\ \A j \in DOMAIN t : j # k => u[j] = t[j]
         /\ Ordenada(h, u) /\ ~s.mmapeado
<1>1. DOMAIN t = 1..Len(t) /\ Len(t) \in Nat /\ \A j \in DOMAIN t : t[j] \in Segmento
  BY UnaTabla
<1>2. s \in Segmento /\ s.mmapeado = FALSE
  BY DEF Segmento, DeHeap
<1>3. u \in Seq(Segmento) /\ Len(u) = Len(t)
  BY <1>1, <1>2, ExceptSeq DEF Cambiado
<1>4. DOMAIN u = DOMAIN t /\ u[k] = s /\ \A j \in DOMAIN t : j # k => u[j] = t[j]
  BY DEF Cambiado
<1>5. ASSUME NEW i \in DOMAIN u, NEW j \in DOMAIN u, i < j
      PROVE  Hasta(h, u[i]) <= u[j].base
  <2>1. Hasta(h, t[i]) <= t[j].base
    BY <1>4, <1>5 DEF Ordenada
  <2>2. u[j].base = t[j].base
    BY <1>4
  <2>3. CASE i # k
    BY <1>4, <2>1, <2>2, <2>3
  <2>4. CASE i = k
    <3>1. k # Len(t)
      BY <1>1, <1>4, <1>5, <2>4
    <3>2. Hasta(h, u[i]) = Hasta(h, t[i])
      BY <1>2, <1>4, <2>4, <3>1 DEF Hasta
    <3>3. QED
      BY <2>1, <2>2, <3>2
  <2>5. QED
    BY <2>3, <2>4
<1>6. QED
  BY <1>2, <1>3, <1>4, <1>5 DEF Ordenada

LEMMA AgregaUno ==
  ASSUME NEW h, NEW t \in Seq(Segmento), NEW s \in Segmento, Debajo(h, t, s.base), Ordenada(h, t)
  PROVE  Append(t, s) \in Seq(Segmento) /\ Ordenada(h, Append(t, s))
<1> DEFINE u == Append(t, s)
<1>1. DOMAIN t = 1..Len(t) /\ Len(t) \in Nat
  BY UnaTabla
<1>2. /\ u \in Seq(Segmento) /\ DOMAIN u = 1..(Len(t) + 1) /\ u[Len(t) + 1] = s
      /\ \A j \in DOMAIN t : u[j] = t[j]
  BY <1>1, AppendProperties
<1> HIDE DEF u
<1>3. ASSUME NEW i \in DOMAIN u, NEW j \in DOMAIN u, i < j
      PROVE  Hasta(h, u[i]) <= u[j].base
  <2>1. i \in DOMAIN t /\ u[i] = t[i]
    BY <1>1, <1>2, <1>3
  <2>2. CASE j \in DOMAIN t
    BY <1>2, <1>3, <2>1, <2>2 DEF Ordenada
  <2>3. CASE j = Len(t) + 1
    BY <1>2, <2>1, <2>3 DEF Debajo
  <2>4. QED
    BY <1>1, <1>2, <2>2, <2>3
<1>4. QED
  BY <1>2, <1>3 DEF u, Ordenada

LEMMA QuitaUno ==
  ASSUME NEW h, NEW t \in Seq(Segmento), NEW k \in DOMAIN t, Ordenada(h, t)
  PROVE  RemoveAt(t, k) \in Seq(Segmento) /\ Ordenada(h, RemoveAt(t, k))
<1> DEFINE u == RemoveAt(t, k)
           Antes(j) == IF j < k THEN j ELSE j + 1
<1>1. DOMAIN t = 1..Len(t) /\ Len(t) \in Nat
  BY UnaTabla
<1>2. u \in Seq(Segmento) /\ DOMAIN u = 1..(Len(t) - 1)
      /\ \A j \in 1..(Len(t) - 1) : u[j] = IF j < k THEN t[j] ELSE t[j + 1]
  BY <1>1, QuitaPosicion
<1> HIDE DEF u
<1>3. \A j \in DOMAIN u : Antes(j) \in DOMAIN t /\ u[j] = t[Antes(j)]
  BY <1>1, <1>2
<1>4. \A i, j \in DOMAIN u : i < j => Antes(i) < Antes(j)
  BY <1>1, <1>2
<1> HIDE DEF Antes
<1>5. Ordenada(h, u)
  BY <1>3, <1>4 DEF Ordenada
<1>6. QED
  BY <1>2, <1>5 DEF u

-----------------------------------------------------------------------------
(* What muse_alloc and muse_free do to a segment of heap. *)

LEMMA Armado ==
  ASSUME NEW d \in Nat, NEW e \in Int, NEW l \in BOOLEAN, NEW i \in Nat
  PROVE  Heap(d, e, l, i) \in Metadatos /\ Heap(d, e, l, i).indice = i
BY DEF Heap, Metadatos

LEMMA DeMeta ==
  ASSUME NEW h \in Metadatos
  PROVE  /\ h.dir \in Nat /\ h.espacio \in Int /\ h.libre \in BOOLEAN /\ h.indice \in Nat
         /\ \A n \in Int : [h EXCEPT !.espacio = n] \in Metadatos
         /\ \A l \in BOOLEAN : [h EXCEPT !.libre = l] \in Metadatos
         /\ \A i \in Nat : [h EXCEPT !.indice = i] \in Metadatos
BY DEF Metadatos

LEMMA UnMeta ==
  ASSUME NEW hs \in Seq(Metadatos), NEW i \in DOMAIN hs, NEW e \in Metadatos
  PROVE  /\ [hs EXCEPT ![i] = e] \in Seq(Metadatos) /\ Len([hs EXCEPT ![i] = e]) = Len(hs)
         /\ DOMAIN [hs EXCEPT ![i] = e] = 1..Len(hs)
<1>1. DOMAIN hs = 1..Len(hs)
  BY UnaTabla
<1>2. QED
  BY <1>1, ExceptSeq

LEMMA Inserta ==
  ASSUME NEW S, NEW hs \in Seq(S), NEW i \in 1..(Len(hs) + 1), NEW e \in S
  PROVE  InsertAt(hs, i, e) \in Seq(S) /\ InsertAt(hs, i, e) # <<>> /\ Len(InsertAt(hs, i, e)) = Len(hs) + 1
<1> DEFINE n == Len(hs)
           a == SubSeq(hs, 1, i - 1)
           b == SubSeq(hs, i, n)
<1>1. n \in Nat /\ i \in Nat /\ i >= 1 /\ i <= n + 1
  BY UnaTabla
<1>2. a \in Seq(S) /\ Len(a) = i - 1
  BY <1>1, SubSeqProperties
<1>3. b \in Seq(S) /\ Len(b) = n - i + 1
  BY <1>1, SubSeqProperties
<1>4. <<e>> \in Seq(S) /\ Len(<<e>>) = 1
  OBVIOUS
<1>5. InsertAt(hs, i, e) = (a \o <<e>>) \o b
  BY DEF InsertAt
<1> HIDE DEF a, b, n
<1> DEFINE c == a \o <<e>>
           todo == c \o b
<1>6. c \in Seq(S) /\ Len(c) = i
  BY <1>1, <1>2, <1>4, ConcatProperties
<1> HIDE DEF c
<1>7. todo \in Seq(S) /\ Len(todo) = Len(c) + Len(b)
  BY <1>3, <1>6, ConcatProperties
<1>8. InsertAt(hs, i, e) = todo
  BY <1>5 DEF c
<1> HIDE DEF todo
<1>9. Len(todo) = n + 1
  BY <1>1, <1>3, <1>6, <1>7
<1>10. todo # <<>>
  BY <1>1, <1>7, <1>9, UnaTabla
<1>11. QED
  BY <1>7, <1>8, <1>9, <1>10 DEF n

LEMMA Ultimo ==
  ASSUME NEW S, NEW hs \in Seq(S), hs # <<>>
  PROVE  /\ Last(hs) = hs[Len(hs)] /\ Last(hs) \in S /\ Len(hs) \in DOMAIN hs /\ Len(hs) > 0 /\ Len(hs) \in Nat
         /\ DOMAIN hs = 1..Len(hs)
<1>1. Len(hs) \in Nat /\ Len(hs) > 0 /\ DOMAIN hs = 1..Len(hs)
  BY UnaTabla
<1>6. Len(hs) \in DOMAIN hs
  BY <1>1
<1>7. Last(hs) = hs[Len(hs)] /\ hs[Len(hs)] \in S
  BY <1>6, UnaTabla DEF Last
<1>8. QED
  BY <1>1, <1>6, <1>7

(* The last one changes, and may have another after it. *)
LEMMA Frente ==
  ASSUME NEW S, NEW hs \in Seq(S), hs # <<>>, NEW e \in S
  PROVE  Front(hs) \o <<e>> \in Seq(S) /\ Len(Front(hs) \o <<e>>) = Len(hs)
<1> DEFINE a == Front(hs)
           b == <<e>>
           todo == a \o b
<1>1. Len(hs) \in Nat /\ Len(hs) > 0 /\ DOMAIN hs = 1..Len(hs)
  BY UnaTabla
<1>0. Front(hs) \in Seq(S) /\ Len(Front(hs)) = Len(hs) - 1
  BY <1>1, SubSeqProperties DEF Front
<1>2. a \in Seq(S) /\ Len(a) = Len(hs) - 1
  BY <1>0
<1>3. b \in Seq(S) /\ Len(b) = 1
  OBVIOUS
<1> HIDE DEF a, b
<1>4. todo \in Seq(S) /\ Len(todo) = Len(a) + Len(b)
  BY <1>2, <1>3, ConcatProperties
<1> HIDE DEF todo
<1>5. Len(todo) = Len(hs)
  BY <1>1, <1>2, <1>3, <1>4
<1>6. QED
  BY <1>4, <1>5 DEF todo, a, b

MismoLugar(u, s) == u.base = s.base /\ u.paginas + u.liberadas = s.paginas + s.liberadas

LEMMA Partido ==
  ASSUME NEW s \in DeHeap, NEW i \in DOMAIN s.heaps, IndiceAlDia(s, i), NEW n \in Nat
  PROVE  Partir(s, i, n) \in DeHeap /\ MismoLugar(Partir(s, i, n), s)
<1> DEFINE h   == s.heaps[i]
           hs1 == [s.heaps EXCEPT ![i].espacio = n]
           hs2 == [hs1 EXCEPT ![i].libre = FALSE]
           e == Heap(h.dir + n + TamMeta, h.espacio - n - TamMeta, TRUE, h.indice + 1)
           hs == InsertAt(hs2, h.indice + 2, e)
<1>1. s.heaps \in Seq(Metadatos) /\ h \in Metadatos /\ DOMAIN s.heaps = 1..Len(s.heaps) /\ Len(s.heaps) \in Nat
  BY UnaTabla DEF DeHeap, Metadatos
<1>2. hs1 \in Seq(Metadatos) /\ Len(hs1) = Len(s.heaps) /\ DOMAIN hs1 = 1..Len(s.heaps) /\ hs1[i] \in Metadatos
  <2>1. [h EXCEPT !.espacio = n] \in Metadatos
    BY <1>1, DeMeta
  <2>2. QED
    BY <1>1, <2>1, UnMeta
<1>3. hs2 \in Seq(Metadatos) /\ Len(hs2) = Len(s.heaps)
  <2> HIDE DEF hs1
  <2>1. [hs1[i] EXCEPT !.libre = FALSE] \in Metadatos
    BY <1>2 DEF Metadatos
  <2>2. QED
    BY <1>1, <1>2, <2>1, UnMeta
<1>4. e \in Metadatos
  <2> HIDE DEF h
  <2>1. h.dir \in Nat /\ h.espacio \in Int /\ h.indice \in Nat /\ TamMeta \in Nat
    BY <1>1, DeMeta, SegmentosSupuesto
  <2>2. h.dir + n + TamMeta \in Nat /\ h.espacio - n - TamMeta \in Int /\ h.indice + 1 \in Nat
    BY <2>1
  <2>3. QED
    BY <2>2, Armado
<1>5. h.indice + 2 = i + 1
  BY <1>1 DEF IndiceAlDia, Metadatos
<1>6. Partir(s, i, n) = [s EXCEPT !.heaps = hs]
  BY DEF Partir
<1>7. hs \in Seq(Metadatos)
  <2> HIDE DEF hs2, e, h
  <2>1. h.indice + 2 \in 1..(Len(hs2) + 1)
    BY <1>1, <1>3, <1>5
  <2>2. QED
    BY <1>3, <1>4, <2>1, Inserta
<1> HIDE DEF hs
<1>8. QED
  BY <1>6, <1>7 DEF DeHeap, Metadatos, MismoLugar

LEMMA Nuevo ==
  ASSUME NEW b \in Nat, NEW t \in Nat, NEW n \in Nat
  PROVE  SegmentoNuevo(b, t, n) \in DeHeap /\ SegmentoNuevo(b, t, n).base = b
<1> DEFINE x == Heap(0, t, FALSE, 0)
           y == Heap(t + TamMeta, n * TamPag - t - 2 * TamMeta, TRUE, 1)
<1>1. n * TamPag \in Nat
  BY ProductoNat, SegmentosSupuesto
<1>2. x \in Metadatos /\ y \in Metadatos
  BY <1>1, SegmentosSupuesto DEF Heap, Metadatos
<1> HIDE DEF x, y
<1>3. <<x, y>> \in Seq(Metadatos)
  BY <1>2
<1>4. SegmentoNuevo(b, t, n) = [mmapeado |-> FALSE, base |-> b, tamanio |-> n * TamPag, paginas |-> n,
                                liberadas |-> 0, heaps |-> <<x, y>>]
  BY DEF SegmentoNuevo, x, y
<1>5. QED
  BY <1>1, <1>3, <1>4 DEF DeHeap, Metadatos

LEMMA Vuelve ==
  ASSUME NEW s \in DeHeap
  PROVE  /\ Rearmado(s) \in DeHeap /\ Rearmado(s).base = s.base /\ Rearmado(s).heaps # <<>>
         /\ IndiceAlDia(Rearmado(s), Len(Rearmado(s).heaps))
<1> DEFINE x == Heap(0, TamPag - TamMeta, TRUE, 0)
<1>1. x \in Metadatos /\ x.indice = 0
  BY SegmentosSupuesto DEF Heap, Metadatos
<1> HIDE DEF x
<1>2. <<x>> \in Seq(Metadatos) /\ <<x>> # <<>> /\ Len(<<x>>) = 1 /\ <<x>>[1] = x
  BY <1>1
<1>3. Rearmado(s) = [s EXCEPT !.paginas = @ + 1, !.heaps = <<x>>]
  BY DEF Rearmado, x
<1>4. s.paginas + 1 \in Nat
  BY DEF DeHeap
<1> DEFINE xs == <<x>>
<1> HIDE DEF xs
<1>5. xs \in Seq(Metadatos) /\ xs # <<>> /\ Len(xs) = 1 /\ xs[1].indice = 0
  BY <1>1, <1>2 DEF xs
<1>6. Rearmado(s) = [s EXCEPT !.paginas = s.paginas + 1, !.heaps = xs]
  BY <1>3 DEF xs
<1>7. Rearmado(s) \in DeHeap /\ Rearmado(s).base = s.base /\ Rearmado(s).heaps = xs
  BY <1>4, <1>5, <1>6 DEF DeHeap, Metadatos
<1> DEFINE r == Rearmado(s)
<1> HIDE DEF r
<1>8. IndiceAlDia(r, Len(r.heaps))
  <2>1. r.heaps = xs
    BY <1>7 DEF r
  <2>2. Len(r.heaps) = 1
    BY <1>5, <2>1
  <2>3. r.heaps[1].indice = 0
    BY <1>5, <2>1
  <2>4. QED
    BY <2>2, <2>3 DEF IndiceAlDia
<1>9. QED
  BY <1>5, <1>7, <1>8 DEF r

LEMMA Retoma ==
  ASSUME NEW s \in DeHeap, s.heaps # <<>>, NEW n \in Nat, n <= s.liberadas, NEW t \in Nat
  PROVE  ConLiberadas(s, n, t) \in DeHeap /\ MismoLugar(ConLiberadas(s, n, t), s)
<1> DEFINE h == Last(s.heaps)
           d == h.dir + TamMeta + t
           x == Heap(h.dir, t, FALSE, h.indice)
           y == Heap(d, TamPag - ((d + TamMeta) % TamPag), TRUE, h.indice + 1)
           hs == Append(Front(s.heaps) \o <<x>>, y)
<1>1. s.heaps \in Seq(Metadatos) /\ h \in Metadatos
  <2>1. s.heaps \in Seq(Metadatos)
    BY DEF DeHeap, Metadatos
  <2>2. QED
    BY <2>1, Ultimo
<1>2. d \in Nat /\ TamPag \in Nat /\ TamPag > 0 /\ TamMeta \in Nat
  BY <1>1, SegmentosSupuesto DEF Metadatos
<1>3. x \in Metadatos /\ y \in Metadatos
  <2> HIDE DEF d, h
  <2>1. (d + TamMeta) % TamPag \in Int
    BY <1>2
  <2>2. QED
    BY <1>1, <1>2, <2>1 DEF Heap, Metadatos
<1>4. hs \in Seq(Metadatos)
  <2> HIDE DEF x, y
  <2>1. Front(s.heaps) \o <<x>> \in Seq(Metadatos)
    BY <1>1, <1>3, Frente
  <2>2. QED
    BY <1>3, <2>1, AppendProperties
<1>5. ConLiberadas(s, n, t) = [s EXCEPT !.paginas = @ + n, !.liberadas = @ - n, !.tamanio = (s.paginas + n) * TamPag,
                                        !.heaps = hs]
  BY DEF ConLiberadas
<1>6. (s.paginas + n) * TamPag \in Nat
  <2>1. s.paginas + n \in Nat
    BY DEF DeHeap
  <2>2. QED
    BY <1>2, <2>1, ProductoNat
<1> HIDE DEF hs
<1> DEFINE m == (s.paginas + n) * TamPag
<1>10. m \in Nat
  BY <1>6
<1> HIDE DEF m
<1>7. ConLiberadas(s, n, t) = [s EXCEPT !.paginas = s.paginas + n, !.liberadas = s.liberadas - n, !.tamanio = m,
                                        !.heaps = hs]
  BY <1>5 DEF m
<1>8. s.paginas + n \in Nat /\ s.liberadas - n \in Nat /\ m \in Nat
      /\ (s.paginas + n) + (s.liberadas - n) = s.paginas + s.liberadas
  <2>1. PICK a, b : a = s.paginas /\ b = s.liberadas /\ a \in Nat /\ b \in Nat /\ n <= b
    BY DEF DeHeap
  <2>2. a + n \in Nat /\ b - n \in Nat /\ (a + n) + (b - n) = a + b
    BY <2>1
  <2>3. QED
    BY <1>10, <2>1, <2>2
<1>9. QED
  BY <1>4, <1>7, <1>8 DEF DeHeap, Metadatos, MismoLugar

LEMMA Crece ==
  ASSUME NEW s \in DeHeap, s.heaps # <<>>, IndiceAlDia(s, Len(s.heaps)), NEW n \in Nat, NEW t \in Nat
  PROVE  Ampliado(s, n, t) \in DeHeap /\ Ampliado(s, n, t).base = s.base
<1> DEFINE h == Last(s.heaps)
           x == [h EXCEPT !.espacio = t]
           y == Heap(h.dir + t + TamMeta, n * TamPag - t - TamMeta + h.espacio, TRUE, h.indice + 1)
           hs1 == Front(s.heaps) \o <<x>>
           hs == InsertAt(hs1, h.indice + 2, y)
<1>1. s.heaps \in Seq(Metadatos) /\ h \in Metadatos /\ h = s.heaps[Len(s.heaps)] /\ Len(s.heaps) \in Nat
  <2>1. s.heaps \in Seq(Metadatos) /\ Len(s.heaps) \in Nat
    BY UnaTabla DEF DeHeap, Metadatos
  <2>2. QED
    BY <2>1, Ultimo
<1>2. n * TamPag \in Nat /\ TamMeta \in Nat
  BY ProductoNat, SegmentosSupuesto
<1>3. x \in Metadatos /\ y \in Metadatos
  <2> HIDE DEF h
  <2>1. h.dir \in Nat /\ h.espacio \in Int /\ h.indice \in Nat
    BY <1>1, DeMeta
  <2>2. h.dir + t + TamMeta \in Nat /\ n * TamPag - t - TamMeta + h.espacio \in Int /\ h.indice + 1 \in Nat
    <3> DEFINE m == n * TamPag
    <3>1. m \in Int
      BY <1>2
    <3>0. TamMeta \in Nat
      BY <1>2
    <3> HIDE DEF m, x, y, hs1, hs
    <3>2. h.dir + t + TamMeta \in Nat /\ m - t - TamMeta + h.espacio \in Int /\ h.indice + 1 \in Nat
      BY <2>1, <3>0, <3>1
    <3>3. QED
      BY <3>2 DEF m
  <2>3. y \in Metadatos
    BY <2>2, Armado
  <2>4. x \in Metadatos
    <3> HIDE DEF y, hs1, hs
    <3>1. t \in Int
      OBVIOUS
    <3>2. QED
      BY <1>1, <3>1, DeMeta
  <2>5. QED
    BY <2>3, <2>4
<1>4. h.indice + 2 = Len(s.heaps) + 1
  BY <1>1 DEF IndiceAlDia, Metadatos
<1>5. hs1 \in Seq(Metadatos) /\ Len(hs1) = Len(s.heaps)
  <2> HIDE DEF x
  <2>1. QED
    BY <1>1, <1>3, Frente
<1>6. hs \in Seq(Metadatos)
  <2> HIDE DEF hs1, y, h
  <2>1. h.indice + 2 \in 1..(Len(hs1) + 1)
    BY <1>1, <1>4, <1>5
  <2>2. QED
    BY <1>3, <1>5, <2>1, Inserta
<1>7. Ampliado(s, n, t) = [s EXCEPT !.paginas = @ + n, !.tamanio = @ + n * TamPag, !.heaps = hs]
  BY DEF Ampliado
<1> HIDE DEF hs
<1>8. s.paginas + n \in Nat /\ s.tamanio + n * TamPag \in Nat
  BY <1>2 DEF DeHeap
<1> DEFINE m == n * TamPag
<1> HIDE DEF m
<1>9. Ampliado(s, n, t) = [s EXCEPT !.paginas = s.paginas + n, !.tamanio = s.tamanio + m, !.heaps = hs]
  BY <1>7 DEF m
<1>10. QED
  BY <1>6, <1>8, <1>9 DEF DeHeap, Metadatos, m

LEMMA MismoLargo ==
  ASSUME NEW a \in Nat, NEW b \in Nat, 1..a = 1..b
  PROVE  a = b
<1>1. CASE a < b
  <2>1. b \in 1..b /\ b \notin 1..a
    BY <1>1
  <2>2. QED
    BY <2>1
<1>2. CASE b < a
  <2>1. a \in 1..a /\ a \notin 1..b
    BY <1>2
  <2>2. QED
    BY <2>1
<1>3. QED
  BY <1>1, <1>2

(* The metadata that go with the ones before leave the list. *)
LEMMA Saca ==
  ASSUME NEW hs \in Seq(Metadatos), NEW i \in 2..Len(hs), hs[i].indice = i - 1, NEW x \in Int,
         NEW u, u = SinHeap([hs EXCEPT ![i - 1].espacio = x], hs[i]), Juntables(hs, i)
  PROVE  u \in Seq(Metadatos) /\ Len(u) = Len(hs) - 1 /\ Juntables(u, i - 1)
<1> DEFINE e == [hs[i - 1] EXCEPT !.espacio = x]
           v == [hs EXCEPT ![i - 1] = e]
<1>1. /\ DOMAIN hs = 1..Len(hs) /\ Len(hs) \in Nat /\ i \in Nat /\ i > 1 /\ i <= Len(hs)
      /\ hs[i - 1] \in Metadatos /\ i - 1 \in DOMAIN hs
  <2>1. DOMAIN hs = 1..Len(hs) /\ Len(hs) \in Nat
    BY UnaTabla
  <2>2. i \in Nat /\ i > 1 /\ i <= Len(hs) /\ i - 1 \in 1..Len(hs)
    BY <2>1
  <2>3. QED
    BY <2>1, <2>2, UnaTabla
<1>2. e \in Metadatos
  BY <1>1, DeMeta
<1>3. e.libre = hs[i - 1].libre /\ e.indice = hs[i - 1].indice
  BY <1>1 DEF Metadatos
<1>4. u = RemoveAt(v, i)
  <2>1. hs[i].indice + 1 = i
    BY <1>1
  <2>2. QED
    BY <2>1 DEF SinHeap
<1> HIDE DEF e
<1>5. v \in Seq(Metadatos) /\ Len(v) = Len(hs)
  BY <1>1, <1>2, UnMeta
<1>6. v[i - 1] = e /\ \A j \in DOMAIN hs : j # i - 1 => v[j] = hs[j]
  BY <1>1
<1> HIDE DEF v
<1>7. i \in 1..Len(v)
  BY <1>1, <1>5
<1>8. /\ u \in Seq(Metadatos) /\ DOMAIN u = 1..(Len(v) - 1)
      /\ \A j \in 1..(Len(v) - 1) : u[j] = IF j < i THEN v[j] ELSE v[j + 1]
  <2>1. /\ RemoveAt(v, i) \in Seq(Metadatos) /\ DOMAIN RemoveAt(v, i) = 1..(Len(v) - 1)
        /\ \A j \in 1..(Len(v) - 1) : RemoveAt(v, i)[j] = IF j < i THEN v[j] ELSE v[j + 1]
    BY <1>5, <1>7, QuitaPosicion
  <2>2. QED
    BY <1>4, <2>1
<1>9. Len(u) = Len(hs) - 1
  <2>1. DOMAIN u = 1..Len(u) /\ Len(u) \in Nat
    BY <1>8, UnaTabla
  <2>2. Len(hs) - 1 \in Nat
    BY <1>1
  <2>4. 1..Len(u) = 1..(Len(hs) - 1)
    BY <1>5, <1>8, <2>1
  <2>3. QED
    BY <2>1, <2>2, <2>4, MismoLargo
<1>10. \A j \in 1..(i - 1) : u[j].libre = hs[j].libre /\ u[j].indice = hs[j].indice
  <2> SUFFICES ASSUME NEW j \in 1..(i - 1) PROVE u[j].libre = hs[j].libre /\ u[j].indice = hs[j].indice
    OBVIOUS
  <2>1. j \in 1..(Len(v) - 1) /\ j < i /\ j \in DOMAIN hs
    BY <1>1, <1>5
  <2>2. u[j] = v[j]
    BY <1>8, <2>1
  <2>3. CASE j = i - 1
    BY <1>3, <1>6, <2>2, <2>3
  <2>4. CASE j # i - 1
    BY <1>6, <2>1, <2>2, <2>4
  <2>5. QED
    BY <2>3, <2>4
<1>11. Juntables(u, i - 1)
  <2> SUFFICES ASSUME NEW j \in 2..(i - 1), u[j - 1].libre /\ u[j].libre PROVE u[j].indice = j - 1
    BY DEF Juntables
  <2>1. j \in 2..i /\ j \in 1..(i - 1) /\ j - 1 \in 1..(i - 1)
    BY <1>1
  <2>2. hs[j - 1].libre /\ hs[j].libre
    BY <1>10, <2>1
  <2>3. hs[j].indice = j - 1
    BY <2>1, <2>2 DEF Juntables
  <2>4. QED
    BY <1>10, <2>1, <2>3
<1>12. QED
  BY <1>8, <1>9, <1>11

Junto(s, i) ==
  IF ~s.heaps[i].libre THEN s
  ELSE IF Len(s.heaps) = 1 THEN SinPaginas(s)
  ELSE IF ~(i > 1 /\ s.heaps[i - 1].libre) THEN s
  ELSE IF i = Len(s.heaps) THEN SinCola(s, i) ELSE Fundidos(s, i)

(* What is left can go on. *)
Sigue(u, s, i) == u \in DeHeap /\ MismoLugar(u, s) /\ i - 1 <= Len(u.heaps) /\ Juntables(u.heaps, i - 1)

LEMMA SinColaSigue ==
  ASSUME NEW s \in DeHeap, NEW i \in 2..Len(s.heaps), Juntables(s.heaps, i), s.heaps[i].indice = i - 1
  PROVE  Sigue(SinCola(s, i), s, i)
<1> DEFINE hs      == s.heaps
           ant     == hs[i - 1]
           quedan  == Min({s.paginas, PaginaDelAnterior(ant) + 1})
           espacio == TamPag - (ant.dir % TamPag) - TamMeta
           us      == SinHeap([hs EXCEPT ![i - 1].espacio = espacio], hs[i])
           m       == quedan * TamPag
           u       == SinCola(s, i)
<1>0. hs \in Seq(Metadatos) /\ i - 1 \in DOMAIN hs /\ Len(hs) \in Nat /\ i \in Nat /\ i <= Len(hs)
  <2>1. hs \in Seq(Metadatos)
    BY DEF DeHeap, Metadatos
  <2>2. DOMAIN hs = 1..Len(hs) /\ Len(hs) \in Nat
    BY <2>1, UnaTabla
  <2>3. QED
    BY <2>1, <2>2
<1>1. ant.dir \in Nat
  BY <1>0, UnaTabla, DeMeta
<1>2. TamPag \in Nat /\ TamPag > 0 /\ TamMeta \in Nat
  BY SegmentosSupuesto
<1>3. PaginaDelAnterior(ant) \in Nat
  <2> HIDE DEF ant
  <2>1. ant.dir + TamMeta \in Nat
    BY <1>1, <1>2
  <2>2. QED
    BY <1>2, <2>1 DEF PaginaDelAnterior
<1>4. s.paginas \in Nat /\ s.liberadas \in Nat
  BY DEF DeHeap
<1>5. quedan \in Nat /\ quedan <= s.paginas
  <2> DEFINE c == PaginaDelAnterior(ant) + 1
             I == {s.paginas, c}
  <2>1. c \in Nat
    BY <1>3
  <2> HIDE DEF c
  <2>2. I \in SUBSET Nat /\ I # {} /\ s.paginas \in I
    BY <1>4, <2>1
  <2> HIDE DEF I
  <2>3. Min(I) \in I /\ Min(I) <= s.paginas
    BY <2>2, MinEsta
  <2>4. quedan = Min(I)
    BY DEF I, c
  <2>5. QED
    BY <2>2, <2>3, <2>4
<1> HIDE DEF quedan
<1>6. espacio \in Int
  <2>1. ant.dir % TamPag \in Int
    BY <1>1, <1>2
  <2>2. QED
    BY <1>2, <2>1
<1>7. m \in Nat
  BY <1>2, <1>5, ProductoNat
<1> HIDE DEF espacio, m, hs
<1>8. us \in Seq(Metadatos) /\ Len(us) = Len(hs) - 1 /\ Juntables(us, i - 1)
  <2>1. i \in 2..Len(hs) /\ Juntables(hs, i) /\ hs[i].indice = i - 1
    BY DEF hs
  <2>2. QED
    BY <1>0, <1>6, <2>1, Saca
<1>9. u = [s EXCEPT !.paginas = quedan, !.liberadas = s.liberadas + s.paginas - quedan, !.tamanio = m, !.heaps = us]
  BY DEF SinCola, quedan, espacio, m, hs
<1> HIDE DEF us
<1>10. s.liberadas + s.paginas - quedan \in Nat /\ quedan + (s.liberadas + s.paginas - quedan) = s.paginas + s.liberadas
  BY <1>4, <1>5
<1>11. u \in DeHeap /\ u.heaps = us /\ MismoLugar(u, s)
  BY <1>5, <1>7, <1>8, <1>9, <1>10 DEF DeHeap, Metadatos, MismoLugar
<1> HIDE DEF u
<1>12. i - 1 <= Len(us)
  BY <1>0, <1>8
<1>13. QED
  BY <1>8, <1>11, <1>12 DEF Sigue, u

LEMMA FundidosSigue ==
  ASSUME NEW s \in DeHeap, NEW i \in 2..Len(s.heaps), Juntables(s.heaps, i), s.heaps[i].indice = i - 1
  PROVE  Sigue(Fundidos(s, i), s, i)
<1> DEFINE hs == s.heaps
           x  == hs[i - 1].espacio + TamMeta + hs[i].espacio
           us == SinHeap([hs EXCEPT ![i - 1].espacio = x], hs[i])
           u  == Fundidos(s, i)
<1>0. hs \in Seq(Metadatos) /\ i - 1 \in DOMAIN hs /\ i \in DOMAIN hs /\ Len(hs) \in Nat /\ i \in Nat /\ i <= Len(hs)
  <2>1. hs \in Seq(Metadatos)
    BY DEF DeHeap, Metadatos
  <2>2. DOMAIN hs = 1..Len(hs) /\ Len(hs) \in Nat
    BY <2>1, UnaTabla
  <2>3. QED
    BY <2>1, <2>2
<1>1. x \in Int
  <2>1. hs[i - 1].espacio \in Int /\ hs[i].espacio \in Int /\ TamMeta \in Int
    BY <1>0, UnaTabla, DeMeta, SegmentosSupuesto
  <2>2. QED
    BY <2>1
<1>2. u = [s EXCEPT !.heaps = us]
  BY DEF Fundidos
<1> HIDE DEF x, hs
<1>3. us \in Seq(Metadatos) /\ Len(us) = Len(hs) - 1 /\ Juntables(us, i - 1)
  <2>1. i \in 2..Len(hs) /\ Juntables(hs, i) /\ hs[i].indice = i - 1
    BY DEF hs
  <2>2. QED
    BY <1>0, <1>1, <2>1, Saca
<1> HIDE DEF us
<1>5. u \in DeHeap /\ u.heaps = us /\ MismoLugar(u, s)
  BY <1>2, <1>3 DEF DeHeap, Metadatos, MismoLugar
<1> HIDE DEF u
<1>6. i - 1 <= Len(us)
  BY <1>0, <1>3
<1>7. QED
  BY <1>3, <1>5, <1>6 DEF Sigue, u

LEMMA JuntoSigue ==
  ASSUME NEW s \in DeHeap, NEW i \in 1..Len(s.heaps), Juntables(s.heaps, i)
  PROVE  Sigue(Junto(s, i), s, i)
<1>1. s.heaps \in Seq(Metadatos)
  BY DEF DeHeap, Metadatos
<1>2. Len(s.heaps) \in Nat /\ i \in Nat /\ i >= 1 /\ i <= Len(s.heaps)
  BY <1>1, UnaTabla
<1>3. Sigue(s, s, i)
  BY <1>2 DEF Sigue, MismoLugar, Juntables
<1>4. CASE s.heaps[i].libre /\ Len(s.heaps) = 1
  <2>1. Junto(s, i) = SinPaginas(s)
    BY <1>4 DEF Junto
  <2>2. i - 1 = 0
    BY <1>2, <1>4
  <2>3. s.liberadas + s.paginas \in Nat /\ 0 + (s.liberadas + s.paginas) = s.paginas + s.liberadas
    BY DEF DeHeap
  <2>4. SinPaginas(s) = [s EXCEPT !.paginas = 0, !.liberadas = s.liberadas + s.paginas, !.tamanio = 0, !.heaps = <<>>]
    BY DEF SinPaginas
  <2>5. SinPaginas(s) \in DeHeap /\ MismoLugar(SinPaginas(s), s) /\ SinPaginas(s).heaps = <<>>
    <3> DEFINE n == s.liberadas + s.paginas
               v == <<>>
    <3>1. v \in Seq(Metadatos) /\ 0 \in Nat
      OBVIOUS
    <3> HIDE DEF n, v
    <3>2. SinPaginas(s) = [s EXCEPT !.paginas = 0, !.liberadas = n, !.tamanio = 0, !.heaps = v]
      BY <2>4 DEF n, v
    <3>3. n \in Nat /\ 0 + n = s.paginas + s.liberadas
      BY <2>3 DEF n
    <3>4. SinPaginas(s) \in DeHeap /\ SinPaginas(s).heaps = v
      BY <3>1, <3>2, <3>3 DEF DeHeap, Metadatos
    <3>5. SinPaginas(s).base = s.base /\ SinPaginas(s).paginas = 0 /\ SinPaginas(s).liberadas = n
      BY <3>2 DEF DeHeap
    <3>6. QED
      BY <3>3, <3>4, <3>5 DEF MismoLugar, v
  <2>6. Juntables(<<>>, 0) /\ 0 <= Len(<<>>)
    BY DEF Juntables
  <2>7. QED
    BY <2>1, <2>2, <2>5, <2>6 DEF Sigue
<1>5. CASE s.heaps[i].libre /\ Len(s.heaps) # 1 /\ i > 1 /\ s.heaps[i - 1].libre
  <2>1. i \in 2..Len(s.heaps) /\ i \in 2..i
    BY <1>2, <1>5
  <2>2. s.heaps[i].indice = i - 1
    BY <1>5, <2>1 DEF Juntables
  <2>3. Sigue(SinCola(s, i), s, i) /\ Sigue(Fundidos(s, i), s, i)
    BY <2>1, <2>2, SinColaSigue, FundidosSigue
  <2>4. Junto(s, i) = SinCola(s, i) \/ Junto(s, i) = Fundidos(s, i)
    BY <1>5 DEF Junto
  <2>5. QED
    BY <2>3, <2>4
<1>6. CASE ~s.heaps[i].libre \/ (Len(s.heaps) # 1 /\ ~(i > 1 /\ s.heaps[i - 1].libre))
  <2>1. Junto(s, i) = s
    BY <1>6 DEF Junto
  <2>2. QED
    BY <1>3, <2>1
<1>7. QED
  BY <1>4, <1>5, <1>6

(* A block, or the last hole, is marked. *)
Marcado(s, i, l) == [s EXCEPT !.heaps[i].libre = l]

LEMMA MarcadoIgual ==
  ASSUME NEW s \in DeHeap, NEW i \in DOMAIN s.heaps, NEW l \in BOOLEAN
  PROVE  /\ Marcado(s, i, l) \in DeHeap /\ MismoLugar(Marcado(s, i, l), s)
         /\ Len(Marcado(s, i, l).heaps) = Len(s.heaps) /\ DOMAIN Marcado(s, i, l).heaps = DOMAIN s.heaps
         /\ \A j \in DOMAIN s.heaps :
              /\ Marcado(s, i, l).heaps[j].indice = s.heaps[j].indice
              /\ Marcado(s, i, l).heaps[j].libre = IF j = i THEN l ELSE s.heaps[j].libre
<1> DEFINE e  == [s.heaps[i] EXCEPT !.libre = l]
           us == [s.heaps EXCEPT ![i] = e]
           u  == Marcado(s, i, l)
<1>1. s.heaps \in Seq(Metadatos) /\ s.heaps[i] \in Metadatos
  <2>1. s.heaps \in Seq(Metadatos)
    BY DEF DeHeap, Metadatos
  <2>2. QED
    BY <2>1, UnaTabla
<1>2. e \in Metadatos /\ e.libre = l /\ e.indice = s.heaps[i].indice
  BY <1>1, DeMeta DEF Metadatos
<1>3. u = [s EXCEPT !.heaps = us]
  BY DEF Marcado
<1> HIDE DEF e
<1>4. us \in Seq(Metadatos) /\ Len(us) = Len(s.heaps)
  BY <1>1, <1>2, UnMeta
<1>5. DOMAIN us = DOMAIN s.heaps /\ us[i] = e /\ \A j \in DOMAIN s.heaps : j # i => us[j] = s.heaps[j]
  OBVIOUS
<1> HIDE DEF us
<1>6. u \in DeHeap /\ u.heaps = us /\ MismoLugar(u, s)
  BY <1>3, <1>4 DEF DeHeap, Metadatos, MismoLugar
<1> HIDE DEF u
<1>7. \A j \in DOMAIN s.heaps : us[j].indice = s.heaps[j].indice /\ us[j].libre = IF j = i THEN l ELSE s.heaps[j].libre
  BY <1>2, <1>5
<1>8. QED
  BY <1>4, <1>5, <1>6, <1>7 DEF u

Renumerado(s) == [s EXCEPT !.heaps = [i \in DOMAIN @ |-> [@[i] EXCEPT !.indice = i - 1]]]

LEMMA RenumeradoIgual ==
  ASSUME NEW s \in DeHeap
  PROVE  Renumerado(s) \in DeHeap /\ MismoLugar(Renumerado(s), s)
<1> DEFINE hs == s.heaps
           us == [i \in DOMAIN hs |-> [hs[i] EXCEPT !.indice = i - 1]]
<1>1. hs \in Seq(Metadatos) /\ DOMAIN hs = 1..Len(hs) /\ Len(hs) \in Nat
  <2>1. hs \in Seq(Metadatos)
    BY DEF DeHeap, Metadatos
  <2>2. QED
    BY <2>1, UnaTabla
<1>2. Renumerado(s) = [s EXCEPT !.heaps = us]
  BY DEF Renumerado
<1>3. us \in Seq(Metadatos)
  <2>1. ASSUME NEW i \in 1..Len(hs) PROVE [hs[i] EXCEPT !.indice = i - 1] \in Metadatos
    <3>1. i - 1 \in Nat /\ hs[i] \in Metadatos
      BY <1>1, UnaTabla
    <3>2. QED
      BY <3>1, DeMeta
  <2> HIDE DEF hs
  <2>2. us \in [1..Len(hs) -> Metadatos]
    BY <1>1, <2>1
  <2> HIDE DEF us
  <2>3. QED
    BY <1>1, <2>2, SeqDef
<1> HIDE DEF us
<1>4. QED
  BY <1>2, <1>3 DEF DeHeap, Metadatos, MismoLugar

-----------------------------------------------------------------------------
(* A step of one handler, and the others. *)

NoCrece(h, g, t) == \A k \in DOMAIN t : t[k].mmapeado => Len(g[t[k].lista]) <= Len(h[t[k].lista])
ConLargo(h) == \A l \in 1..Listas : Len(h[l]) \in Nat
Paginadas(h) == DOMAIN h = 1..Listas /\ \A l \in 1..Listas : \E S : h[l] \in Seq(S)

LEMMA Largos ==
  ASSUME NEW h, Paginadas(h)
  PROVE  ConLargo(h)
BY UnaTabla DEF Paginadas, ConLargo

LEMMA HastaAchica ==
  ASSUME NEW h, NEW g, ConLargo(h), ConLargo(g), NEW s \in Segmento,
         s.mmapeado => Len(g[s.lista]) <= Len(h[s.lista])
  PROVE  Hasta(g, s) <= Hasta(h, s)
<1>1. CASE ~s.mmapeado
  <2>1. Hasta(g, s) = Hasta(h, s)
    BY <1>1 DEF Hasta
  <2>2. Hasta(h, s) \in Nat
    BY HastaNat DEF ConLargo
  <2>3. QED
    BY <2>1, <2>2
<1>2. CASE s.mmapeado
  <2> DEFINE a == Len(g[s.lista])
             b == Len(h[s.lista])
  <2>1. a \in Nat /\ b \in Nat /\ a <= b /\ s.base \in Nat
    BY <1>2, CualEs DEF ConLargo
  <2>2. Hasta(g, s) = s.base + a * TamPag /\ Hasta(h, s) = s.base + b * TamPag
    BY <1>2 DEF Hasta
  <2> HIDE DEF a, b
  <2> DEFINE x == a * TamPag
             y == b * TamPag
  <2>3. x <= y /\ x \in Nat /\ y \in Nat
    BY <2>1, ProductoNat, SegmentosSupuesto
  <2> HIDE DEF x, y
  <2>4. s.base + x <= s.base + y
    BY <2>1, <2>3
  <2>5. QED
    BY <2>2, <2>4 DEF x, y
<1>3. QED
  BY <1>1, <1>2, CualEs

LEMMA Achica ==
  ASSUME NEW h, NEW g, ConLargo(h), ConLargo(g), NEW t \in Seq(Segmento), NoCrece(h, g, t)
  PROVE  /\ Ordenada(h, t) => Ordenada(g, t)
         /\ \A b \in Nat : Debajo(h, t, b) => Debajo(g, t, b)
<1>1. \A k \in DOMAIN t : t[k] \in Segmento
  BY UnaTabla
<1>2. ASSUME NEW k \in DOMAIN t
      PROVE  Hasta(g, t[k]) <= Hasta(h, t[k]) /\ Hasta(g, t[k]) \in Nat /\ Hasta(h, t[k]) \in Nat /\ t[k].base \in Nat
  <2>1. Hasta(g, t[k]) <= Hasta(h, t[k])
    BY <1>1, HastaAchica DEF NoCrece
  <2>2. QED
    BY <1>1, <2>1, HastaNat, CualEs DEF ConLargo
<1>3. ASSUME Ordenada(h, t), NEW j \in DOMAIN t, NEW k \in DOMAIN t, j < k
      PROVE  Hasta(g, t[j]) <= t[k].base
  <2>1. Hasta(h, t[j]) <= t[k].base
    BY <1>3 DEF Ordenada
  <2>2. QED
    BY <1>2, <2>1
<1>4. ASSUME NEW b \in Nat, Debajo(h, t, b), NEW k \in DOMAIN t
      PROVE  Hasta(g, t[k]) <= b
  <2>1. Hasta(h, t[k]) <= b
    BY <1>4 DEF Debajo
  <2>2. QED
    BY <1>2, <2>1
<1>5. QED
  BY <1>3, <1>4 DEF Ordenada, Debajo

LEMMA OtroSigue ==
  ASSUME NEW h, NEW g, ConLargo(h), ConLargo(g), NEW t, NEW l, NEW punto, NEW d,
         EnFila(h, t, l, punto, FALSE), NoCrece(h, g, t)
  PROVE  EnFila(g, t, l, punto, d)
<1>1. t \in Seq(Segmento) /\ Ordenada(h, t) /\ LocalBien(l) /\ Momento(h, t, l, punto)
  BY DEF EnFila
<1>2. Ordenada(g, t) /\ (AlPublicar(h, t, l) => AlPublicar(g, t, l))
  BY <1>1, Achica DEF AlPublicar, LocalBien
<1>3. Momento(g, t, l, punto)
  BY <1>1, <1>2 DEF Momento
<1>4. QED
  BY <1>1, <1>2, <1>3 DEF EnFila

Usos == [archivo : Archivos, compartido : BOOLEAN]

LEMMA PasoSeg ==
  ASSUME SegInv, ~caido, NEW p \in Programas, NEW punto, NEW l, NEW u, Paso(p, punto, l, u),
         mapeos' \in Seq(Entrada), Paginadas(hojas'),
         \A q \in Cuidadosos \ {p} : NoCrece(hojas, hojas', tabla[q]),
         DOMAIN l = DOMAIN LocalVacio, punto \in Mapeando => l.usa \in Usos,
         p \in Cuidadosos => EnFila(hojas', u, l, punto, caido')
  PROVE  SegInv'
<1>1. DOMAIN pc = Programas /\ DOMAIN loc = Programas /\ DOMAIN tabla = Programas
  BY DEF SegInv, Globales
<1>2. /\ DOMAIN pc' = Programas /\ DOMAIN loc' = Programas /\ DOMAIN tabla' = Programas
      /\ pc'[p] = punto /\ loc'[p] = l /\ tabla'[p] = u
      /\ \A q \in Programas \ {p} : pc'[q] = pc[q] /\ loc'[q] = loc[q] /\ tabla'[q] = tabla[q]
  BY <1>1 DEF Paso
<1>0. pc' \in [Programas -> Range(pc')] /\ loc' \in [Programas -> Range(loc')] /\ tabla' \in [Programas -> Range(tabla')]
  <2>1. /\ pc' = [q \in Programas |-> pc'[q]] /\ loc' = [q \in Programas |-> loc'[q]]
        /\ tabla' = [q \in Programas |-> tabla'[q]]
    BY <1>1 DEF Paso
  <2>2. QED
    BY <2>1 DEF Range
<1>3. ASSUME NEW q \in Programas
      PROVE  DOMAIN loc'[q] = DOMAIN LocalVacio /\ (pc'[q] \in Mapeando => loc'[q].usa \in Usos)
  <2>1. CASE q = p
    BY <1>2, <2>1
  <2>2. CASE q # p
    <3>1. DOMAIN loc[q] = DOMAIN LocalVacio /\ (pc[q] \in Mapeando => loc[q].usa \in Usos)
      BY DEF SegInv, Globales, Usos
    <3>2. QED
      BY <1>2, <2>2, <3>1
  <2>3. QED
    BY <2>1, <2>2
<1>4. Globales'
  BY <1>0, <1>2, <1>3 DEF Globales, Paginadas, Usos
<1>5. ConLargo(hojas) /\ ConLargo(hojas')
  BY Largos DEF SegInv, Globales, Paginadas
<1>6. ASSUME NEW q \in Cuidadosos
      PROVE  EnFila(hojas', tabla'[q], loc'[q], pc'[q], caido')
  <2>0. q \in Programas
    BY SegmentosSupuesto
  <2>1. CASE q = p
    BY <1>2, <2>1
  <2>2. CASE q # p
    <3>1. EnFila(hojas, tabla[q], loc[q], pc[q], FALSE)
      BY DEF SegInv, EnFila
    <3>2. EnFila(hojas', tabla[q], loc[q], pc[q], caido')
      BY <1>5, <2>2, <3>1, OtroSigue
    <3>3. QED
      BY <1>2, <2>0, <2>2, <3>2
  <2>3. QED
    BY <2>1, <2>2
<1>7. QED
  BY <1>4, <1>6 DEF SegInv

(* The lists of pages stay. *)
LEMMA SinCrecer ==
  ASSUME SegInv, ~caido, NEW q \in Cuidadosos
  PROVE  NoCrece(hojas, hojas, tabla[q])
<1>1. ConLargo(hojas)
  BY Largos DEF SegInv, Globales, Paginadas
<1>2. tabla[q] \in Seq(Segmento)
  BY DEF SegInv, EnFila
<1>3. ASSUME NEW k \in DOMAIN tabla[q], tabla[q][k].mmapeado
      PROVE  Len(hojas[tabla[q][k].lista]) <= Len(hojas[tabla[q][k].lista])
  <2>1. tabla[q][k] \in Segmento
    BY <1>2, UnaTabla
  <2>2. Len(hojas[tabla[q][k].lista]) \in Nat
    BY <1>1, <1>3, <2>1, CualEs DEF ConLargo
  <2>3. QED
    BY <2>2
<1>4. QED
  BY <1>3 DEF NoCrece

LEMMA PasoSolo ==
  ASSUME SegInv, ~caido, NEW p \in Programas, NEW punto, NEW l, NEW u, Paso(p, punto, l, u),
         mapeos' \in Seq(Entrada), hojas' = hojas,
         DOMAIN l = DOMAIN LocalVacio, punto \in Mapeando => l.usa \in Usos,
         p \in Cuidadosos => EnFila(hojas, u, l, punto, caido')
  PROVE  SegInv'
<1>1. Paginadas(hojas')
  BY DEF SegInv, Globales, Paginadas
<1>2. \A q \in Cuidadosos \ {p} : NoCrece(hojas, hojas', tabla[q])
  BY SinCrecer
<1>3. QED
  BY <1>1, <1>2, PasoSeg

LEMMA SuFila ==
  ASSUME SegInv, ~caido, NEW p \in Cuidadosos
  PROVE  /\ p \in Programas /\ tabla[p] \in Seq(Segmento) /\ Ordenada(hojas, tabla[p]) /\ LocalBien(loc[p])
         /\ Momento(hojas, tabla[p], loc[p], pc[p])
         /\ DOMAIN tabla[p] = 1..Len(tabla[p]) /\ Len(tabla[p]) \in Nat /\ (tabla[p] = <<>> <=> Len(tabla[p]) = 0)
         /\ \A k \in DOMAIN tabla[p] : tabla[p][k] \in Segmento
<1>1. /\ p \in Programas /\ tabla[p] \in Seq(Segmento) /\ Ordenada(hojas, tabla[p]) /\ LocalBien(loc[p])
      /\ Momento(hojas, tabla[p], loc[p], pc[p])
  BY SegmentosSupuesto DEF SegInv, EnFila
<1>2. QED
  BY <1>1, UnaTabla

LEMMA SusDatos ==
  ASSUME SegInv, NEW p \in Programas
  PROVE  /\ DOMAIN loc[p] = DOMAIN LocalVacio /\ (pc[p] \in Mapeando => loc[p].usa \in Usos)
         /\ mapeos \in Seq(Entrada) /\ Paginadas(hojas) /\ ConLargo(hojas)
         /\ tabla = [tabla EXCEPT ![p] = tabla[p]]
<1>1. /\ DOMAIN loc[p] = DOMAIN LocalVacio /\ (pc[p] \in Mapeando => loc[p].usa \in Usos)
      /\ mapeos \in Seq(Entrada) /\ Paginadas(hojas)
  BY DEF SegInv, Globales, Usos, Paginadas
<1>2. ConLargo(hojas)
  BY <1>1, Largos
<1>3. tabla = [tabla EXCEPT ![p] = tabla[p]]
  <2>1. tabla \in [Programas -> Range(tabla)]
    BY DEF SegInv, Globales
  <2>2. QED
    BY <2>1
<1>4. QED
  BY <1>1, <1>2, <1>3

(* A handler that has nothing to rely on. *)
Sueltos == {"nuevo", "libre", "cargar", "traer", "tocar", "cerrar", "fin", "muerto"}

LEMMA Suelto ==
  ASSUME NEW h, NEW t, NEW l, NEW punto \in Sueltos, NEW c, t \in Seq(Segmento), Ordenada(h, t), LocalBien(l)
  PROVE  EnFila(h, t, l, punto, c)
BY DEF Sueltos, EnFila, Momento, Mapeando, Desmapeando, Publicando

LEMMA VacioBien == LocalBien(LocalVacio)
BY DEF LocalBien, LocalVacio

-----------------------------------------------------------------------------
(* The steps of muse_alloc and muse_free. *)

Orden(h, t, l) == t \in Seq(Segmento) /\ Ordenada(h, t) /\ LocalBien(l)

LEMMA EnAlloc ==
  ASSUME NEW h, NEW t, NEW l, NEW c, Orden(h, t, l), AlPedir(t, l.t)
  PROVE  EnFila(h, t, l, "alloc", c)
BY DEF Orden, EnFila, Momento, Mapeando, Desmapeando, Publicando

LEMMA EnRevisar ==
  ASSUME NEW h, NEW t, NEW l, NEW c, Orden(h, t, l), AlRevisar(t, l)
  PROVE  EnFila(h, t, l, "revisar", c)
BY DEF Orden, EnFila, Momento, Mapeando, Desmapeando, Publicando

LEMMA EnReservar ==
  ASSUME NEW h, NEW t, NEW l, NEW c, Orden(h, t, l), AlReservar(t, l)
  PROVE  EnFila(h, t, l, "reservar", c)
BY DEF Orden, EnFila, Momento, Mapeando, Desmapeando, Publicando

LEMMA EnAmpliar ==
  ASSUME NEW h, NEW t, NEW l, NEW c, Orden(h, t, l), c \/ AlAmpliar(t), c \in BOOLEAN
  PROVE  EnFila(h, t, l, "ampliar", c)
BY DEF Orden, EnFila, Momento, Mapeando, Desmapeando, Publicando

LEMMA EnJuntar ==
  ASSUME NEW h, NEW t, NEW l, NEW c, Orden(h, t, l), AlJuntar(t, l)
  PROVE  EnFila(h, t, l, "juntar", c)
BY DEF Orden, EnFila, Momento, Mapeando, Desmapeando, Publicando

LEMMA EnLibre ==
  ASSUME NEW h, NEW t, NEW c, t \in Seq(Segmento), Ordenada(h, t)
  PROVE  EnFila(h, t, LocalVacio, "libre", c)
BY Suelto, VacioBien DEF Sueltos

LEMMA EligeSegmento ==
  ASSUME NEW t \in Seq(Segmento), NEW n \in Nat, Elegido(t, n) # 0
  PROVE  /\ Elegido(t, n) \in DOMAIN t /\ t[Elegido(t, n)] \in DeHeap /\ ~t[Elegido(t, n)].mmapeado
         /\ HuecoDe(t[Elegido(t, n)], n) \in DOMAIN t[Elegido(t, n)].heaps
<1> DEFINE I == {k \in 1..Len(t) : ~t[k].mmapeado /\ \E i \in DOMAIN t[k].heaps : Entra(t[k].heaps[i], n + TamMeta)}
           k == Elegido(t, n)
<1>1. k = IF I # {} THEN Min(I) ELSE 0
  BY DEF Elegido, SelectInSeq
<1>2. k \in I
  <2> HIDE DEF k
  <2>1. I # {} /\ I \in SUBSET Nat
    BY <1>1, UnaTabla DEF k
  <2> HIDE DEF I
  <2>2. QED
    BY <1>1, <2>1, MinEsta
<1> HIDE DEF k
<1>3. k \in DOMAIN t /\ ~t[k].mmapeado /\ \E i \in DOMAIN t[k].heaps : Entra(t[k].heaps[i], n + TamMeta)
  BY <1>2, UnaTabla
<1>4. t[k] \in DeHeap /\ t[k].heaps \in Seq(Metadatos)
  BY <1>3, UnaTabla, CualEs
<1> DEFINE hs == t[k].heaps
           J == {i \in 1..Len(hs) : Entra(hs[i], n)}
           j == HuecoDe(t[k], n)
<1>5. j = IF J # {} THEN Min(J) ELSE 0
  BY DEF HuecoDe, SelectInSeq
<1> HIDE DEF j
<1>6. J # {} /\ J \in SUBSET Nat
  <2>1. DOMAIN hs = 1..Len(hs) /\ Len(hs) \in Nat
    BY <1>4, UnaTabla
  <2>2. PICK i \in DOMAIN hs : Entra(hs[i], n + TamMeta)
    BY <1>3
  <2>3. hs[i] \in Metadatos
    BY <1>4, <2>2, UnaTabla
  <2>4. SinSigno(hs[i].espacio) \in Nat
    BY <2>3, DeMeta, HojasNat
  <2>5. Entra(hs[i], n)
    BY <2>2, <2>4, SegmentosSupuesto DEF Entra
  <2>6. QED
    BY <2>1, <2>2, <2>5
<1>7. j \in J
  <2> HIDE DEF J
  <2>1. QED
    BY <1>5, <1>6, MinEsta
<1>8. j \in DOMAIN hs
  BY <1>4, <1>7, UnaTabla
<1>9. QED
  BY <1>3, <1>4, <1>8 DEF k, j

LEMMA Faltan ==
  ASSUME NEW s \in DeHeap, s.heaps # <<>>, NEW n \in Nat
  PROVE  HojasQueFaltan(s, n) \in Nat
<1>1. s.heaps \in Seq(Metadatos)
  BY DEF DeHeap, Metadatos
<1>2. Last(s.heaps) \in Metadatos
  BY <1>1, Ultimo
<1>3. n + TamMeta - Last(s.heaps).espacio \in Int
  <2>1. Last(s.heaps).espacio \in Int /\ TamMeta \in Int
    BY <1>2, DeMeta, SegmentosSupuesto
  <2>2. QED
    BY <2>1
<1>4. QED
  BY <1>3, HojasNat DEF HojasQueFaltan

(* Where the first block of a new segment is asked. *)
LEMMA PideSegmento ==
  ASSUME SegInv, ~caido, NEW p \in Programas, PedirSegmento(p), UNCHANGED <<tabla, mapeos, hojas>>
  PROVE  SegInv'
<1> DEFINE l == [loc[p] EXCEPT !.seg = 0, !.n = Hojas(loc[p].t + 2 * TamMeta)]
<1>0. DOMAIN loc[p] = DOMAIN LocalVacio
  BY SusDatos
<1>1. Ir(p, "reservar", l)
  BY DEF PedirSegmento
<1>2. DOMAIN l = DOMAIN LocalVacio /\ l.seg = 0 /\ l.t = loc[p].t /\ l.base = loc[p].base
      /\ l.n = Hojas(loc[p].t + 2 * TamMeta)
  BY <1>0 DEF LocalVacio
<1> HIDE DEF l
<1>3. Paso(p, "reservar", l, tabla[p])
  BY <1>1, SusDatos DEF Paso, Ir
<1>4. p \in Cuidadosos => EnFila(hojas, tabla[p], l, "reservar", caido')
  <2> SUFFICES ASSUME p \in Cuidadosos PROVE EnFila(hojas, tabla[p], l, "reservar", caido')
    OBVIOUS
  <2>1. tabla[p] \in Seq(Segmento) /\ Ordenada(hojas, tabla[p]) /\ LocalBien(loc[p])
    BY SuFila
  <2>2. loc[p].t + 2 * TamMeta \in Int
    BY <2>1, SegmentosSupuesto DEF LocalBien
  <2>6. Hojas(loc[p].t + 2 * TamMeta) \in Nat
    BY <2>2, HojasNat
  <2>3. LocalBien(l)
    BY <1>2, <2>1, <2>6 DEF LocalBien
  <2>4. AlReservar(tabla[p], l)
    BY <1>2 DEF AlReservar
  <2>5. QED
    BY <2>1, <2>3, <2>4, EnReservar DEF Orden
<1>5. "reservar" \notin Mapeando
  BY DEF Mapeando
<1>6. mapeos' \in Seq(Entrada) /\ hojas' = hojas
  BY SusDatos
<1>7. QED
  BY <1>2, <1>3, <1>4, <1>5, <1>6, PasoSolo

LEMMA DecidirSeg ==
  ASSUME SegInv, NEW p \in Programas, Decidir(p)
  PROVE  SegInv'
<1>1. ~caido /\ pc[p] = "alloc" /\ Elegido(tabla[p], loc[p].t) = 0 /\ UNCHANGED <<tabla, mapeos, hojas, caido>>
  BY DEF Decidir, Esta, compartidos, ConEspacio, Elegido
<1>2. CASE tabla[p] = <<>>
  <2>1. PedirSegmento(p)
    BY <1>2 DEF Decidir
  <2>2. QED
    BY <1>1, <2>1, PideSegmento
<1>3. CASE tabla[p] # <<>>
  <2> DEFINE l == [loc[p] EXCEPT !.seg = 1]
  <2>0. DOMAIN loc[p] = DOMAIN LocalVacio
    BY SusDatos
  <2>1. Ir(p, "revisar", l)
    BY <1>3 DEF Decidir
  <2>2. DOMAIN l = DOMAIN LocalVacio /\ l.seg = 1 /\ l.t = loc[p].t /\ l.n = loc[p].n /\ l.base = loc[p].base
    BY <2>0 DEF LocalVacio
  <2> HIDE DEF l
  <2>3. Paso(p, "revisar", l, tabla[p])
    BY <1>1, <2>1, SusDatos DEF Paso, Ir
  <2>4. p \in Cuidadosos => EnFila(hojas, tabla[p], l, "revisar", caido')
    <3> SUFFICES ASSUME p \in Cuidadosos PROVE EnFila(hojas, tabla[p], l, "revisar", caido')
      OBVIOUS
    <3>1. /\ tabla[p] \in Seq(Segmento) /\ Ordenada(hojas, tabla[p]) /\ LocalBien(loc[p])
          /\ Momento(hojas, tabla[p], loc[p], pc[p]) /\ DOMAIN tabla[p] = 1..Len(tabla[p]) /\ Len(tabla[p]) \in Nat
      BY <1>1, SuFila
    <3>2. AlPedir(tabla[p], loc[p].t)
      BY <1>1, <3>1 DEF Momento
    <3>3. VaciosAlFinal(tabla[p]) /\ SiNadieSirve(tabla[p], l.t) /\ l.t > 0
      BY <1>1, <2>2, <3>2 DEF AlPedir
    <3>4. AlRevisar(tabla[p], l)
      BY <1>3, <2>2, <3>1, <3>3 DEF AlRevisar
    <3>5. LocalBien(l)
      BY <2>2, <3>1 DEF LocalBien
    <3>6. QED
      BY <3>1, <3>4, <3>5, EnRevisar DEF Orden
  <2>5. "revisar" \notin Mapeando
    BY DEF Mapeando
  <2>6. mapeos' \in Seq(Entrada) /\ hojas' = hojas
    BY <1>1, SusDatos
  <2>7. QED
    BY <1>1, <2>2, <2>3, <2>4, <2>5, <2>6, PasoSolo
<1>4. QED
  BY <1>2, <1>3

(* A handler that changes a segment of heap of its program and answers. *)
LEMMA RespondeSeg ==
  ASSUME SegInv, ~caido, NEW p \in Programas, NEW u, Paso(p, "libre", LocalVacio, u), UNCHANGED <<mapeos, hojas>>,
         p \in Cuidadosos => u \in Seq(Segmento) /\ Ordenada(hojas, u)
  PROVE  SegInv'
<1>1. p \in Cuidadosos => EnFila(hojas, u, LocalVacio, "libre", caido')
  BY EnLibre
<1>2. "libre" \notin Mapeando
  BY DEF Mapeando
<1>3. mapeos' \in Seq(Entrada) /\ hojas' = hojas
  BY SusDatos
<1>4. QED
  BY <1>1, <1>2, <1>3, PasoSolo

LEMMA OcuparSeg ==
  ASSUME SegInv, NEW p \in Programas, Ocupar(p)
  PROVE  SegInv'
<1> DEFINE n == loc[p].t
           k == ConEspacio(p, n)
           s == Partir(tabla[p][k], HuecoDe(tabla[p][k], n), n)
           u == Cambiado(tabla[p], k, s)
<1>1. /\ ~caido /\ pc[p] = "alloc" /\ k # 0 /\ UNCHANGED <<mapeos, hojas>>
      /\ tabla' = [tabla EXCEPT ![p][k] = s]
      /\ pc' = [pc EXCEPT ![p] = "libre"] /\ loc' = [loc EXCEPT ![p] = LocalVacio]
  BY DEF Ocupar, Esta, Responder, Ir, compartidos
<1>2. k = Elegido(tabla[p], n)
  BY DEF ConEspacio, Elegido
<1> HIDE DEF k
<1>3. Paso(p, "libre", LocalVacio, u)
  BY <1>1 DEF Paso, Cambiado
<1>4. ASSUME p \in Cuidadosos PROVE u \in Seq(Segmento) /\ Ordenada(hojas, u)
  <2>1. /\ tabla[p] \in Seq(Segmento) /\ Ordenada(hojas, tabla[p]) /\ LocalBien(loc[p])
        /\ Momento(hojas, tabla[p], loc[p], pc[p])
    BY <1>1, <1>4, SuFila
  <2>2. n \in Nat /\ IndiceAlDia(tabla[p][k], HuecoDe(tabla[p][k], n))
    BY <1>1, <1>2, <2>1 DEF LocalBien, Momento, AlPedir
  <2>3. k \in DOMAIN tabla[p] /\ tabla[p][k] \in DeHeap /\ ~tabla[p][k].mmapeado
        /\ HuecoDe(tabla[p][k], n) \in DOMAIN tabla[p][k].heaps
    BY <1>1, <1>2, <2>1, <2>2, EligeSegmento
  <2>4. s \in DeHeap /\ MismoLugar(s, tabla[p][k])
    BY <2>2, <2>3, Partido
  <2> HIDE DEF s, n
  <2>5. s.base = tabla[p][k].base /\ s.paginas + s.liberadas = tabla[p][k].paginas + tabla[p][k].liberadas
    BY <2>4 DEF MismoLugar
  <2>6. u = Cambiado(tabla[p], k, s)
    OBVIOUS
  <2> HIDE DEF u
  <2>7. QED
    BY <2>1, <2>3, <2>4, <2>5, <2>6, CambiaUno
<1> HIDE DEF u
<1>5. QED
  BY <1>1, <1>3, <1>4, RespondeSeg

LEMMA RevisarSeg ==
  ASSUME SegInv, NEW p \in Programas, Revisar(p)
  PROVE  SegInv'
<1> DEFINE k == loc[p].seg
           n == loc[p].t
           t == tabla[p]
           s == t[k]
           rearma == ~s.mmapeado /\ s.heaps = <<>> /\ lugar >= TamPag
           nuevo  == IF rearma THEN Rearmado(s) ELSE s
           u  == Cambiado(t, k, nuevo)
           l1 == [loc[p] EXCEPT !.n = HojasQueFaltan(nuevo, n)]
           l2 == [loc[p] EXCEPT !.seg = @ + 1]
<1>0. DOMAIN loc[p] = DOMAIN LocalVacio
  BY SusDatos
<1>1. /\ ~caido /\ pc[p] = "revisar" /\ k <= Len(t) /\ UNCHANGED <<mapeos, hojas, caido>>
      /\ tabla' = [tabla EXCEPT ![p][k] = nuevo]
      /\ \/ Sirve(nuevo, n) /\ Ir(p, "reservar", l1)
         \/ ~Sirve(nuevo, n) /\ Ir(p, "revisar", l2)
  BY DEF Revisar, Esta, compartidos
<1>2. DOMAIN l1 = DOMAIN LocalVacio /\ l1.seg = k /\ l1.t = n /\ l1.base = loc[p].base
      /\ l1.n = HojasQueFaltan(nuevo, n)
  BY <1>0 DEF LocalVacio
<1>3. DOMAIN l2 = DOMAIN LocalVacio /\ l2.seg = k + 1 /\ l2.t = n /\ l2.base = loc[p].base /\ l2.n = loc[p].n
  BY <1>0 DEF LocalVacio
<1> HIDE DEF l1, l2
<1>4. tabla' = [tabla EXCEPT ![p] = u]
  BY <1>1 DEF Cambiado
<1>5. ASSUME p \in Cuidadosos
      PROVE  /\ u \in Seq(Segmento) /\ Ordenada(hojas, u) /\ LocalBien(loc[p]) /\ u # <<>>
             /\ k \in DOMAIN u /\ u[k] = nuevo /\ VaciosAlFinal(u) /\ SiNadieSirve(u, n) /\ k > 0 /\ n > 0
             /\ \A j \in DOMAIN u : j < k => ~Sirve(u[j], n)
             /\ nuevo \in Segmento /\ DOMAIN u = 1..Len(u) /\ Len(u) \in Nat
  <2>1. /\ t \in Seq(Segmento) /\ Ordenada(hojas, t) /\ LocalBien(loc[p])
        /\ Momento(hojas, t, loc[p], pc[p]) /\ DOMAIN t = 1..Len(t) /\ Len(t) \in Nat
        /\ \A j \in DOMAIN t : t[j] \in Segmento
    BY <1>1, <1>5, SuFila
  <2>2. AlRevisar(t, loc[p])
    BY <1>1, <2>1 DEF Momento
  <2>3. k \in DOMAIN t /\ k > 0 /\ n > 0 /\ VaciosAlFinal(t) /\ SiNadieSirve(t, n)
        /\ \A j \in DOMAIN t : j < k => ~Sirve(t[j], n)
    BY <1>1, <2>1, <2>2 DEF AlRevisar, LocalBien
  <2>4. CASE ~rearma
    <3>1. nuevo = t[k]
      BY <2>4
    <3>2. u = t
      BY <2>1, <2>3, <3>1 DEF Cambiado
    <3>3. t # <<>>
      BY <2>2 DEF AlRevisar
    <3> HIDE DEF u, nuevo, rearma
    <3>4. QED
      BY <2>1, <2>3, <3>1, <3>2, <3>3
  <2>5. CASE rearma
    <3>1. Vacio(t[k])
      BY <2>5 DEF Vacio
    <3>2. k = Len(t)
      BY <2>3, <3>1 DEF VaciosAlFinal
    <3>3. nuevo = Rearmado(t[k]) /\ t[k] \in DeHeap /\ ~t[k].mmapeado
      BY <2>1, <2>3, <2>5, CualEs
    <3> HIDE DEF rearma
    <3>4. nuevo \in DeHeap /\ nuevo.base = t[k].base /\ nuevo.heaps # <<>> /\ IndiceAlDia(nuevo, Len(nuevo.heaps))
      BY <3>3, Vuelve
    <3> HIDE DEF nuevo
    <3>5. /\ u \in Seq(Segmento) /\ Len(u) = Len(t) /\ DOMAIN u = DOMAIN t /\ u[k] = nuevo
          /\ \A j \in DOMAIN t : j # k => u[j] = t[j]
          /\ Ordenada(hojas, u) /\ ~nuevo.mmapeado
      BY <2>1, <2>3, <3>2, <3>3, <3>4, CambiaUno
    <3> HIDE DEF u
    <3>6. VaciosAlFinal(u)
      BY <2>3, <3>2, <3>4, <3>5 DEF VaciosAlFinal, Vacio
    <3>7. UltimoAlDia(u)
      BY <3>2, <3>4, <3>5 DEF UltimoAlDia
    <3>8. SiNadieSirve(u, n)
      BY <3>7 DEF SiNadieSirve
    <3>9. \A j \in DOMAIN u : j < k => ~Sirve(u[j], n)
      BY <2>3, <3>5
    <3>10. u # <<>> /\ nuevo \in Segmento
      BY <2>3, <3>4, <3>5 DEF Segmento
    <3>11. QED
      BY <2>1, <2>3, <3>5, <3>6, <3>8, <3>9, <3>10
  <2>6. QED
    BY <2>4, <2>5
<1> HIDE DEF u, nuevo, rearma
<1>6. {"revisar", "reservar"} \cap Mapeando = {}
  BY DEF Mapeando
<1>7. mapeos' \in Seq(Entrada) /\ hojas' = hojas
  BY <1>1, SusDatos
<1>8. CASE Sirve(nuevo, n) /\ Ir(p, "reservar", l1)
  <2>1. Paso(p, "reservar", l1, u)
    BY <1>4, <1>8 DEF Ir, Paso
  <2>2. p \in Cuidadosos => EnFila(hojas, u, l1, "reservar", caido')
    <3> SUFFICES ASSUME p \in Cuidadosos PROVE EnFila(hojas, u, l1, "reservar", caido')
      OBVIOUS
    <3>1. ~nuevo.mmapeado /\ nuevo.heaps # <<>> /\ nuevo.liberadas >= HojasQueFaltan(nuevo, n)
      BY <1>8 DEF Sirve
    <3>2. nuevo \in DeHeap /\ nuevo.liberadas \in Nat
      BY <1>5, <3>1, CualEs
    <3>3. n \in Nat /\ k \in Nat
      BY <1>5 DEF LocalBien
    <3>4. HojasQueFaltan(nuevo, n) \in Nat
      BY <3>1, <3>2, <3>3, Faltan
    <3> HIDE DEF n, k
    <3>5. LocalBien(l1)
      BY <1>2, <1>5, <3>3, <3>4 DEF LocalBien
    <3>6. AlReservar(u, l1)
      BY <1>2, <1>5, <3>1, <3>2, <3>4 DEF AlReservar, ConMeta
    <3>7. QED
      BY <1>5, <3>5, <3>6, EnReservar DEF Orden
  <2>3. QED
    BY <1>1, <1>2, <1>6, <1>7, <2>1, <2>2, PasoSolo
<1>9. CASE ~Sirve(nuevo, n) /\ Ir(p, "revisar", l2)
  <2>1. Paso(p, "revisar", l2, u)
    BY <1>4, <1>9 DEF Ir, Paso
  <2>2. p \in Cuidadosos => EnFila(hojas, u, l2, "revisar", caido')
    <3> SUFFICES ASSUME p \in Cuidadosos PROVE EnFila(hojas, u, l2, "revisar", caido')
      OBVIOUS
    <3>3. n \in Nat /\ k \in Nat
      BY <1>5 DEF LocalBien
    <3> HIDE DEF n, k
    <3>5. LocalBien(l2)
      BY <1>3, <1>5, <3>3 DEF LocalBien
    <3>6. \A j \in DOMAIN u : j < k + 1 => ~Sirve(u[j], n)
      <4> SUFFICES ASSUME NEW j \in DOMAIN u, j < k + 1 PROVE ~Sirve(u[j], n)
        OBVIOUS
      <4>1. j < k \/ j = k
        BY <1>5, <3>3
      <4>2. QED
        BY <1>5, <1>9, <4>1
    <3>7. AlRevisar(u, l2)
      BY <1>3, <1>5, <3>3, <3>6 DEF AlRevisar
    <3>8. QED
      BY <1>5, <3>5, <3>7, EnRevisar DEF Orden
  <2>3. QED
    BY <1>1, <1>3, <1>6, <1>7, <2>1, <2>2, PasoSolo
<1>10. QED
  BY <1>1, <1>8, <1>9

LEMMA ReservarSeg ==
  ASSUME SegInv, NEW p \in Programas, Reservar(p)
  PROVE  SegInv'
<1> DEFINE l == loc[p]
           t == tabla[p]
           s == IF l.seg = 0 THEN SegmentoNuevo(BaseNueva(p), l.t, l.n) ELSE ConLiberadas(t[l.seg], l.n, l.t)
           a == Append(t, s)
           b == Cambiado(t, l.seg, s)
<1>1. /\ ~caido /\ pc[p] = "reservar" /\ UNCHANGED <<mapeos, hojas>>
      /\ pc' = [pc EXCEPT ![p] = "libre"] /\ loc' = [loc EXCEPT ![p] = LocalVacio]
  BY DEF Reservar, Esta, Responder, Ir, compartidos
<1>2. \/ tabla' = tabla
      \/ l.seg = 0 /\ tabla' = [tabla EXCEPT ![p] = a]
      \/ l.seg # 0 /\ tabla' = [tabla EXCEPT ![p] = b]
  BY DEF Reservar, Cambiado
<1> HIDE DEF s
<1>3. ASSUME p \in Cuidadosos
      PROVE  /\ t \in Seq(Segmento) /\ Ordenada(hojas, t) /\ LocalBien(l)
             /\ Momento(hojas, t, l, pc[p])
             /\ l.seg \in Nat /\ l.n \in Nat /\ l.t \in Nat /\ AlReservar(t, l)
             /\ BaseNueva(p) \in Nat /\ Debajo(hojas, t, BaseNueva(p))
  <2>1. /\ t \in Seq(Segmento) /\ Ordenada(hojas, t) /\ LocalBien(l)
        /\ Momento(hojas, t, l, pc[p])
    BY <1>1, <1>3, SuFila
  <2>2. AlReservar(t, l)
    BY <1>1, <2>1 DEF Momento
  <2>3. ConLargo(hojas)
    BY SusDatos
  <2>4. BaseNueva(p) \in Nat /\ Debajo(hojas, t, BaseNueva(p))
    BY <2>1, <2>3, DondeVa DEF ConLargo
  <2>5. QED
    BY <2>1, <2>2, <2>4 DEF LocalBien
<1>4. CASE tabla' = tabla
  <2>1. Paso(p, "libre", LocalVacio, t)
    BY <1>1, <1>4, SusDatos DEF Paso
  <2>2. QED
    BY <1>1, <1>3, <2>1, RespondeSeg
<1>5. CASE l.seg = 0 /\ tabla' = [tabla EXCEPT ![p] = a]
  <2>1. Paso(p, "libre", LocalVacio, a)
    BY <1>1, <1>5 DEF Paso
  <2>2. ASSUME p \in Cuidadosos PROVE a \in Seq(Segmento) /\ Ordenada(hojas, a)
    <3>1. s = SegmentoNuevo(BaseNueva(p), l.t, l.n)
      BY <1>5 DEF s
    <3>2. s \in Segmento /\ s.base = BaseNueva(p)
      BY <1>3, <2>2, <3>1, Nuevo DEF Segmento
    <3> HIDE DEF l
    <3>3. QED
      BY <1>3, <2>2, <3>2, AgregaUno
  <2> HIDE DEF a
  <2>3. QED
    BY <1>1, <2>1, <2>2, RespondeSeg
<1>6. CASE l.seg # 0 /\ tabla' = [tabla EXCEPT ![p] = b]
  <2>1. Paso(p, "libre", LocalVacio, b)
    BY <1>1, <1>6 DEF Paso
  <2>2. ASSUME p \in Cuidadosos PROVE b \in Seq(Segmento) /\ Ordenada(hojas, b)
    <3>1. s = ConLiberadas(t[l.seg], l.n, l.t)
      BY <1>6 DEF s
    <3>2. l.seg \in DOMAIN t /\ ~t[l.seg].mmapeado /\ t[l.seg].heaps # <<>> /\ l.n <= t[l.seg].liberadas
      BY <1>3, <1>6, <2>2 DEF AlReservar, ConMeta
    <3>3. t[l.seg] \in DeHeap
      BY <1>3, <2>2, <3>2, UnaTabla, CualEs
    <3>4. s \in DeHeap /\ MismoLugar(s, t[l.seg])
      BY <1>3, <2>2, <3>1, <3>2, <3>3, Retoma
    <3>5. s.base = t[l.seg].base /\ s.paginas + s.liberadas = t[l.seg].paginas + t[l.seg].liberadas
      BY <3>4 DEF MismoLugar
    <3>6. b = Cambiado(t, l.seg, s)
      OBVIOUS
    <3> HIDE DEF b, l
    <3>7. QED
      BY <1>3, <2>2, <3>2, <3>4, <3>5, <3>6, CambiaUno
  <2> HIDE DEF b
  <2>3. QED
    BY <1>1, <2>1, <2>2, RespondeSeg
<1>7. QED
  BY <1>2, <1>4, <1>5, <1>6

LEMMA SinLiberadasSeg ==
  ASSUME SegInv, NEW p \in Programas, SinLiberadas(p)
  PROVE  SegInv'
<1> DEFINE l == loc[p]
           t == tabla[p]
           n == Len(t)
           s == Last(t)
           m == Marcado(t[n], Len(s.heaps), FALSE)
           u == IF s.heaps = <<>> THEN t ELSE Cambiado(t, n, m)
<1>1. /\ ~caido /\ pc[p] = "revisar" /\ l.seg > n /\ UNCHANGED <<mapeos, hojas>>
      /\ caido' = (~s.mmapeado /\ s.heaps = <<>>)
  BY DEF SinLiberadas, Esta, compartidos
<1>2. CASE s.mmapeado
  <2>1. PedirSegmento(p) /\ tabla' = tabla
    BY <1>2 DEF SinLiberadas
  <2>2. QED
    BY <1>1, <2>1, PideSegmento
<1>3. CASE ~s.mmapeado
  <2>1. Ir(p, "ampliar", l)
    BY <1>3 DEF SinLiberadas
  <2>2. tabla' = [tabla EXCEPT ![p] = u]
    <3>1. CASE s.heaps = <<>>
      <4>1. tabla' = tabla /\ u = t
        BY <1>3, <3>1 DEF SinLiberadas
      <4>2. QED
        BY <4>1, SusDatos
    <3>2. CASE s.heaps # <<>>
      <4>1. tabla' = [tabla EXCEPT ![p][n].heaps[Len(s.heaps)].libre = FALSE]
        BY <1>3, <3>2 DEF SinLiberadas
      <4>2. u = [t EXCEPT ![n].heaps[Len(s.heaps)].libre = FALSE]
        BY <3>2 DEF Cambiado, Marcado
      <4>3. QED
        BY <4>1, <4>2
    <3>3. QED
      BY <3>1, <3>2
  <2>3. Paso(p, "ampliar", l, u)
    BY <2>1, <2>2 DEF Paso, Ir
  <2>4. ASSUME p \in Cuidadosos
        PROVE  EnFila(hojas, u, l, "ampliar", caido')
    <3>1. /\ t \in Seq(Segmento) /\ Ordenada(hojas, t) /\ LocalBien(l)
          /\ Momento(hojas, t, l, pc[p]) /\ DOMAIN t = 1..n /\ n \in Nat
      BY <1>1, <2>4, SuFila
    <3>2. AlRevisar(t, l)
      BY <1>1, <3>1 DEF Momento
    <3>3. caido' \in BOOLEAN
      BY <1>1
    <3>4. CASE s.heaps = <<>>
      <4>1. u = t /\ caido' = TRUE
        BY <1>1, <1>3, <3>4
      <4>2. QED
        BY <3>1, <3>3, <4>1, EnAmpliar DEF Orden
    <3>5. CASE s.heaps # <<>>
      <4>1. t # <<>> /\ SiNadieSirve(t, l.t) /\ \A k \in DOMAIN t : k < l.seg => ~Sirve(t[k], l.t)
        BY <3>2 DEF AlRevisar
      <4>2. s = t[n] /\ n \in DOMAIN t
        BY <3>1, <4>1, Ultimo
      <4>3. \A k \in DOMAIN t : k < l.seg
        BY <1>1, <3>1 DEF LocalBien
      <4>4. UltimoAlDia(t)
        BY <4>1, <4>3 DEF SiNadieSirve
      <4>5. ConMeta(t, n) /\ IndiceAlDia(t[n], Len(t[n].heaps)) /\ t[n] \in DeHeap
        <5>1. ConMeta(t, n)
          BY <1>3, <3>5, <4>2 DEF ConMeta
        <5>2. t[n] \in DeHeap
          BY <1>3, <3>1, <4>2, UnaTabla, CualEs
        <5>3. QED
          BY <4>4, <5>1, <5>2 DEF UltimoAlDia
      <4>6. t[n].heaps \in Seq(Metadatos)
        BY <4>5 DEF DeHeap, Metadatos
      <4>7. Len(t[n].heaps) \in DOMAIN t[n].heaps
        BY <3>5, <4>2, <4>6, Ultimo
      <4>8. m = Marcado(t[n], Len(t[n].heaps), FALSE) /\ u = Cambiado(t, n, m)
        BY <3>5, <4>2
      <4> HIDE DEF m, u, s
      <4>9. /\ m \in DeHeap /\ MismoLugar(m, t[n]) /\ Len(m.heaps) = Len(t[n].heaps)
            /\ DOMAIN m.heaps = DOMAIN t[n].heaps
            /\ m.heaps[Len(t[n].heaps)].indice = t[n].heaps[Len(t[n].heaps)].indice
        <5> DEFINE x == Len(t[n].heaps)
                   y == t[n]
        <5>1. x \in DOMAIN y.heaps /\ y \in DeHeap /\ FALSE \in BOOLEAN /\ m = Marcado(y, x, FALSE)
          BY <4>5, <4>7, <4>8
        <5> HIDE DEF x, y
        <5>2. /\ m \in DeHeap /\ MismoLugar(m, y) /\ Len(m.heaps) = Len(y.heaps)
              /\ DOMAIN m.heaps = DOMAIN y.heaps /\ m.heaps[x].indice = y.heaps[x].indice
          BY <5>1, MarcadoIgual
        <5>3. QED
          BY <5>2 DEF x, y
      <4>10. m.base = t[n].base /\ m.paginas + m.liberadas = t[n].paginas + t[n].liberadas
        BY <4>9 DEF MismoLugar
      <4>11. ~t[n].mmapeado
        BY <4>5 DEF ConMeta
      <4>12. /\ u \in Seq(Segmento) /\ Len(u) = n /\ DOMAIN u = DOMAIN t /\ u[n] = m
             /\ Ordenada(hojas, u) /\ ~m.mmapeado
        <5>1. /\ t \in Seq(Segmento) /\ n \in DOMAIN t /\ ~t[n].mmapeado /\ m \in DeHeap /\ m.base = t[n].base
              /\ (m.paginas + m.liberadas = t[n].paginas + t[n].liberadas \/ n = Len(t))
              /\ u = Cambiado(t, n, m) /\ Ordenada(hojas, t)
          BY <3>1, <4>2, <4>8, <4>9, <4>10, <4>11
        <5> HIDE DEF t, n
        <5>2. /\ u \in Seq(Segmento) /\ Len(u) = Len(t) /\ DOMAIN u = DOMAIN t /\ u[n] = m
              /\ Ordenada(hojas, u) /\ ~m.mmapeado
          BY <5>1, CambiaUno
        <5>3. QED
          BY <5>2 DEF n
      <4>13. m.heaps # <<>>
        BY <4>7, <4>9
      <4>14. AlAmpliar(u)
        BY <4>2, <4>5, <4>9, <4>12, <4>13 DEF AlAmpliar, ConMeta, UltimoAlDia, IndiceAlDia
      <4>15. QED
        BY <3>1, <3>3, <4>12, <4>14, EnAmpliar DEF Orden
    <3>6. QED
      BY <3>4, <3>5
  <2>5. "ampliar" \notin Mapeando
    BY DEF Mapeando
  <2>6. mapeos' \in Seq(Entrada) /\ hojas' = hojas /\ DOMAIN l = DOMAIN LocalVacio
    BY <1>1, SusDatos
  <2> HIDE DEF u, l
  <2>7. QED
    BY <1>1, <2>3, <2>4, <2>5, <2>6, PasoSolo
<1>4. QED
  BY <1>2, <1>3

LEMMA AmpliarSeg ==
  ASSUME SegInv, NEW p \in Programas, Ampliar(p)
  PROVE  SegInv'
<1> DEFINE l == loc[p]
           t == tabla[p]
           k == Len(t)
           h == Last(t[k].heaps)
           n == Hojas(l.t + TamMeta - h.espacio)
           s == Ampliado(t[k], n, l.t)
           u == Cambiado(t, k, s)
<1>1. /\ ~caido /\ pc[p] = "ampliar" /\ UNCHANGED <<mapeos, hojas>>
      /\ pc' = [pc EXCEPT ![p] = "libre"] /\ loc' = [loc EXCEPT ![p] = LocalVacio]
  BY DEF Ampliar, Esta, Responder, Ir, compartidos
<1>2. tabla' = tabla \/ tabla' = [tabla EXCEPT ![p] = u]
  BY DEF Ampliar, Cambiado
<1>3. ASSUME p \in Cuidadosos
      PROVE  /\ t \in Seq(Segmento) /\ Ordenada(hojas, t) /\ LocalBien(l) /\ AlAmpliar(t)
  <2>1. /\ t \in Seq(Segmento) /\ Ordenada(hojas, t) /\ LocalBien(l)
        /\ Momento(hojas, t, l, pc[p])
    BY <1>1, <1>3, SuFila
  <2>2. QED
    BY <1>1, <2>1 DEF Momento
<1>4. CASE tabla' = tabla
  <2>1. Paso(p, "libre", LocalVacio, t)
    BY <1>1, <1>4, SusDatos DEF Paso
  <2>2. QED
    BY <1>1, <1>3, <2>1, RespondeSeg
<1>5. CASE tabla' = [tabla EXCEPT ![p] = u]
  <2>1. Paso(p, "libre", LocalVacio, u)
    BY <1>1, <1>5 DEF Paso
  <2>2. ASSUME p \in Cuidadosos PROVE u \in Seq(Segmento) /\ Ordenada(hojas, u)
    <3>1. k \in DOMAIN t /\ ~t[k].mmapeado /\ t[k].heaps # <<>> /\ IndiceAlDia(t[k], Len(t[k].heaps))
      BY <1>3, <2>2 DEF AlAmpliar, UltimoAlDia, ConMeta
    <3>2. t[k] \in DeHeap
      BY <1>3, <2>2, <3>1, UnaTabla, CualEs
    <3>3. h \in Metadatos
      <4>1. t[k].heaps \in Seq(Metadatos)
        BY <3>2 DEF DeHeap, Metadatos
      <4>2. QED
        BY <3>1, <4>1, Ultimo
    <3>4. l.t \in Nat
      BY <1>3, <2>2 DEF LocalBien
    <3>5. n \in Nat
      <4>1. h.espacio \in Int /\ TamMeta \in Int
        BY <3>3, DeMeta, SegmentosSupuesto
      <4> HIDE DEF h
      <4>2. l.t + TamMeta - h.espacio \in Int
        BY <3>4, <4>1
      <4>3. QED
        BY <4>2, HojasNat
    <3> HIDE DEF n
    <3>6. s \in DeHeap /\ s.base = t[k].base
      BY <3>1, <3>2, <3>4, <3>5, Crece
    <3>7. u = Cambiado(t, k, s)
      OBVIOUS
    <3> HIDE DEF u, s
    <3>8. QED
      BY <1>3, <2>2, <3>1, <3>6, <3>7, CambiaUno
  <2> HIDE DEF u
  <2>3. QED
    BY <1>1, <2>1, <2>2, RespondeSeg
<1>6. QED
  BY <1>2, <1>4, <1>5

LEMMA JuntarSeg ==
  ASSUME SegInv, NEW p \in Programas, Juntar(p)
  PROVE  SegInv'
<1> DEFINE t == tabla[p]
           k == loc[p].seg
           i == loc[p].n
           s == Junto(t[k], i)
           u == Cambiado(t, k, s)
           l == [loc[p] EXCEPT !.n = i - 1]
<1>1. /\ ~caido /\ pc[p] = "juntar" /\ i > 0 /\ UNCHANGED <<mapeos, hojas>> /\ caido' = caido
      /\ Ir(p, "juntar", l)
  BY DEF Juntar, Esta, compartidos
<1>2. tabla' = [tabla EXCEPT ![p][k] = s]
  BY DEF Juntar, Junto
<1>0. DOMAIN loc[p] = DOMAIN LocalVacio
  BY SusDatos
<1>3. DOMAIN l = DOMAIN LocalVacio /\ l.n = i - 1 /\ l.seg = k /\ l.t = loc[p].t /\ l.base = loc[p].base
  BY <1>0 DEF LocalVacio
<1> HIDE DEF l, s
<1>4. Paso(p, "juntar", l, u)
  BY <1>1, <1>2 DEF Paso, Ir, Cambiado
<1>5. p \in Cuidadosos => EnFila(hojas, u, l, "juntar", caido')
  <2> SUFFICES ASSUME p \in Cuidadosos PROVE EnFila(hojas, u, l, "juntar", caido')
    OBVIOUS
  <2>1. /\ t \in Seq(Segmento) /\ Ordenada(hojas, t) /\ LocalBien(loc[p])
        /\ Momento(hojas, t, loc[p], pc[p])
    BY <1>1, SuFila
  <2>2. k \in DOMAIN t /\ ~t[k].mmapeado /\ i <= Len(t[k].heaps) /\ Juntables(t[k].heaps, i)
    BY <1>1, <2>1 DEF Momento, AlJuntar
  <2>3. t[k] \in DeHeap /\ t[k].heaps \in Seq(Metadatos) /\ i \in Nat
    BY <2>1, <2>2, UnaTabla, CualEs DEF LocalBien
  <2>4. i \in 1..Len(t[k].heaps)
    BY <1>1, <2>2, <2>3, UnaTabla
  <2> HIDE DEF t, i
  <2>5. Sigue(s, t[k], i)
    BY <2>2, <2>3, <2>4, JuntoSigue DEF s
  <2>6. /\ s \in DeHeap /\ s.base = t[k].base /\ s.paginas + s.liberadas = t[k].paginas + t[k].liberadas
        /\ i - 1 <= Len(s.heaps) /\ Juntables(s.heaps, i - 1)
    BY <2>5 DEF Sigue, MismoLugar
  <2>7. u = Cambiado(t, k, s)
    OBVIOUS
  <2> HIDE DEF u, k
  <2>8. u \in Seq(Segmento) /\ Ordenada(hojas, u) /\ DOMAIN u = DOMAIN t /\ u[k] = s /\ ~s.mmapeado
    BY <2>1, <2>2, <2>6, <2>7, CambiaUno
  <2>9. AlJuntar(u, l)
    BY <1>3, <2>2, <2>6, <2>8 DEF AlJuntar
  <2>10. i - 1 \in Nat
    BY <1>1, <2>3
  <2>11. LocalBien(l)
    BY <1>3, <2>1, <2>10 DEF LocalBien, k
  <2>12. QED
    BY <2>8, <2>9, <2>11, EnJuntar DEF Orden
<1>6. "juntar" \notin Mapeando
  BY DEF Mapeando
<1>7. mapeos' \in Seq(Entrada) /\ hojas' = hojas
  BY <1>1, SusDatos
<1> HIDE DEF u
<1>8. QED
  BY <1>1, <1>3, <1>4, <1>5, <1>6, <1>7, PasoSolo

LEMMA RenumerarSeg ==
  ASSUME SegInv, NEW p \in Programas, Renumerar(p)
  PROVE  SegInv'
<1> DEFINE t == tabla[p]
           k == loc[p].seg
           s == Renumerado(t[k])
           u == Cambiado(t, k, s)
<1>1. /\ ~caido /\ pc[p] = "juntar" /\ UNCHANGED <<mapeos, hojas>>
      /\ pc' = [pc EXCEPT ![p] = "libre"] /\ loc' = [loc EXCEPT ![p] = LocalVacio]
  BY DEF Renumerar, Esta, compartidos, Responder, Ir
<1>2. tabla' = [tabla EXCEPT ![p][k] = s]
  BY DEF Renumerar, Renumerado
<1> HIDE DEF s
<1>3. Paso(p, "libre", LocalVacio, u)
  BY <1>1, <1>2 DEF Paso, Cambiado
<1>4. ASSUME p \in Cuidadosos PROVE u \in Seq(Segmento) /\ Ordenada(hojas, u)
  <2>1. /\ t \in Seq(Segmento) /\ Ordenada(hojas, t) /\ Momento(hojas, t, loc[p], pc[p])
    BY <1>1, <1>4, SuFila
  <2>2. k \in DOMAIN t /\ ~t[k].mmapeado
    BY <1>1, <2>1 DEF Momento, AlJuntar
  <2>3. t[k] \in DeHeap
    BY <2>1, <2>2, UnaTabla, CualEs
  <2>4. s \in DeHeap /\ s.base = t[k].base /\ s.paginas + s.liberadas = t[k].paginas + t[k].liberadas
    BY <2>3, RenumeradoIgual DEF MismoLugar, s
  <2>5. u = Cambiado(t, k, s)
    OBVIOUS
  <2> HIDE DEF u, t, k
  <2>6. QED
    BY <2>1, <2>2, <2>4, <2>5, CambiaUno
<1> HIDE DEF u
<1>5. QED
  BY <1>1, <1>3, <1>4, RespondeSeg

LEMMA EmpezarFreeSeg ==
  ASSUME SegInv, NEW p \in Programas, EmpezarFree(p)
  PROVE  SegInv'
<1> DEFINE t == tabla[p]
<1>1. /\ ~caido /\ pc[p] = "libre" /\ UNCHANGED <<mapeos, hojas>> /\ caido' = caido
  BY DEF EmpezarFree, Esta, compartidos
<1>2. PICK b \in dado[p] :
        LET k == SegDe(p, b.dir)
            s == tabla[p][k]
            i == IF k = 0 \/ s.mmapeado THEN 0
                 ELSE SelectInSeq(s.heaps, LAMBDA h : h.dir + TamMeta = b.dir - s.base)
        IN
        /\ p \in Cuidadosos => FreeServido(p, b)
        /\ i # 0
        /\ Ir(p, "juntar", [LocalVacio EXCEPT !.clase = "heap", !.seg = k, !.n = Len(s.heaps)])
        /\ tabla' = [tabla EXCEPT ![p][k].heaps[i].libre = TRUE]
  BY DEF EmpezarFree
<1> DEFINE k == SegDe(p, b.dir)
           s == t[k]
           I == {j \in 1..Len(s.heaps) : s.heaps[j].dir + TamMeta = b.dir - s.base}
           c == SelectInSeq(s.heaps, LAMBDA h : h.dir + TamMeta = b.dir - s.base)
           i == IF k = 0 \/ s.mmapeado THEN 0 ELSE c
           m == Marcado(s, i, TRUE)
           u == Cambiado(t, k, m)
           l == [LocalVacio EXCEPT !.clase = "heap", !.seg = k, !.n = Len(s.heaps)]
<1>3. c = IF I # {} THEN Min(I) ELSE 0
  BY DEF SelectInSeq
<1> HIDE DEF c
<1>4. i # 0 /\ Ir(p, "juntar", l) /\ (p \in Cuidadosos => FreeServido(p, b))
  BY <1>2 DEF c
<1>5. tabla' = [tabla EXCEPT ![p][k].heaps[i].libre = TRUE]
  BY <1>2 DEF c
<1>6. k # 0 /\ ~s.mmapeado /\ i = c
  BY <1>4
<1> DEFINE K == {j \in 1..Len(t) : SinSigno(b.dir - t[j].base) < t[j].tamanio}
<1>7. k = IF K # {} THEN Min(K) ELSE 0
  BY DEF SegDe, SelectInSeq
<1> HIDE DEF k, i
<1>8. tabla' = [tabla EXCEPT ![p] = u]
  BY <1>5 DEF Marcado, Cambiado
<1>9. Paso(p, "juntar", l, u)
  BY <1>4, <1>8 DEF Paso, Ir
<1>10. DOMAIN l = DOMAIN LocalVacio /\ l.seg = k /\ l.n = Len(s.heaps) /\ l.t = 0 /\ l.base = 0
  BY DEF LocalVacio
<1> HIDE DEF l
<1>11. p \in Cuidadosos => EnFila(hojas, u, l, "juntar", caido')
  <2> SUFFICES ASSUME p \in Cuidadosos PROVE EnFila(hojas, u, l, "juntar", caido')
    OBVIOUS
  <2>1. /\ t \in Seq(Segmento) /\ Ordenada(hojas, t) /\ DOMAIN t = 1..Len(t) /\ Len(t) \in Nat
    BY <1>1, SuFila
  <2>2. k \in DOMAIN t
    <3>1. K \in SUBSET Nat /\ K # {}
      BY <1>6, <1>7, <2>1
    <3>2. Min(K) \in K
      <4> HIDE DEF K
      <4>1. QED
        BY <3>1, MinEsta
    <3>3. QED
      BY <1>7, <2>1, <3>1, <3>2
  <2>3. s \in DeHeap /\ s.heaps \in Seq(Metadatos)
    BY <1>6, <2>1, <2>2, UnaTabla, CualEs
  <2>4. i \in 1..Len(s.heaps) /\ s.heaps[i].dir + TamMeta = b.dir - s.base
    <3>1. I # {} /\ I \in SUBSET Nat
      BY <1>3, <1>4, <1>6, <2>3, UnaTabla
    <3>2. Min(I) \in I
      <4> HIDE DEF I
      <4>1. QED
        BY <3>1, MinEsta
    <3>3. QED
      BY <1>3, <1>6, <3>1, <3>2
  <2>5. \A j \in 2..Len(s.heaps) :
          /\ s.heaps[j - 1].libre \/ s.heaps[j - 1].dir + TamMeta = b.dir - s.base
          /\ s.heaps[j].libre \/ s.heaps[j].dir + TamMeta = b.dir - s.base
          => s.heaps[j].indice = j - 1
    BY <1>4 DEF FreeServido, IndiceAlDia, k
  <2> HIDE DEF s
  <2>6. DOMAIN s.heaps = 1..Len(s.heaps) /\ Len(s.heaps) \in Nat /\ i \in DOMAIN s.heaps
    BY <2>3, <2>4, UnaTabla
  <2>7. /\ m \in DeHeap /\ MismoLugar(m, s)
        /\ Len(m.heaps) = Len(s.heaps) /\ DOMAIN m.heaps = DOMAIN s.heaps
        /\ \A j \in DOMAIN s.heaps :
             /\ m.heaps[j].indice = s.heaps[j].indice
             /\ m.heaps[j].libre = IF j = i THEN TRUE ELSE s.heaps[j].libre
    <3> DEFINE v == TRUE
    <3>1. v \in BOOLEAN /\ m = Marcado(s, i, v) /\ s \in DeHeap /\ i \in DOMAIN s.heaps
      BY <2>3, <2>6
    <3> HIDE DEF m, s, v
    <3>2. /\ m \in DeHeap /\ MismoLugar(m, s)
          /\ Len(m.heaps) = Len(s.heaps) /\ DOMAIN m.heaps = DOMAIN s.heaps
          /\ \A j \in DOMAIN s.heaps :
               /\ m.heaps[j].indice = s.heaps[j].indice
               /\ m.heaps[j].libre = IF j = i THEN v ELSE s.heaps[j].libre
      BY <3>1, MarcadoIgual
    <3>3. QED
      BY <3>2 DEF v
  <2> HIDE DEF m
  <2>8. Juntables(m.heaps, Len(s.heaps))
    <3> SUFFICES ASSUME NEW j \in 2..Len(s.heaps), m.heaps[j - 1].libre /\ m.heaps[j].libre
                 PROVE  m.heaps[j].indice = j - 1
      BY DEF Juntables
    <3>1. j \in DOMAIN s.heaps /\ j - 1 \in DOMAIN s.heaps
      BY <2>6
    <3>2. s.heaps[j - 1].libre \/ s.heaps[j - 1].dir + TamMeta = b.dir - s.base
      BY <2>4, <2>7, <3>1
    <3>3. s.heaps[j].libre \/ s.heaps[j].dir + TamMeta = b.dir - s.base
      BY <2>4, <2>7, <3>1
    <3>4. QED
      BY <2>5, <2>7, <3>1, <3>2, <3>3
  <2>9. /\ m.base = t[k].base /\ m.paginas + m.liberadas = t[k].paginas + t[k].liberadas /\ ~t[k].mmapeado
        /\ u = Cambiado(t, k, m)
    BY <1>6, <2>7 DEF MismoLugar, s
  <2> HIDE DEF u, t
  <2>10. u \in Seq(Segmento) /\ Ordenada(hojas, u) /\ DOMAIN u = DOMAIN t /\ u[k] = m /\ ~m.mmapeado
    BY <2>1, <2>2, <2>7, <2>9, CambiaUno
  <2>11. AlJuntar(u, l)
    BY <1>10, <2>2, <2>6, <2>7, <2>8, <2>10 DEF AlJuntar
  <2>12. LocalBien(l)
    BY <1>10, <2>1, <2>2, <2>6 DEF LocalBien
  <2>13. QED
    BY <2>10, <2>11, <2>12, EnJuntar DEF Orden
<1>12. "juntar" \notin Mapeando
  BY DEF Mapeando
<1>13. mapeos' \in Seq(Entrada) /\ hojas' = hojas
  BY <1>1, SusDatos
<1> HIDE DEF u
<1>14. QED
  BY <1>1, <1>9, <1>10, <1>11, <1>12, <1>13, PasoSolo

(* What SelectInSeq finds. *)
LEMMA ElPrimero ==
  ASSUME NEW I \in SUBSET Nat, 0 \notin I, NEW k, k = (IF I # {} THEN Min(I) ELSE 0)
  PROVE  (k = 0 <=> I = {}) /\ (k # 0 => k \in I /\ \A i \in I : k <= i) /\ k \in Nat
<1>1. CASE I = {}
  BY <1>1
<1>2. CASE I # {}
  BY <1>2, MinEsta
<1>3. QED
  BY <1>1, <1>2

LEMMA EmpezarAllocSeg ==
  ASSUME SegInv, NEW p \in Programas, EmpezarAlloc(p)
  PROVE  SegInv'
<1> DEFINE t == tabla[p]
<1>1. ~caido /\ pc[p] = "libre" /\ UNCHANGED <<tabla, mapeos, hojas, caido>>
  BY DEF EmpezarAlloc, Esta, compartidos
<1>2. PICK n \in Tamanios[p] :
        /\ p \in Cuidadosos => AllocServido(p, n)
        /\ Ir(p, "alloc", [LocalVacio EXCEPT !.clase = "heap", !.t = n])
  BY DEF EmpezarAlloc
<1> DEFINE l == [LocalVacio EXCEPT !.clase = "heap", !.t = n]
<1>3. DOMAIN l = DOMAIN LocalVacio /\ l.t = n /\ l.seg = 0 /\ l.n = 0 /\ l.base = 0
  BY DEF LocalVacio
<1>4. Ir(p, "alloc", l)
  BY <1>2
<1> HIDE DEF l
<1>5. Paso(p, "alloc", l, t)
  BY <1>1, <1>4, SusDatos DEF Paso, Ir
<1>6. n \in Nat /\ n > 0
  <2>1. Tamanios \in [Programas -> SUBSET (Nat \ {0})]
    BY SegmentosSupuesto
  <2>2. QED
    BY <2>1
<1>7. p \in Cuidadosos => EnFila(hojas, t, l, "alloc", caido')
  <2> SUFFICES ASSUME p \in Cuidadosos PROVE EnFila(hojas, t, l, "alloc", caido')
    OBVIOUS
  <2> DEFINE K == {i \in 1..Len(t) : ~t[i].mmapeado /\ \E j \in DOMAIN t[i].heaps : Entra(t[i].heaps[j], n + TamMeta)}
             R == {i \in 1..Len(t) : ~t[i].mmapeado /\ t[i].heaps = <<>>}
             L == {i \in 1..Len(t) : Sirve(t[i], n)}
             k == ConEspacio(p, n)
             r == SelectInSeq(t, LAMBDA s : ~s.mmapeado /\ s.heaps = <<>>)
             f == SelectInSeq(t, LAMBDA s : Sirve(s, n))
             u == Last(t)
  <2>1. /\ t \in Seq(Segmento) /\ Ordenada(hojas, t) /\ DOMAIN t = 1..Len(t) /\ Len(t) \in Nat
        /\ (t = <<>> <=> Len(t) = 0)
    BY <1>1, SuFila
  <2>2. IF t = <<>> THEN TRUE
        ELSE IF k # 0 THEN HuecoServido(p, t[k], n)
        ELSE IF r # 0 THEN RearmeServido(p, r, n)
        ELSE IF f # 0 THEN LiberadasServidas(t[f], n)
        ELSE ~u.mmapeado => AmpliacionServida(u, n)
    BY <1>2 DEF AllocServido
  <2>3. /\ k = IF K # {} THEN Min(K) ELSE 0
        /\ r = IF R # {} THEN Min(R) ELSE 0
        /\ f = IF L # {} THEN Min(L) ELSE 0
    BY DEF ConEspacio, SelectInSeq
  <2>4. k = Elegido(t, n)
    BY DEF ConEspacio, Elegido
  <2>5. /\ K \in SUBSET Nat /\ 0 \notin K /\ R \in SUBSET Nat /\ 0 \notin R
        /\ L \in SUBSET Nat /\ 0 \notin L
    BY <2>1
  <2>6. /\ \A i \in DOMAIN t : Vacio(t[i]) <=> i \in R
        /\ \A i \in DOMAIN t : Sirve(t[i], n) <=> i \in L
        /\ R \subseteq DOMAIN t
    BY <2>1 DEF Vacio
  <2>61. t = <<>> => K = {}
    BY <2>1
  <2> HIDE DEF K, R, L, k, r, f, u
  <2>7. /\ k = 0 <=> K = {}
        /\ r = 0 <=> R = {}
        /\ r # 0 => r \in R /\ \A i \in R : r <= i
        /\ f = 0 <=> L = {}
    <3>1. (k = 0 <=> K = {})
      BY <2>3, <2>5, ElPrimero
    <3>2. (r = 0 <=> R = {}) /\ (r # 0 => r \in R /\ \A i \in R : r <= i)
      BY <2>3, <2>5, ElPrimero
    <3>3. (f = 0 <=> L = {})
      BY <2>3, <2>5, ElPrimero
    <3>4. QED
      BY <3>1, <3>2, <3>3
  <2>8. AlPedir(t, n)
    <3>1. CASE t = <<>>
      <4>1. Elegido(t, n) = 0 /\ VaciosAlFinal(t) /\ UltimoAlDia(t)
        BY <2>1, <2>4, <2>61, <2>7, <3>1 DEF VaciosAlFinal, UltimoAlDia, ConMeta
      <4>2. QED
        BY <1>6, <4>1 DEF AlPedir, SiNadieSirve
    <3>2. CASE t # <<>> /\ k # 0
      <4>1. HuecoServido(p, t[k], n)
        BY <2>2, <3>2
      <4>2. IndiceAlDia(t[k], HuecoDe(t[k], n))
        BY <4>1 DEF HuecoServido
      <4>3. QED
        BY <1>6, <2>4, <3>2, <4>2 DEF AlPedir
    <3>3. CASE t # <<>> /\ k = 0 /\ r # 0
      <4>1. RearmeServido(p, r, n)
        BY <2>2, <3>3
      <4>2. r = Len(t)
        BY <4>1 DEF RearmeServido
      <4>3. VaciosAlFinal(t)
        <5> SUFFICES ASSUME NEW i \in DOMAIN t, Vacio(t[i]) PROVE i = Len(t)
          BY DEF VaciosAlFinal
        <5>1. i \in R /\ r <= i
          BY <2>6, <2>7, <3>3
        <5>2. QED
          BY <2>1, <4>2, <5>1
      <4>4. UltimoAlDia(t)
        <5>1. Vacio(t[r]) /\ r \in DOMAIN t
          BY <2>6, <2>7, <3>3
        <5>2. QED
          BY <4>2, <5>1 DEF UltimoAlDia, ConMeta, Vacio
      <4>5. QED
        BY <1>6, <2>4, <3>3, <4>3, <4>4 DEF AlPedir, SiNadieSirve
    <3>4. CASE t # <<>> /\ k = 0 /\ r = 0
      <4>1. VaciosAlFinal(t)
        BY <2>6, <2>7, <3>4 DEF VaciosAlFinal
      <4>2. SiNadieSirve(t, n)
        <5> SUFFICES ASSUME \A i \in DOMAIN t : ~Sirve(t[i], n), ConMeta(t, Len(t))
                     PROVE  IndiceAlDia(t[Len(t)], Len(t[Len(t)].heaps))
          BY DEF SiNadieSirve, UltimoAlDia
        <5>1. L = {}
          <6>1. L \subseteq DOMAIN t
            BY <2>1 DEF L
          <6>2. QED
            BY <2>6, <6>1
        <5>2. ~u.mmapeado => AmpliacionServida(u, n)
          BY <2>2, <2>7, <3>4, <5>1
        <5>3. u = t[Len(t)]
          BY DEF u, Last
        <5>4. QED
          BY <5>2, <5>3 DEF ConMeta, AmpliacionServida
      <4>3. QED
        BY <1>6, <2>4, <3>4, <4>1, <4>2 DEF AlPedir
    <3>5. QED
      BY <3>1, <3>2, <3>3, <3>4
  <2>9. LocalBien(l)
    BY <1>3, <1>6 DEF LocalBien
  <2>10. AlPedir(t, l.t)
    BY <1>3, <2>8
  <2>11. QED
    BY <2>1, <2>9, <2>10, EnAlloc DEF Orden
<1>8. "alloc" \notin Mapeando
  BY DEF Mapeando
<1>9. mapeos' \in Seq(Entrada) /\ hojas' = hojas
  BY <1>1, SusDatos
<1> HIDE DEF t
<1>10. QED
  BY <1>1, <1>3, <1>5, <1>7, <1>8, <1>9, PasoSolo

-----------------------------------------------------------------------------
(* The steps of the mappings. *)

LEMMA IgualesSeg ==
  ASSUME SegInv, UNCHANGED <<pc, loc, tabla, hojas, mapeos, caido>>
  PROVE  SegInv'
BY DEF SegInv, Globales

(* Nothing leaves or enters a list of pages. *)
MismosLargos(h, g) == \A l \in 1..Listas : Len(g[l]) = Len(h[l])

LEMMA UnaPagina ==
  ASSUME NEW S, NEW s \in Seq(S), NEW i, NEW e
  PROVE  Cambiado(s, i, e) \in Seq(S \cup {e}) /\ Len(Cambiado(s, i, e)) = Len(s)
<1> DEFINE u == Cambiado(s, i, e)
<1>1. DOMAIN s = 1..Len(s) /\ Len(s) \in Nat /\ \A j \in DOMAIN s : s[j] \in S
  BY UnaTabla
<1>2. u \in [1..Len(s) -> S \cup {e}]
  BY <1>1 DEF Cambiado
<1>3. u \in Seq(S \cup {e}) /\ DOMAIN u = 1..Len(s)
  BY <1>1, <1>2, SeqDef
<1> HIDE DEF u
<1>4. DOMAIN u = 1..Len(u) /\ Len(u) \in Nat
  BY <1>3, UnaTabla
<1>5. QED
  BY <1>1, <1>3, <1>4, MismoLargo DEF u

LEMMA UnaHoja ==
  ASSUME NEW h, Paginadas(h), NEW x, NEW i, NEW e, NEW g, g = [h EXCEPT ![x][i] = e]
  PROVE  Paginadas(g) /\ MismosLargos(h, g)
<1> DEFINE u == Cambiado(h[x], i, e)
<1>1. DOMAIN h = 1..Listas /\ \A l \in 1..Listas : \E S : h[l] \in Seq(S)
  BY DEF Paginadas
<1>2. g = [h EXCEPT ![x] = u]
  BY DEF Cambiado
<1>3. x \in 1..Listas => Len(u) = Len(h[x]) /\ \E S : u \in Seq(S)
  <2> SUFFICES ASSUME x \in 1..Listas PROVE Len(u) = Len(h[x]) /\ \E S : u \in Seq(S)
    OBVIOUS
  <2>1. PICK S : h[x] \in Seq(S)
    BY <1>1
  <2>2. QED
    BY <2>1, UnaPagina
<1> HIDE DEF u
<1>4. DOMAIN g = 1..Listas /\ \A l \in 1..Listas : (l = x => g[l] = u) /\ (l # x => g[l] = h[l])
  BY <1>1, <1>2
<1>5. QED
  BY <1>1, <1>3, <1>4 DEF Paginadas, MismosLargos

LEMMA MismosNoCrecen ==
  ASSUME SegInv, NEW g, MismosLargos(hojas, g), NEW q \in Cuidadosos
  PROVE  NoCrece(hojas, g, tabla[q])
<1>1. ConLargo(hojas)
  BY Largos DEF SegInv, Globales, Paginadas
<1>2. tabla[q] \in Seq(Segmento)
  BY DEF SegInv, EnFila
<1>3. ASSUME NEW k \in DOMAIN tabla[q], tabla[q][k].mmapeado
      PROVE  Len(g[tabla[q][k].lista]) <= Len(hojas[tabla[q][k].lista])
  <2>1. tabla[q][k].lista \in 1..Listas
    BY <1>2, <1>3, UnaTabla, CualEs
  <2>2. QED
    BY <1>1, <2>1 DEF ConLargo, MismosLargos
<1>4. QED
  BY <1>3 DEF NoCrece

(* A handler goes on, and its segments stay. *)
LEMMA QuietoSeg ==
  ASSUME SegInv, ~caido, NEW p \in Programas, NEW punto, NEW l, Ir(p, punto, l), tabla' = tabla,
         mapeos' \in Seq(Entrada), Paginadas(hojas'),
         \A q \in Cuidadosos : NoCrece(hojas, hojas', tabla[q]),
         DOMAIN l = DOMAIN LocalVacio, punto \in Mapeando => l.usa \in Usos,
         p \in Cuidadosos => LocalBien(l) /\ Momento(hojas, tabla[p], l, punto)
  PROVE  SegInv'
<1>1. Paso(p, punto, l, tabla[p])
  BY SusDatos DEF Paso, Ir
<1>2. p \in Cuidadosos => EnFila(hojas', tabla[p], l, punto, caido')
  <2> SUFFICES ASSUME p \in Cuidadosos PROVE EnFila(hojas', tabla[p], l, punto, caido')
    OBVIOUS
  <2>1. EnFila(hojas, tabla[p], l, punto, FALSE)
    BY SuFila DEF EnFila
  <2>2. ConLargo(hojas) /\ ConLargo(hojas') /\ NoCrece(hojas, hojas', tabla[p])
    BY SusDatos, Largos
  <2>3. QED
    BY <2>1, <2>2, OtroSigue
<1>3. QED
  BY <1>1, <1>2, PasoSeg

(* With nothing to rely on. *)
LEMMA SueltoSeg ==
  ASSUME SegInv, ~caido, NEW p \in Programas, NEW punto \in Sueltos, NEW l, Ir(p, punto, l), tabla' = tabla,
         mapeos' = mapeos, Paginadas(hojas'), MismosLargos(hojas, hojas'),
         DOMAIN l = DOMAIN LocalVacio, LocalBien(loc[p]) => LocalBien(l)
  PROVE  SegInv'
<1>1. punto \notin Mapeando
  BY DEF Sueltos, Mapeando
<1>2. \A q \in Cuidadosos : NoCrece(hojas, hojas', tabla[q])
  BY MismosNoCrecen
<1>3. p \in Cuidadosos => LocalBien(l) /\ Momento(hojas, tabla[p], l, punto)
  BY SuFila DEF Momento, Sueltos, Publicando, Desmapeando
<1>4. mapeos' \in Seq(Entrada)
  BY SusDatos
<1>5. QED
  BY <1>1, <1>2, <1>3, <1>4, QuietoSeg

LEMMA IgualesLargos == MismosLargos(hojas, hojas)
BY DEF MismosLargos

(* The steps that touch no segment. *)
LEMMA AccesoSeg ==
  ASSUME SegInv, NEW p \in Programas,
         \/ Iniciar(p) \/ Morir(p) \/ EmpezarAcceso(p) \/ Cargar(p) \/ Marcar(p) \/ Pegar(p) \/ YaEsta(p)
         \/ Tocar(p) \/ Terminar(p) \/ EmpezarCierre(p) \/ Cerrado(p)
  PROVE  SegInv'
<1>1. tabla' = tabla /\ mapeos' = mapeos /\ ~caido
  BY DEF Iniciar, Morir, EmpezarAcceso, Cargar, Marcar, Pegar, YaEsta, Tocar, Terminar, EmpezarCierre, Cerrado,
     compartidos, Esta
<1>0. DOMAIN loc[p] = DOMAIN LocalVacio /\ Paginadas(hojas)
  BY SusDatos
<1>2. Paginadas(hojas') /\ MismosLargos(hojas, hojas')
  <2>1. \/ hojas' = hojas
        \/ \E x, i, e : hojas' = [hojas EXCEPT ![x][i] = e]
    <3>1. CASE Marcar(p)
      <4> DEFINE e == [c \in 1..TamPag |-> "basura"]
      <4>1. hojas' = [hojas EXCEPT ![loc[p].lista][loc[p].hoja + 1] = e]
        BY <3>1 DEF Marcar
      <4> HIDE DEF e
      <4>2. QED
        BY <4>1
    <3>2. CASE Pegar(p)
      BY <3>2 DEF Pegar
    <3>3. CASE Tocar(p)
      BY <3>3 DEF Tocar
    <3>4. CASE Iniciar(p) \/ Morir(p) \/ EmpezarAcceso(p) \/ Cargar(p) \/ YaEsta(p) \/ Terminar(p)
               \/ EmpezarCierre(p) \/ Cerrado(p)
      BY <3>4 DEF Iniciar, Morir, EmpezarAcceso, Cargar, YaEsta, Terminar, EmpezarCierre, Cerrado, compartidos
    <3>5. QED
      BY <3>1, <3>2, <3>3, <3>4
  <2>2. CASE hojas' = hojas
    BY <1>0, <2>2, IgualesLargos
  <2>3. CASE \E x, i, e : hojas' = [hojas EXCEPT ![x][i] = e]
    <3>1. PICK x, i, e : hojas' = [hojas EXCEPT ![x][i] = e]
      BY <2>3
    <3>2. QED
      BY <1>0, <3>1, UnaHoja
  <2>4. QED
    BY <2>1, <2>2, <2>3
<1>3. \E punto \in Sueltos : \E l :
        Ir(p, punto, l) /\ DOMAIN l = DOMAIN LocalVacio /\ (LocalBien(loc[p]) => LocalBien(l))
  <2>0. {"libre", "muerto", "fin", "cargar", "traer", "tocar", "cerrar"} \subseteq Sueltos
    BY DEF Sueltos
  <2>1. CASE Iniciar(p) \/ Morir(p) \/ Terminar(p) \/ Cerrado(p)
    <3>1. Ir(p, "libre", LocalVacio) \/ Ir(p, "muerto", LocalVacio) \/ Ir(p, "fin", LocalVacio)
      BY <2>1 DEF Iniciar, Morir, Terminar, Cerrado, Responder
    <3>2. QED
      BY <2>0, <3>1, VacioBien
  <2>2. CASE EmpezarAcceso(p)
    <3>1. PICK clase, trozo, lista, usa, v :
            Ir(p, "cargar", [LocalVacio EXCEPT !.clase = clase, !.trozo = trozo, !.lista = lista, !.usa = usa, !.valor = v])
      BY <2>2 DEF EmpezarAcceso
    <3> DEFINE l == [LocalVacio EXCEPT !.clase = clase, !.trozo = trozo, !.lista = lista, !.usa = usa, !.valor = v]
    <3>2. DOMAIN l = DOMAIN LocalVacio /\ LocalBien(l)
      BY DEF LocalVacio, LocalBien
    <3>3. Ir(p, "cargar", l)
      BY <3>1
    <3> HIDE DEF l
    <3>4. QED
      BY <2>0, <3>2, <3>3
  <2>3. CASE EmpezarCierre(p)
    <3> DEFINE l == [LocalVacio EXCEPT !.clase = "close"]
    <3>1. Ir(p, "cerrar", l)
      BY <2>3 DEF EmpezarCierre
    <3>2. DOMAIN l = DOMAIN LocalVacio /\ LocalBien(l)
      BY DEF LocalVacio, LocalBien
    <3> HIDE DEF l
    <3>3. QED
      BY <2>0, <3>1, <3>2
  <2>4. CASE Cargar(p)
    <3> DEFINE falta == \E i \in Trozo(p) : hojas[loc[p].lista][i + 1] = Nada
               b == IF falta THEN Leido(loc[p].usa.archivo, Cardinality(Trozo(p)) * TamPag) ELSE <<>>
               l == [loc[p] EXCEPT !.hoja = Inicial(loc[p].trozo), !.buffer = b]
    <3>1. Ir(p, "traer", l) \/ Ir(p, "tocar", l)
      BY <2>4 DEF Cargar
    <3> HIDE DEF b
    <3>2. DOMAIN l = DOMAIN LocalVacio /\ (LocalBien(loc[p]) => LocalBien(l))
      BY <1>0 DEF LocalVacio, LocalBien
    <3> HIDE DEF l
    <3>3. QED
      BY <2>0, <3>1, <3>2
  <2>5. CASE Marcar(p)
    <3> DEFINE l == [loc[p] EXCEPT !.hojaMarcada = TRUE]
    <3>1. Ir(p, "traer", l)
      BY <2>5 DEF Marcar
    <3>2. DOMAIN l = DOMAIN LocalVacio /\ (LocalBien(loc[p]) => LocalBien(l))
      BY <1>0 DEF LocalVacio, LocalBien
    <3> HIDE DEF l
    <3>3. QED
      BY <2>0, <3>1, <3>2
  <2>6. CASE Pegar(p)
    <3> DEFINE l == [loc[p] EXCEPT !.hojaMarcada = FALSE, !.hoja = @ + 1]
    <3>1. Ir(p, "traer", l)
      BY <2>6 DEF Pegar
    <3>2. DOMAIN l = DOMAIN LocalVacio /\ (LocalBien(loc[p]) => LocalBien(l))
      BY <1>0 DEF LocalVacio, LocalBien
    <3> HIDE DEF l
    <3>3. QED
      BY <2>0, <3>1, <3>2
  <2>7. CASE YaEsta(p)
    <3> DEFINE v == <<>>
               l == [loc[p] EXCEPT !.hoja = @ + 1]
               m == [loc[p] EXCEPT !.hoja = Inicial(loc[p].trozo), !.buffer = v]
    <3>1. Ir(p, "traer", l) \/ Ir(p, "tocar", m)
      BY <2>7 DEF YaEsta
    <3> HIDE DEF v
    <3>2. /\ DOMAIN l = DOMAIN LocalVacio /\ (LocalBien(loc[p]) => LocalBien(l))
          /\ DOMAIN m = DOMAIN LocalVacio /\ (LocalBien(loc[p]) => LocalBien(m))
      BY <1>0 DEF LocalVacio, LocalBien
    <3> HIDE DEF l, m
    <3>3. QED
      BY <2>0, <3>1, <3>2
  <2>8. CASE Tocar(p)
    <3> DEFINE b == IF NoHay(p) \/ loc[p].clase # "sync" THEN loc[p].buffer ELSE loc[p].buffer \o Hoja(p)
               l == [loc[p] EXCEPT !.hoja = @ + 1, !.buffer = b]
    <3>1. Ir(p, "tocar", l)
      BY <2>8 DEF Tocar
    <3> HIDE DEF b
    <3>2. DOMAIN l = DOMAIN LocalVacio /\ (LocalBien(loc[p]) => LocalBien(l))
      BY <1>0 DEF LocalVacio, LocalBien
    <3> HIDE DEF l
    <3>3. QED
      BY <2>0, <3>1, <3>2
  <2>9. QED
    BY <2>1, <2>2, <2>3, <2>4, <2>5, <2>6, <2>7, <2>8
<1>4. PICK punto \in Sueltos :
        \E l : Ir(p, punto, l) /\ DOMAIN l = DOMAIN LocalVacio /\ (LocalBien(loc[p]) => LocalBien(l))
  BY <1>3
<1>5. PICK l : Ir(p, punto, l) /\ DOMAIN l = DOMAIN LocalVacio /\ (LocalBien(loc[p]) => LocalBien(l))
  BY <1>4
<1>6. QED
  BY <1>1, <1>2, <1>5, SueltoSeg

LEMMA MaxEsta ==
  ASSUME NEW n \in Nat, NEW I \in SUBSET (1..n), I # {}
  PROVE  Max(I) \in I
<1> DEFINE J == {n - x : x \in I}
<1>0. \A x \in I : n - x \in Nat
  OBVIOUS
<1>1. J \in SUBSET Nat /\ J # {}
  BY <1>0
<1>2. Min(J) \in J /\ \A j \in J : Min(J) <= j
  <2> HIDE DEF J
  <2>1. QED
    BY <1>1, MinEsta
<1>3. PICK x \in I : Min(J) = n - x
  BY <1>2
<1>4. \A y \in I : x >= y
  <2> SUFFICES ASSUME NEW y \in I PROVE x >= y
    OBVIOUS
  <2>1. n - x <= n - y
    BY <1>2, <1>3
  <2>2. QED
    BY <2>1
<1>5. QED
  BY <1>4 DEF Max

LEMMA SonEntradas ==
  ASSUME SegInv
  PROVE  mapeos \in Seq(Entrada) /\ DOMAIN mapeos = 1..Len(mapeos) /\ Len(mapeos) \in Nat
         /\ \A i \in DOMAIN mapeos : mapeos[i] \in Entrada
<1>1. mapeos \in Seq(Entrada)
  BY DEF SegInv, Globales
<1>2. QED
  BY <1>1, UnaTabla

(* An entry changes its count. *)
LEMMA OtraCuenta ==
  ASSUME SegInv, NEW i, NEW n
  PROVE  /\ i \in DOMAIN mapeos /\ n = mapeos[i].contador - 1 => [mapeos EXCEPT ![i].contador = n] \in Seq(Entrada)
         /\ i \notin DOMAIN mapeos => [mapeos EXCEPT ![i].contador = n] \in Seq(Entrada)
<1> DEFINE e == [mapeos[i] EXCEPT !.contador = n]
           m == [mapeos EXCEPT ![i] = e]
<1>1. mapeos \in Seq(Entrada) /\ DOMAIN mapeos = 1..Len(mapeos) /\ Len(mapeos) \in Nat
      /\ \A j \in DOMAIN mapeos : mapeos[j] \in Entrada
  BY SonEntradas
<1>2. [mapeos EXCEPT ![i].contador = n] = m
  OBVIOUS
<1>3. i \in DOMAIN mapeos /\ n = mapeos[i].contador - 1 => e \in Entrada
  <2> SUFFICES ASSUME i \in DOMAIN mapeos, n = mapeos[i].contador - 1 PROVE e \in Entrada
    OBVIOUS
  <2>1. mapeos[i] \in Entrada /\ mapeos[i].contador \in Int
    BY <1>1 DEF Entrada
  <2>2. n \in Int
    BY <2>1
  <2>3. QED
    BY <2>1, <2>2 DEF Entrada
<1> HIDE DEF e
<1>4. (i \in DOMAIN mapeos => e \in Entrada) => m \in [1..Len(mapeos) -> Entrada]
  BY <1>1
<1>5. (i \in DOMAIN mapeos => e \in Entrada) => m \in Seq(Entrada)
  BY <1>1, <1>4, SeqDef
<1>6. QED
  BY <1>2, <1>3, <1>5

LEMMA EmpezarMapaSeg ==
  ASSUME SegInv, NEW p \in Programas, EmpezarMapa(p)
  PROVE  SegInv'
<1>1. ~caido /\ pc[p] = "libre" /\ UNCHANGED <<tabla, mapeos, hojas>>
  BY DEF EmpezarMapa, Esta, compartidos
<1>2. PICK u \in Usa[p] : Ir(p, "mapear", [LocalVacio EXCEPT !.clase = "map", !.usa = u])
  BY DEF EmpezarMapa
<1> DEFINE l == [LocalVacio EXCEPT !.clase = "map", !.usa = u]
<1>3. Ir(p, "mapear", l)
  BY <1>2
<1>4. u \in Usos
  BY SegmentosSupuesto DEF Usos
<1>5. DOMAIN l = DOMAIN LocalVacio /\ l.usa = u /\ LocalBien(l)
  BY DEF LocalVacio, LocalBien
<1> HIDE DEF l
<1>6. p \in Cuidadosos => LocalBien(l) /\ Momento(hojas, tabla[p], l, "mapear")
  BY <1>5 DEF Momento, Publicando, Desmapeando
<1>7. mapeos' \in Seq(Entrada) /\ Paginadas(hojas') /\ \A q \in Cuidadosos : NoCrece(hojas, hojas', tabla[q])
  BY <1>1, SusDatos, SinCrecer
<1>8. QED
  BY <1>1, <1>3, <1>4, <1>5, <1>6, <1>7, QuietoSeg

LEMMA MapaTablaSeg ==
  ASSUME SegInv, NEW p \in Programas, MapaTabla(p)
  PROVE  SegInv'
<1> DEFINE l == [loc[p] EXCEPT !.base = BaseNueva(p)]
<1>1. ~caido /\ pc[p] = "mapear" /\ UNCHANGED <<tabla, mapeos, hojas>>
  BY DEF MapaTabla, Esta, compartidos
<1>2. PICK punto \in Publicando : Ir(p, punto, l)
  BY DEF MapaTabla, Publicando
<1>0. DOMAIN loc[p] = DOMAIN LocalVacio /\ loc[p].usa \in Usos
  BY <1>1, SusDatos DEF Mapeando
<1>3. /\ DOMAIN l = DOMAIN LocalVacio /\ l.usa = loc[p].usa /\ l.base = BaseNueva(p) /\ l.t = loc[p].t
      /\ l.n = loc[p].n /\ l.seg = loc[p].seg
  BY <1>0 DEF LocalVacio
<1> HIDE DEF l
<1>4. p \in Cuidadosos => LocalBien(l) /\ Momento(hojas, tabla[p], l, punto)
  <2> SUFFICES ASSUME p \in Cuidadosos PROVE LocalBien(l) /\ Momento(hojas, tabla[p], l, punto)
    OBVIOUS
  <2>1. tabla[p] \in Seq(Segmento) /\ Ordenada(hojas, tabla[p]) /\ LocalBien(loc[p])
    BY <1>1, SuFila
  <2>2. ConLargo(hojas)
    BY SusDatos
  <2>3. BaseNueva(p) \in Nat /\ Debajo(hojas, tabla[p], BaseNueva(p))
    BY <2>1, <2>2, DondeVa DEF ConLargo
  <2>4. LocalBien(l) /\ AlPublicar(hojas, tabla[p], l)
    BY <1>3, <2>1, <2>3 DEF LocalBien, AlPublicar
  <2>5. QED
    BY <2>4 DEF Momento, Publicando, Desmapeando
<1>5. mapeos' \in Seq(Entrada) /\ Paginadas(hojas') /\ \A q \in Cuidadosos : NoCrece(hojas, hojas', tabla[q])
  BY <1>1, SusDatos, SinCrecer
<1>6. QED
  BY <1>0, <1>1, <1>2, <1>3, <1>4, <1>5, QuietoSeg

(* A mapping goes after all that the program has. *)
LEMMA MapaSeAgrega ==
  ASSUME SegInv, ~caido, NEW p \in Cuidadosos, pc[p] \in Publicando, NEW l \in 1..Listas,
         NEW g, ConLargo(g), NoCrece(hojas, g, tabla[p])
  PROVE  LET u == Append(tabla[p], SegmentoMapeado(p, l)) IN u \in Seq(Segmento) /\ Ordenada(g, u)
<1> DEFINE t == tabla[p]
           s == SegmentoMapeado(p, l)
           b == loc[p].base
           a == loc[p].usa.archivo
           n == PaginasDelArchivo(a) * TamPag
<1>1. /\ p \in Programas /\ t \in Seq(Segmento) /\ Ordenada(hojas, t) /\ b \in Nat
      /\ Momento(hojas, t, loc[p], pc[p])
  BY SuFila DEF LocalBien
<1>2. Debajo(hojas, t, b)
  BY <1>1 DEF Momento, AlPublicar
<1>3. ConLargo(hojas) /\ loc[p].usa \in Usos
  BY <1>1, SusDatos DEF Mapeando, Publicando
<1>4. Ordenada(g, t) /\ Debajo(g, t, b)
  <2> HIDE DEF t, b
  <2>1. QED
    BY <1>1, <1>2, <1>3, Achica DEF t
<1>5. a \in Archivos
  BY <1>3 DEF Usos
<1>6. n \in Nat
  <2> DEFINE m == PaginasDelArchivo(a)
  <2>1. Largo[a] \in Nat /\ TamPag \in Nat /\ TamPag > 0
    BY <1>5, SegmentosSupuesto
  <2>2. Largo[a] + TamPag - 1 \in Nat
    BY <2>1
  <2>3. m \in Nat
    BY <2>1, <2>2 DEF PaginasDelArchivo
  <2> HIDE DEF m
  <2>4. m * TamPag \in Nat
    BY <2>1, <2>3, ProductoNat
  <2>5. QED
    BY <2>4 DEF m
<1>7. s = [mmapeado |-> TRUE, base |-> b, archivo |-> a, lista |-> l, tamanio |-> n]
  BY DEF SegmentoMapeado
<1> HIDE DEF b, a, n
<1>8. s \in Segmento /\ s.base = b
  BY <1>1, <1>5, <1>6, <1>7 DEF Segmento, DeMapeo
<1> HIDE DEF s
<1>9. Append(t, s) \in Seq(Segmento) /\ Ordenada(g, Append(t, s))
  BY <1>1, <1>4, <1>8, AgregaUno
<1>10. QED
  BY <1>9 DEF s

LEMMA BuscarSeg ==
  ASSUME SegInv, NEW p \in Programas, BuscarMapeo(p)
  PROVE  SegInv'
<1> DEFINE a == loc[p].usa.archivo
           es == EntradasDe(a)
           l == mapeos[Max(es)].lista
           u == Append(tabla[p], SegmentoMapeado(p, l))
<1>1. /\ ~caido /\ pc[p] = "buscar_mapeo" /\ hojas' = hojas
      /\ mapeos' = [i \in DOMAIN mapeos |-> IF i \in es THEN Contada(mapeos[i]) ELSE mapeos[i]]
      /\ \/ es = {} /\ Ir(p, "publicar", loc[p]) /\ tabla' = tabla
         \/ es # {} /\ Responder(p) /\ tabla' = [tabla EXCEPT ![p] = u]
  BY DEF BuscarMapeo, Esta
<1>2. mapeos \in Seq(Entrada) /\ DOMAIN mapeos = 1..Len(mapeos) /\ Len(mapeos) \in Nat
      /\ \A j \in DOMAIN mapeos : mapeos[j] \in Entrada
  BY SonEntradas
<1>3. mapeos' \in Seq(Entrada)
  <2>1. \A i \in DOMAIN mapeos : Contada(mapeos[i]) \in Entrada
    BY <1>2 DEF Contada, Entrada
  <2>2. mapeos' \in [1..Len(mapeos) -> Entrada]
    BY <1>1, <1>2, <2>1
  <2>3. QED
    BY <1>2, <2>2, SeqDef
<1>4. Paginadas(hojas') /\ \A q \in Cuidadosos : NoCrece(hojas, hojas', tabla[q])
  BY <1>1, SusDatos, SinCrecer
<1>5. DOMAIN loc[p] = DOMAIN LocalVacio /\ loc[p].usa \in Usos /\ ConLargo(hojas)
  BY <1>1, SusDatos DEF Mapeando
<1>6. CASE es = {} /\ Ir(p, "publicar", loc[p]) /\ tabla' = tabla
  <2>1. p \in Cuidadosos => LocalBien(loc[p]) /\ Momento(hojas, tabla[p], loc[p], "publicar")
    <3> SUFFICES ASSUME p \in Cuidadosos PROVE LocalBien(loc[p]) /\ Momento(hojas, tabla[p], loc[p], "publicar")
      OBVIOUS
    <3>1. LocalBien(loc[p]) /\ Momento(hojas, tabla[p], loc[p], "buscar_mapeo")
      BY <1>1, SuFila
    <3>2. AlPublicar(hojas, tabla[p], loc[p])
      BY <3>1 DEF Momento, Publicando
    <3>3. QED
      BY <3>1, <3>2 DEF Momento, Publicando, Desmapeando
  <2>2. QED
    BY <1>1, <1>3, <1>4, <1>5, <1>6, <2>1, QuietoSeg
<1>7. CASE es # {} /\ Responder(p) /\ tabla' = [tabla EXCEPT ![p] = u]
  <2>1. Paso(p, "libre", LocalVacio, u)
    BY <1>7 DEF Responder, Ir, Paso
  <2>2. l \in 1..Listas
    <3>1. es \in SUBSET (1..Len(mapeos)) /\ es # {}
      BY <1>2, <1>7 DEF EntradasDe
    <3> HIDE DEF es
    <3>2. Max(es) \in es
      BY <1>2, <3>1, MaxEsta
    <3>3. QED
      BY <1>2, <3>1, <3>2 DEF Entrada
  <2> HIDE DEF l
  <2>3. p \in Cuidadosos => u \in Seq(Segmento) /\ Ordenada(hojas, u)
    BY <1>1, <1>4, <1>5, <2>2, MapaSeAgrega DEF Publicando
  <2> HIDE DEF u
  <2>4. p \in Cuidadosos => EnFila(hojas', u, LocalVacio, "libre", caido')
    BY <1>1, <2>3, EnLibre
  <2>5. "libre" \notin Mapeando
    BY DEF Mapeando
  <2>6. QED
    BY <1>1, <1>3, <1>4, <2>1, <2>4, <2>5, PasoSeg
<1>8. QED
  BY <1>1, <1>6, <1>7

LEMMA PublicarSeg ==
  ASSUME SegInv, NEW p \in Programas, Publicar(p)
  PROVE  SegInv'
<1> DEFINE a == loc[p].usa.archivo
           l == Min(ListasLibres)
           n == PaginasDelArchivo(a)
           v == [i \in 1..n |-> Nada]
           e == [archivo |-> a, contador |-> 1, lista |-> l]
           u == Append(tabla[p], SegmentoMapeado(p, l))
<1>1. /\ ~caido /\ pc[p] = "publicar" /\ ListasLibres # {}
      /\ hojas' = [hojas EXCEPT ![l] = v] /\ mapeos' = Append(mapeos, e)
      /\ Responder(p) /\ tabla' = [tabla EXCEPT ![p] = u]
  BY DEF Publicar, Esta
<1>2. l \in ListasLibres /\ l \in 1..Listas
  <2>1. ListasLibres \in SUBSET Nat /\ ListasLibres \subseteq 1..Listas
    BY DEF ListasLibres
  <2>2. QED
    BY <1>1, <2>1, MinEsta
<1>3. DOMAIN loc[p] = DOMAIN LocalVacio /\ loc[p].usa \in Usos /\ Paginadas(hojas) /\ ConLargo(hojas)
  BY <1>1, SusDatos DEF Mapeando
<1>4. a \in Archivos
  BY <1>3 DEF Usos
<1>5. n \in Nat
  <2>1. Largo[a] \in Nat /\ TamPag \in Nat /\ TamPag > 0
    BY <1>4, SegmentosSupuesto
  <2>2. Largo[a] + TamPag - 1 \in Nat
    BY <2>1
  <2>3. QED
    BY <2>1, <2>2 DEF PaginasDelArchivo
<1>6. v \in Seq({Nada})
  <2> HIDE DEF n
  <2>1. v \in [1..n -> {Nada}]
    OBVIOUS
  <2>2. QED
    BY <1>5, <2>1, SeqDef
<1>7. mapeos' \in Seq(Entrada)
  <2>1. e \in Entrada
    BY <1>2, <1>4 DEF Entrada
  <2> HIDE DEF e
  <2>2. mapeos \in Seq(Entrada)
    BY SonEntradas
  <2>3. QED
    BY <1>1, <2>1, <2>2, AppendProperties
<1> HIDE DEF v, e, l
<1>8. DOMAIN hojas' = 1..Listas /\ hojas'[l] = v /\ \A i \in 1..Listas : i # l => hojas'[i] = hojas[i]
  BY <1>1, <1>2, <1>3 DEF Paginadas
<1>9. Paginadas(hojas')
  <2>1. ASSUME NEW i \in 1..Listas PROVE \E S : hojas'[i] \in Seq(S)
    <3>1. CASE i = l
      BY <1>6, <1>8, <3>1
    <3>2. CASE i # l
      BY <1>3, <1>8, <3>2 DEF Paginadas
    <3>3. QED
      BY <3>1, <3>2
  <2>2. QED
    BY <1>8, <2>1 DEF Paginadas
<1>10. ASSUME NEW q \in Cuidadosos PROVE NoCrece(hojas, hojas', tabla[q])
  <2> SUFFICES ASSUME NEW k \in DOMAIN tabla[q], tabla[q][k].mmapeado
               PROVE  Len(hojas'[tabla[q][k].lista]) <= Len(hojas[tabla[q][k].lista])
    BY DEF NoCrece
  <2>1. q \in Programas /\ tabla[q][k].lista \in 1..Listas
    BY <1>1, SuFila, CualEs
  <2>2. tabla[q][k].lista \in ListasEnUso
    BY <2>1 DEF ListasEnUso
  <2>3. tabla[q][k].lista # l
    BY <1>2, <2>2 DEF ListasLibres
  <2>4. Len(hojas[tabla[q][k].lista]) \in Nat
    BY <1>3, <2>1 DEF ConLargo
  <2>5. QED
    BY <1>8, <2>1, <2>3, <2>4
<1>11. ConLargo(hojas')
  BY <1>9, Largos
<1>12. Paso(p, "libre", LocalVacio, u)
  BY <1>1 DEF Responder, Ir, Paso
<1>13. p \in Cuidadosos => EnFila(hojas', u, LocalVacio, "libre", caido')
  <2> SUFFICES ASSUME p \in Cuidadosos PROVE EnFila(hojas', u, LocalVacio, "libre", caido')
    OBVIOUS
  <2>1. u \in Seq(Segmento) /\ Ordenada(hojas', u)
    BY <1>1, <1>2, <1>10, <1>11, MapaSeAgrega DEF Publicando
  <2> HIDE DEF u
  <2>2. QED
    BY <2>1, EnLibre
<1>14. "libre" \notin Mapeando
  BY DEF Mapeando
<1> HIDE DEF u
<1>15. QED
  BY <1>1, <1>7, <1>9, <1>10, <1>12, <1>13, <1>14, PasoSeg

LEMMA EmpezarUnmapSeg ==
  ASSUME SegInv, NEW p \in Programas, EmpezarUnmap(p)
  PROVE  SegInv'
<1>1. ~caido /\ pc[p] = "libre" /\ UNCHANGED <<tabla, mapeos, hojas>>
  BY DEF EmpezarUnmap, Esta, compartidos
<1>2. PICK k \in {k \in DOMAIN tabla[p] : tabla[p][k].mmapeado} :
        Ir(p, "bajar", [LocalVacio EXCEPT !.clase = "unmap",
                                          !.usa = [archivo |-> tabla[p][k].archivo, compartido |-> TRUE]])
  BY DEF EmpezarUnmap
<1> DEFINE l == [LocalVacio EXCEPT !.clase = "unmap",
                                   !.usa = [archivo |-> tabla[p][k].archivo, compartido |-> TRUE]]
<1>3. Ir(p, "bajar", l)
  BY <1>2
<1>5. DOMAIN l = DOMAIN LocalVacio /\ l.usa.archivo = tabla[p][k].archivo /\ LocalBien(l)
  BY DEF LocalVacio, LocalBien
<1> HIDE DEF l
<1>6. LocalBien(l) /\ Momento(hojas, tabla[p], l, "bajar")
  BY <1>2, <1>5 DEF Momento, Publicando
<1>7. mapeos' \in Seq(Entrada) /\ Paginadas(hojas') /\ \A q \in Cuidadosos : NoCrece(hojas, hojas', tabla[q])
  BY <1>1, SusDatos, SinCrecer
<1>8. "bajar" \notin Mapeando
  BY DEF Mapeando
<1>9. QED
  BY <1>1, <1>3, <1>5, <1>6, <1>7, <1>8, QuietoSeg

LEMMA BajarSeg ==
  ASSUME SegInv, NEW p \in Programas, Bajar(p)
  PROVE  SegInv'
<1> DEFINE i == SelectInSeq(mapeos, LAMBDA m : m.archivo = loc[p].usa.archivo)
           I == {j \in 1..Len(mapeos) : mapeos[j].archivo = loc[p].usa.archivo}
           n == mapeos[i].contador - 1
           l == [loc[p] EXCEPT !.lista = mapeos[i].lista]
<1>0. i = IF I # {} THEN Min(I) ELSE 0
  BY DEF SelectInSeq
<1>1. /\ ~caido /\ pc[p] = "bajar" /\ UNCHANGED <<tabla, hojas>>
      /\ \/ i = 0 /\ Responder(p) /\ mapeos' = mapeos
         \/ i # 0 /\ mapeos' = [mapeos EXCEPT ![i].contador = n] /\ Ir(p, "quitar", l)
  BY DEF Bajar, Esta
<1> HIDE DEF i
<1>2. Paginadas(hojas') /\ \A q \in Cuidadosos : NoCrece(hojas, hojas', tabla[q])
  BY <1>1, SusDatos, SinCrecer
<1>3. DOMAIN loc[p] = DOMAIN LocalVacio /\ "quitar" \notin Mapeando /\ "libre" \notin Mapeando
  BY SusDatos DEF Mapeando
<1>4. CASE i = 0 /\ Responder(p) /\ mapeos' = mapeos
  <2>1. LocalBien(LocalVacio) /\ Momento(hojas, tabla[p], LocalVacio, "libre")
    BY VacioBien DEF Momento, Publicando, Desmapeando
  <2>2. mapeos' \in Seq(Entrada) /\ Ir(p, "libre", LocalVacio)
    BY <1>4, SusDatos DEF Responder
  <2>3. QED
    BY <1>1, <1>2, <1>3, <2>1, <2>2, QuietoSeg
<1>5. CASE i # 0 /\ mapeos' = [mapeos EXCEPT ![i].contador = n] /\ Ir(p, "quitar", l)
  <2>1. i \in DOMAIN mapeos
    <3>1. I \in SUBSET Nat /\ 0 \notin I /\ I \subseteq DOMAIN mapeos
      BY SonEntradas
    <3> HIDE DEF I
    <3>2. QED
      BY <1>0, <1>5, <3>1, ElPrimero
  <2>2. mapeos' \in Seq(Entrada)
    BY <1>5, <2>1, OtraCuenta
  <2>3. /\ DOMAIN l = DOMAIN LocalVacio /\ l.usa = loc[p].usa /\ (LocalBien(loc[p]) => LocalBien(l))
    BY <1>3 DEF LocalVacio, LocalBien
  <2> HIDE DEF l
  <2>4. p \in Cuidadosos => LocalBien(l) /\ Momento(hojas, tabla[p], l, "quitar")
    <3> SUFFICES ASSUME p \in Cuidadosos PROVE LocalBien(l) /\ Momento(hojas, tabla[p], l, "quitar")
      OBVIOUS
    <3>1. LocalBien(l) /\ Momento(hojas, tabla[p], loc[p], "bajar")
      BY <1>1, <2>3, SuFila
    <3>2. \E k \in DOMAIN tabla[p] : tabla[p][k].mmapeado /\ tabla[p][k].archivo = l.usa.archivo
      BY <2>3, <3>1 DEF Momento, Desmapeando
    <3>3. QED
      BY <3>1, <3>2 DEF Momento, Publicando
  <2>5. QED
    BY <1>1, <1>2, <1>3, <1>5, <2>2, <2>3, <2>4, QuietoSeg
<1>6. QED
  BY <1>1, <1>4, <1>5

(* A list of pages is destroyed. *)
LEMMA VaciaLista ==
  ASSUME SegInv, NEW x, NEW g, g = [hojas EXCEPT ![x] = <<>>]
  PROVE  Paginadas(g) /\ \A q \in Cuidadosos : NoCrece(hojas, g, tabla[q])
<1>1. DOMAIN hojas = 1..Listas /\ \A l \in 1..Listas : \E S : hojas[l] \in Seq(S)
  BY DEF SegInv, Globales
<1>2. ConLargo(hojas)
  BY Largos DEF SegInv, Globales, Paginadas
<1> DEFINE v == <<>>
<1>3. v \in Seq({}) /\ Len(v) = 0 /\ g = [hojas EXCEPT ![x] = v]
  OBVIOUS
<1> HIDE DEF v
<1>4. DOMAIN g = 1..Listas /\ \A l \in 1..Listas : (l = x => g[l] = v) /\ (l # x => g[l] = hojas[l])
  BY <1>1, <1>3
<1>5. Paginadas(g)
  <2>1. ASSUME NEW i \in 1..Listas PROVE \E S : g[i] \in Seq(S)
    <3>1. CASE i = x
      BY <1>3, <1>4, <3>1
    <3>2. CASE i # x
      BY <1>1, <1>4, <3>2
    <3>3. QED
      BY <3>1, <3>2
  <2>2. QED
    BY <1>4, <2>1 DEF Paginadas
<1>6. \A l \in 1..Listas : Len(g[l]) <= Len(hojas[l])
  BY <1>2, <1>3, <1>4 DEF ConLargo
<1>7. ASSUME NEW q \in Cuidadosos, NEW k \in DOMAIN tabla[q], tabla[q][k].mmapeado
      PROVE  tabla[q][k].lista \in 1..Listas
  <2>1. tabla[q] \in Seq(Segmento)
    BY DEF SegInv, EnFila
  <2>2. QED
    BY <1>7, <2>1, UnaTabla, CualEs
<1>8. QED
  BY <1>5, <1>6, <1>7 DEF NoCrece

(* An entry leaves the table of mappings. *)
LEMMA SinEntradaSeg ==
  ASSUME SegInv, NEW a
  PROVE  SinEntrada(a) \in Seq(Entrada)
<1> DEFINE i == SelectInSeq(mapeos, LAMBDA m : m.archivo = a)
           I == {j \in 1..Len(mapeos) : mapeos[j].archivo = a}
<1>1. mapeos \in Seq(Entrada) /\ DOMAIN mapeos = 1..Len(mapeos) /\ Len(mapeos) \in Nat
  BY SonEntradas
<1>2. i = IF I # {} THEN Min(I) ELSE 0
  BY DEF SelectInSeq
<1>3. SinEntrada(a) = RemoveAt(mapeos, i)
  BY DEF SinEntrada
<1> HIDE DEF i
<1>4. i = 0 \/ i \in 1..Len(mapeos)
  <2>1. I \in SUBSET Nat /\ 0 \notin I /\ I \subseteq 1..Len(mapeos)
    BY <1>1
  <2> HIDE DEF I
  <2>2. QED
    BY <1>2, <2>1, ElPrimero
<1>5. CASE i \in 1..Len(mapeos)
  BY <1>1, <1>3, <1>5, QuitaPosicion
<1>6. CASE i = 0
  <2>1. RemoveAt(mapeos, 0) = SubSeq(mapeos, 1, 0 - 1) \o SubSeq(mapeos, 0 + 1, Len(mapeos))
    BY DEF RemoveAt
  <2>2. 0 - 1 = -1 /\ 0 + 1 = 1
    OBVIOUS
  <2>3. SubSeq(mapeos, 1, -1) \in Seq(Entrada)
    <3>1. SubSeq(mapeos, 1, -1) = <<>>
      BY SubSeqProperties, <1>1
    <3>2. QED
      BY <3>1
  <2>4. SubSeq(mapeos, 1, Len(mapeos)) \in Seq(Entrada)
    BY <1>1, SubSeqProperties
  <2>5. QED
    BY <1>3, <1>6, <2>1, <2>2, <2>3, <2>4, ConcatProperties
<1>7. QED
  BY <1>4, <1>5, <1>6

LEMMA PrimeroSeg ==
  ASSUME NEW t \in Seq(Segmento), t # <<>>
  PROVE  1 \in DOMAIN t /\ Head(t) = t[1] /\ Tail(t) = RemoveAt(t, 1)
<1>1. DOMAIN t = 1..Len(t) /\ \A k \in DOMAIN t : t[k] \in Segmento /\ t[k].mmapeado \in BOOLEAN
  BY UnaTabla, CualEs
<1>2. t \in Seq(Range(t))
  <2>1. t \in [1..Len(t) -> Range(t)] /\ Len(t) \in Nat
    BY <1>1, UnaTabla, LenProperties DEF Range
  <2>2. QED
    BY <2>1, SeqDef
<1>3. \A k \in DOMAIN t : "mmapeado" \in DOMAIN t[k]
  BY <1>1 DEF Segmento, DeHeap, DeMapeo
<1>4. QED
  BY <1>1, <1>2, <1>3, QuitaPrimero DEF Segmentos

(* A segment goes. *)
LEMMA SaleSeg ==
  ASSUME SegInv, ~caido, NEW p \in Programas, NEW punto \in Sueltos, NEW l, NEW u, Paso(p, punto, l, u),
         mapeos' \in Seq(Entrada), Paginadas(hojas'),
         \A q \in Cuidadosos : NoCrece(hojas, hojas', tabla[q]),
         DOMAIN l = DOMAIN LocalVacio, LocalBien(loc[p]) => LocalBien(l),
         p \in Cuidadosos => \E k \in DOMAIN tabla[p] : u = RemoveAt(tabla[p], k)
  PROVE  SegInv'
<1>1. punto \notin Mapeando
  BY DEF Sueltos, Mapeando
<1>2. p \in Cuidadosos => EnFila(hojas', u, l, punto, caido')
  <2> SUFFICES ASSUME p \in Cuidadosos PROVE EnFila(hojas', u, l, punto, caido')
    OBVIOUS
  <2>1. tabla[p] \in Seq(Segmento) /\ Ordenada(hojas, tabla[p]) /\ LocalBien(loc[p])
    BY SuFila
  <2>2. ConLargo(hojas) /\ ConLargo(hojas')
    BY SusDatos, Largos
  <2>3. Ordenada(hojas', tabla[p])
    BY <2>1, <2>2, Achica
  <2>4. PICK k \in DOMAIN tabla[p] : u = RemoveAt(tabla[p], k)
    OBVIOUS
  <2>5. u \in Seq(Segmento) /\ Ordenada(hojas', u)
    BY <2>1, <2>3, <2>4, QuitaUno
  <2>6. QED
    BY <2>1, <2>5, Suelto
<1>3. QED
  BY <1>1, <1>2, PasoSeg

LEMMA QuitarSeg ==
  ASSUME SegInv, NEW p \in Programas, Quitar(p)
  PROVE  SegInv'
<1> DEFINE a == loc[p].usa.archivo
           t == tabla[p]
           k == Min(SegmentosDe(p, a))
           u == RemoveAt(t, k)
<1>1. /\ ~caido /\ pc[p] = "quitar" /\ Responder(p)
      /\ tabla' = [tabla EXCEPT ![p] = u]
      /\ mapeos' = mapeos \/ mapeos' = SinEntrada(a)
      /\ hojas' = hojas \/ hojas' = [hojas EXCEPT ![loc[p].lista] = <<>>]
  BY DEF Quitar, Esta
<1>2. mapeos' \in Seq(Entrada)
  BY <1>1, SonEntradas, SinEntradaSeg
<1>3. Paginadas(hojas') /\ \A q \in Cuidadosos : NoCrece(hojas, hojas', tabla[q])
  <2>1. CASE hojas' = hojas
    BY <1>1, <2>1, SusDatos, SinCrecer
  <2>2. CASE hojas' = [hojas EXCEPT ![loc[p].lista] = <<>>]
    BY <2>2, VaciaLista
  <2>3. QED
    BY <1>1, <2>1, <2>2
<1>4. p \in Cuidadosos => \E j \in DOMAIN t : u = RemoveAt(t, j)
  <2> SUFFICES ASSUME p \in Cuidadosos PROVE k \in DOMAIN t
    OBVIOUS
  <2>1. Momento(hojas, t, loc[p], "quitar") /\ DOMAIN t = 1..Len(t)
    BY <1>1, SuFila
  <2>2. \E j \in DOMAIN t : t[j].mmapeado /\ t[j].archivo = a
    BY <2>1 DEF Momento, Desmapeando
  <2>3. SegmentosDe(p, a) # {} /\ SegmentosDe(p, a) \in SUBSET Nat /\ SegmentosDe(p, a) \subseteq DOMAIN t
    BY <2>1, <2>2 DEF SegmentosDe
  <2>4. QED
    BY <2>3, MinEsta
<1> HIDE DEF u
<1>5. Paso(p, "libre", LocalVacio, u) /\ "libre" \in Sueltos
  BY <1>1 DEF Responder, Ir, Paso, Sueltos
<1>6. QED
  BY <1>1, <1>2, <1>3, <1>4, <1>5, VacioBien, SaleSeg

LEMMA CerrarSeg ==
  ASSUME SegInv, NEW p \in Programas, Cerrar(p)
  PROVE  SegInv'
<1> DEFINE t == tabla[p]
           u == Tail(t)
<1>1. ~caido /\ pc[p] = "cerrar" /\ t # <<>> /\ UNCHANGED <<mapeos, hojas>>
  BY DEF Cerrar, Esta, compartidos
<1>2. mapeos' \in Seq(Entrada) /\ Paginadas(hojas') /\ \A q \in Cuidadosos : NoCrece(hojas, hojas', tabla[q])
  BY <1>1, SusDatos, SinCrecer
<1>3. DOMAIN loc[p] = DOMAIN LocalVacio
  BY SusDatos
<1>4. CASE UNCHANGED <<pc, loc>> /\ tabla' = [tabla EXCEPT ![p] = u]
  <2>1. Paso(p, "cerrar", loc[p], u) /\ "cerrar" \in Sueltos
    <3>1. pc = [pc EXCEPT ![p] = pc[p]] /\ loc = [loc EXCEPT ![p] = loc[p]]
      BY DEF SegInv, Globales
    <3>2. QED
      BY <1>1, <1>4, <3>1 DEF Paso, Sueltos
  <2>2. p \in Cuidadosos => \E j \in DOMAIN t : u = RemoveAt(t, j)
    <3> SUFFICES ASSUME p \in Cuidadosos PROVE 1 \in DOMAIN t /\ u = RemoveAt(t, 1)
      OBVIOUS
    <3>1. t \in Seq(Segmento)
      BY <1>1, SuFila
    <3>2. QED
      BY <1>1, <3>1, PrimeroSeg
  <2> HIDE DEF u
  <2>3. QED
    BY <1>1, <1>2, <1>3, <2>1, <2>2, SaleSeg
<1>5. CASE tabla' = tabla /\ \E x : Ir(p, "descontar", [loc[p] EXCEPT !.lista = x])
  <2>1. PICK x : Ir(p, "descontar", [loc[p] EXCEPT !.lista = x])
    BY <1>5
  <2> DEFINE l == [loc[p] EXCEPT !.lista = x]
  <2>2. DOMAIN l = DOMAIN LocalVacio /\ (LocalBien(loc[p]) => LocalBien(l)) /\ Ir(p, "descontar", l)
    BY <1>3, <2>1 DEF LocalVacio, LocalBien
  <2> HIDE DEF l
  <2>3. "descontar" \notin Mapeando
    BY DEF Mapeando
  <2>4. p \in Cuidadosos => LocalBien(l) /\ Momento(hojas, t, l, "descontar")
    BY <1>1, <2>2, SuFila DEF Momento, Publicando, Desmapeando
  <2>5. QED
    BY <1>1, <1>2, <1>5, <2>2, <2>3, <2>4, QuietoSeg
<1>6. QED
  BY <1>4, <1>5 DEF Cerrar

LEMMA DescontarSeg ==
  ASSUME SegInv, NEW p \in Programas, Descontar(p)
  PROVE  SegInv'
<1> DEFINE t == tabla[p]
           u == Tail(t)
           i == EntradaDeLista(loc[p].lista)
           n == mapeos[i].contador - 1
<1>1. /\ ~caido /\ pc[p] = "descontar" /\ mapeos' = [mapeos EXCEPT ![i].contador = n]
      /\ hojas' = hojas \/ hojas' = [hojas EXCEPT ![loc[p].lista] = <<>>]
      /\ \/ tabla' = tabla /\ \E x : Ir(p, "olvidar", [loc[p] EXCEPT !.lista = x])
         \/ tabla' = [tabla EXCEPT ![p] = u] /\ \E x : Ir(p, "cerrar", [loc[p] EXCEPT !.lista = x])
  BY DEF Descontar, Esta
<1>2. mapeos' \in Seq(Entrada)
  <2> HIDE DEF i
  <2>1. QED
    BY <1>1, OtraCuenta
<1>3. Paginadas(hojas') /\ \A q \in Cuidadosos : NoCrece(hojas, hojas', tabla[q])
  <2>1. CASE hojas' = hojas
    BY <1>1, <2>1, SusDatos, SinCrecer
  <2>2. CASE hojas' = [hojas EXCEPT ![loc[p].lista] = <<>>]
    BY <2>2, VaciaLista
  <2>3. QED
    BY <1>1, <2>1, <2>2
<1>4. DOMAIN loc[p] = DOMAIN LocalVacio
  BY SusDatos
<1>5. p \in Cuidadosos => t # <<>> /\ t \in Seq(Segmento)
  BY <1>1, SuFila DEF Momento
<1>6. PICK x : \/ tabla' = tabla /\ Ir(p, "olvidar", [loc[p] EXCEPT !.lista = x])
               \/ tabla' = [tabla EXCEPT ![p] = u] /\ Ir(p, "cerrar", [loc[p] EXCEPT !.lista = x])
  BY <1>1
<1> DEFINE l == [loc[p] EXCEPT !.lista = x]
<1>7. DOMAIN l = DOMAIN LocalVacio /\ (LocalBien(loc[p]) => LocalBien(l))
  BY <1>4 DEF LocalVacio, LocalBien
<1>8. CASE tabla' = tabla /\ Ir(p, "olvidar", l)
  <2> HIDE DEF l
  <2>1. "olvidar" \notin Mapeando
    BY DEF Mapeando
  <2>2. p \in Cuidadosos => LocalBien(l) /\ Momento(hojas, t, l, "olvidar")
    BY <1>1, <1>5, <1>7, SuFila DEF Momento, Publicando, Desmapeando
  <2>3. QED
    BY <1>1, <1>2, <1>3, <1>7, <1>8, <2>1, <2>2, QuietoSeg
<1>9. CASE tabla' = [tabla EXCEPT ![p] = u] /\ Ir(p, "cerrar", l)
  <2>1. p \in Cuidadosos => \E j \in DOMAIN t : u = RemoveAt(t, j)
    BY <1>5, PrimeroSeg
  <2> HIDE DEF u, l
  <2>2. Paso(p, "cerrar", l, u) /\ "cerrar" \in Sueltos
    BY <1>9 DEF Paso, Ir, Sueltos
  <2>3. QED
    BY <1>1, <1>2, <1>3, <1>7, <2>1, <2>2, SaleSeg
<1>10. QED
  BY <1>6, <1>8, <1>9

LEMMA OlvidarSeg ==
  ASSUME SegInv, NEW p \in Programas, Olvidar(p)
  PROVE  SegInv'
<1> DEFINE t == tabla[p]
           u == Tail(t)
           l == [loc[p] EXCEPT !.lista = 0]
<1>1. /\ ~caido /\ pc[p] = "olvidar" /\ mapeos' = SinEntrada(Head(t).archivo) /\ hojas' = hojas
      /\ tabla' = [tabla EXCEPT ![p] = u] /\ Ir(p, "cerrar", l)
  BY DEF Olvidar, Esta
<1>2. mapeos' \in Seq(Entrada) /\ Paginadas(hojas') /\ \A q \in Cuidadosos : NoCrece(hojas, hojas', tabla[q])
  BY <1>1, SusDatos, SinCrecer, SinEntradaSeg
<1>3. DOMAIN loc[p] = DOMAIN LocalVacio
  BY SusDatos
<1>4. DOMAIN l = DOMAIN LocalVacio /\ (LocalBien(loc[p]) => LocalBien(l))
  BY <1>3 DEF LocalVacio, LocalBien
<1>5. p \in Cuidadosos => t # <<>> /\ t \in Seq(Segmento)
  BY <1>1, SuFila DEF Momento
<1>6. p \in Cuidadosos => \E j \in DOMAIN t : u = RemoveAt(t, j)
  BY <1>5, PrimeroSeg
<1> HIDE DEF u, l
<1>7. Paso(p, "cerrar", l, u) /\ "cerrar" \in Sueltos
  BY <1>1 DEF Paso, Ir, Sueltos
<1>8. QED
  BY <1>1, <1>2, <1>4, <1>6, <1>7, SaleSeg

-----------------------------------------------------------------------------
LEMMA SegInicial == SegmentosInit => SegInv
<1> SUFFICES ASSUME SegmentosInit PROVE SegInv
  OBVIOUS
<1>1. /\ tabla = [p \in Programas |-> <<>>] /\ mapeos = <<>> /\ hojas = [l \in 1..Listas |-> <<>>]
      /\ pc = [p \in Programas |-> "nuevo"] /\ loc = [p \in Programas |-> LocalVacio]
  BY DEF SegmentosInit
<1>2. Globales
  <2>1. /\ pc \in [Programas -> Range(pc)] /\ loc \in [Programas -> Range(loc)]
        /\ tabla \in [Programas -> Range(tabla)]
    BY <1>1 DEF Range
  <2>2. DOMAIN hojas = 1..Listas /\ (\A l \in 1..Listas : \E S : hojas[l] \in Seq(S))
    <3>1. \A l \in 1..Listas : hojas[l] \in Seq({})
      BY <1>1
    <3>2. QED
      BY <1>1, <3>1
  <2>3. mapeos \in Seq(Entrada)
    BY <1>1
  <2>4. \A p \in Programas : DOMAIN loc[p] = DOMAIN LocalVacio /\ pc[p] \notin Mapeando
    BY <1>1 DEF Mapeando
  <2>5. QED
    BY <2>1, <2>2, <2>3, <2>4 DEF Globales
<1>3. ASSUME NEW p \in Cuidadosos PROVE EnFila(hojas, tabla[p], loc[p], pc[p], caido)
  <2>1. p \in Programas
    BY SegmentosSupuesto
  <2>2. tabla[p] = <<>> /\ loc[p] = LocalVacio /\ pc[p] = "nuevo"
    BY <1>1, <2>1
  <2>3. tabla[p] \in Seq(Segmento) /\ Ordenada(hojas, tabla[p])
    BY <2>2 DEF Ordenada
  <2>4. "nuevo" \in Sueltos
    BY DEF Sueltos
  <2>5. QED
    BY <2>2, <2>3, <2>4, Suelto, VacioBien
<1>4. QED
  BY <1>2, <1>3 DEF SegInv

LEMMA PasoSegTodo == SegInv /\ [ProgramasNext]_segmentosVars => SegInv'
<1> SUFFICES ASSUME SegInv, [ProgramasNext]_segmentosVars PROVE SegInv'
  OBVIOUS
<1>1. CASE UNCHANGED segmentosVars
  BY <1>1, IgualesSeg DEF segmentosVars
<1>2. ASSUME NEW p \in Programas, Pedir(p) PROVE SegInv'
  <2>1. CASE CopiarAlHeap(p)
    BY <2>1, IgualesSeg DEF CopiarAlHeap, compartidos
  <2>2. QED
    BY <1>2, <2>1, EmpezarAllocSeg, EmpezarFreeSeg, EmpezarMapaSeg, EmpezarUnmapSeg, AccesoSeg DEF Pedir
<1>3. ASSUME NEW p \in Programas, AtenderHeap(p) PROVE SegInv'
  BY <1>3, DecidirSeg, OcuparSeg, RevisarSeg, ReservarSeg, SinLiberadasSeg, AmpliarSeg, JuntarSeg, RenumerarSeg
     DEF AtenderHeap
<1>4. ASSUME NEW p \in Programas, Atender(p) PROVE SegInv'
  BY <1>3, <1>4, MapaTablaSeg, BuscarSeg, PublicarSeg, AccesoSeg, BajarSeg, QuitarSeg, CerrarSeg, DescontarSeg, OlvidarSeg
     DEF Atender
<1>5. QED
  BY <1>1, <1>2, <1>4 DEF ProgramasNext

(* The segments of a program that asks only for what MUSE serves are apart. *)
SegmentosApartados(p) ==
  \A j, k \in DOMAIN tabla[p] : j < k =>
    tabla[p][j].base + PaginasDe(tabla[p][j]) * TamPag <= tabla[p][k].base

LEMMA SegBasta ==
  ASSUME SegInv, NEW p \in Cuidadosos
  PROVE  /\ SegmentosApartados(p)
         /\ \A k \in 2..Len(tabla[p]) : tabla[p][k - 1].base + PaginasDe(tabla[p][k - 1]) * TamPag <= tabla[p][k].base
<1> DEFINE t == tabla[p]
<1>1. t \in Seq(Segmento) /\ Ordenada(hojas, t) /\ ConLargo(hojas)
  BY Largos DEF SegInv, EnFila, Globales, Paginadas
<1>2. DOMAIN t = 1..Len(t) /\ Len(t) \in Nat /\ \A k \in DOMAIN t : t[k] \in Segmento
  BY <1>1, UnaTabla
<1>3. ASSUME NEW j \in DOMAIN t
      PROVE  t[j].base + PaginasDe(t[j]) * TamPag <= Hasta(hojas, t[j]) /\ PaginasDe(t[j]) * TamPag \in Nat
  <2> DEFINE s == t[j]
  <2>1. s \in Segmento /\ s.base \in Nat /\ TamPag \in Nat
    BY <1>2, CualEs, SegmentosSupuesto
  <2>2. CASE s.mmapeado
    <3>1. Len(hojas[s.lista]) \in Nat
      BY <1>1, <2>1, <2>2, CualEs DEF ConLargo
    <3>2. PaginasDe(s) = Len(hojas[s.lista]) /\ Hasta(hojas, s) = s.base + PaginasDe(s) * TamPag
      BY <2>2 DEF PaginasDe, Hasta
    <3> DEFINE m == PaginasDe(s) * TamPag
    <3>3. m \in Nat
      BY <2>1, <3>1, <3>2, ProductoNat
    <3> HIDE DEF m, s
    <3>4. s.base + m <= Hasta(hojas, s)
      BY <2>1, <3>2, <3>3 DEF m
    <3>5. QED
      BY <3>3, <3>4 DEF m, s
  <2>3. CASE ~s.mmapeado
    <3>1. s.paginas \in Nat /\ s.liberadas \in Nat
      BY <2>1, <2>3, CualEs
    <3> DEFINE a == s.paginas
               b == s.paginas + s.liberadas
               m == a * TamPag
               n == b * TamPag
    <3>2. PaginasDe(s) = a /\ Hasta(hojas, s) = s.base + n
      BY <2>3 DEF PaginasDe, Hasta
    <3>3. a \in Nat /\ b \in Nat /\ a <= b
      BY <3>1
    <3> HIDE DEF a, b
    <3>4. m \in Nat /\ n \in Nat /\ m <= n
      BY <2>1, <3>3, ProductoNat
    <3> HIDE DEF m, n, s
    <3>5. s.base + m <= s.base + n
      BY <2>1, <3>4
    <3>6. PaginasDe(s) * TamPag = m
      BY <3>2 DEF m
    <3>7. QED
      BY <3>2, <3>4, <3>5, <3>6 DEF s
  <2>4. QED
    BY <2>2, <2>3
<1>4. ASSUME NEW j \in DOMAIN t, NEW k \in DOMAIN t, j < k
      PROVE  t[j].base + PaginasDe(t[j]) * TamPag <= t[k].base
  <2>1. Hasta(hojas, t[j]) <= t[k].base
    BY <1>1, <1>4 DEF Ordenada
  <2>2. Hasta(hojas, t[j]) \in Nat /\ t[k].base \in Nat /\ t[j].base \in Nat
    BY <1>1, <1>2, HastaNat, CualEs DEF ConLargo
  <2> DEFINE m == PaginasDe(t[j]) * TamPag
  <2>3. t[j].base + m <= Hasta(hojas, t[j]) /\ m \in Nat
    BY <1>3
  <2> HIDE DEF m
  <2>4. t[j].base + m <= t[k].base
    BY <2>1, <2>2, <2>3
  <2>5. QED
    BY <2>4 DEF m
<1>5. \A k \in 2..Len(t) : k \in DOMAIN t /\ k - 1 \in DOMAIN t /\ k - 1 < k
  BY <1>2
<1>6. QED
  BY <1>4, <1>5 DEF SegmentosApartados

(* muse_alloc and muse_map put each segment after all of the others, whatever was taken *)
(* back and grown before: in every program that asks only for what MUSE serves, and      *)
(* whatever the other programs ask for.                                               *)
THEOREM SegmentosApartadosSiempre ==
  ProgramasSpec => [](\A p \in Cuidadosos : SegmentosApartados(p))
<1> DEFINE Apartados == \A p \in Cuidadosos : SegmentosApartados(p)
<1>1. SegInv => Apartados
  BY SegBasta
<1> HIDE DEF Apartados
<1>2. ProgramasSpec => []SegInv
  BY SegInicial, PasoSegTodo, PTL DEF ProgramasSpec
<1>3. ProgramasSpec => []Apartados
  BY <1>1, <1>2, PTL
<1>4. QED
  BY <1>3 DEF Apartados

(* So, when all the programs ask only for that, no segment of any is over the next. *)
THEOREM SegmentosDisjuntosConCuidado == TodosCuidadosos => (ProgramasSpec => []SegmentosDisjuntos)
<1> SUFFICES ASSUME TodosCuidadosos PROVE ProgramasSpec => []SegmentosDisjuntos
  OBVIOUS
<1>1. SegInv => SegmentosDisjuntos
  BY SegBasta DEF SegmentosDisjuntos, TodosCuidadosos
<1>2. QED
  BY <1>1, SegInicial, PasoSegTodo, PTL DEF ProgramasSpec

=============================================================================
