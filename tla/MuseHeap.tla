------------------------------- MODULE MuseHeap -------------------------------
(***************************************************************************)
(* muse_alloc, muse_free and muse_cpy on the segments of heap.  A program's   *)
(* segments are its handler's alone: what the handlers share is the room      *)
(* left, so an action is a section of mutex_lugar_disponible with what the    *)
(* handler does by itself up to the next one.                               *)
(***************************************************************************)
EXTENDS MuseSegmentos

(* heap_lista *)
Heap(dir, espacio, libre, indice) ==
  [dir |-> dir, espacio |-> espacio, libre |-> libre, indice |-> indice]

(* Some metadata, or a copy, is written over cells of a segment: what a block held *)
(* there is lost.                                                               *)
Pisados(bloques, base, desde, n) ==
  {IF b.base = base /\ b.estado = "escrito" /\ b.dir < base + desde + n /\ base + desde < b.dir + b.tam
   THEN [b EXCEPT !.estado = "perdido"] ELSE b : b \in bloques}

(* A block is given. *)
ConBloque(bloques, base, dir, t) ==
  bloques \cup {[base |-> base, dir |-> base + TamMeta + dir, tam |-> t, estado |-> "nuevo"]}

Cruza(dir) == dir % TamPag > TamPag - TamMeta

-----------------------------------------------------------------------------
(* A segment gets its first block, and the rest of its last page is free. *)
SegmentoNuevo(base, t, n) ==
  [mmapeado |-> FALSE, base |-> base, tamanio |-> n * TamPag, paginas |-> n, liberadas |-> 0,
   heaps |-> <<Heap(0, t, FALSE, 0), Heap(t + TamMeta, n * TamPag - t - 2 * TamMeta, TRUE, 1)>>]

PedirSegmento(p) ==
  Ir(p, "reservar", [loc[p] EXCEPT !.seg = 0, !.n = Hojas(loc[p].t + 2 * TamMeta)])

Entra(h, n) == h.libre /\ SinSigno(h.espacio) >= n
ConEspacio(p, t) ==
  SelectInSeq(tabla[p], LAMBDA s : ~s.mmapeado /\ \E i \in DOMAIN s.heaps : Entra(s.heaps[i], t + TamMeta))

Decidir(p) ==
  /\ Esta(p, "alloc") /\ SeccionProgramas /\ ConEspacio(p, loc[p].t) = 0
  /\ IF tabla[p] = <<>> THEN PedirSegmento(p)
     ELSE Ir(p, "revisar", [loc[p] EXCEPT !.seg = 1])
  /\ UNCHANGED <<lugar, tabla, compartidos, candados, dado, caido>>

(* The segment has a hole with room for the metadata that goes after the block; the *)
(* first hole with room for the block is taken.                                    *)
HuecoDe(s, t) == SelectInSeq(s.heaps, LAMBDA h : Entra(h, t))

Partir_SinMeta(s, i, t) ==
  LET h == s.heaps[i] IN
  [s EXCEPT !.heaps = InsertAt([@ EXCEPT ![i].espacio = t, ![i].libre = FALSE], h.indice + 2,
                        Heap(h.dir + t, h.espacio - t, TRUE, h.indice + 1))]
Partir(s, i, t) ==
  LET h == s.heaps[i] IN
  [s EXCEPT !.heaps = InsertAt([@ EXCEPT ![i].espacio = t, ![i].libre = FALSE], h.indice + 2,
                        Heap(h.dir + t + TamMeta, h.espacio - t - TamMeta, TRUE, h.indice + 1))]

(* The second metadata, when it does not cross pages, are written at the offset of  *)
(* the first: past the frame, if those cross.                                      *)
DirFinal(dir, t) ==
  LET final == dir + t + TamMeta IN
  IF Cruza(final) THEN final ELSE (final \div TamPag) * TamPag + (dir % TamPag)

Ocupar(p) ==
  LET t  == loc[p].t
      k  == ConEspacio(p, t)
      s  == tabla[p][k]
      i  == HuecoDe(s, t)
      d  == s.heaps[i].dir
      escritos == Pisados(Pisados(dado[p], s.base, d, TamMeta), s.base, DirFinal(d, t), TamMeta)
  IN
  /\ Esta(p, "alloc") /\ SeccionProgramas /\ k # 0
  /\ tabla' = [tabla EXCEPT ![p][k] = Partir(s, i, t)]
  /\ dado' = [dado EXCEPT ![p] = ConBloque(escritos, s.base, d, t)]
  /\ caido' = (Cruza(DirFinal(d, t)) /\ ~Cruza(d + t + TamMeta))
  /\ Responder(p)
  /\ UNCHANGED <<lugar, compartidos, candados>>

-----------------------------------------------------------------------------
(* buscar_segmento_con_paginas_liberadas: a segment that was left with no metadata  *)
(* gets a page again, though paginas_liberadas and tamanio stay.                   *)
Rearmado(s) == [s EXCEPT !.paginas = @ + 1, !.heaps = <<Heap(0, TamPag - TamMeta, TRUE, 0)>>]

LugarTras_SinTomarlo(rearma) == lugar
LugarTras(rearma) == IF rearma THEN lugar - TamPag ELSE lugar

HojasQueFaltan(s, t) == Hojas(t + TamMeta - Last(s.heaps).espacio)
Sirve_SinContar(s, t) == ~s.mmapeado /\ s.heaps # <<>>
Sirve(s, t) == ~s.mmapeado /\ s.heaps # <<>> /\ s.liberadas >= HojasQueFaltan(s, t)

Revisar(p) ==
  LET l      == loc[p]
      s      == tabla[p][l.seg]
      rearma == ~s.mmapeado /\ s.heaps = <<>> /\ lugar >= TamPag
      nuevo  == IF rearma THEN Rearmado(s) ELSE s
  IN
  /\ Esta(p, "revisar") /\ l.seg <= Len(tabla[p])
  /\ lugar' = LugarTras(rearma)
  /\ tabla' = [tabla EXCEPT ![p][l.seg] = nuevo]
  /\ IF Sirve(nuevo, l.t) THEN Ir(p, "reservar", [l EXCEPT !.n = HojasQueFaltan(nuevo, l.t)])
     ELSE Ir(p, "revisar", [l EXCEPT !.seg = @ + 1])
  /\ UNCHANGED <<compartidos, candados, dado, caido>>

(* The pages go back to the end of the segment. *)
ConLiberadas(s, n, t) ==
  LET h == Last(s.heaps)
      d == h.dir + TamMeta + t
  IN  [s EXCEPT !.paginas = @ + n, !.liberadas = @ - n, !.tamanio = (s.paginas + n) * TamPag,
                !.heaps = Append(Front(@) \o <<Heap(h.dir, t, FALSE, h.indice)>>,
                                 Heap(d, TamPag - ((d + TamMeta) % TamPag), TRUE, h.indice + 1))]

Reservar(p) ==
  LET l  == loc[p]
      s  == IF l.seg = 0 THEN SegmentoNuevo(BaseNueva(p), l.t, l.n)
            ELSE ConLiberadas(tabla[p][l.seg], l.n, l.t)
      d  == s.heaps[Len(s.heaps) - 1].dir
      d2 == Last(s.heaps).dir
  IN
  /\ Esta(p, "reservar")
  /\ IF lugar < l.n * TamPag THEN UNCHANGED <<lugar, tabla, dado>>
     ELSE /\ lugar' = lugar - l.n * TamPag
          /\ tabla' = IF l.seg = 0 THEN [tabla EXCEPT ![p] = Append(@, s)]
                      ELSE [tabla EXCEPT ![p][l.seg] = s]
          /\ dado' = [dado EXCEPT ![p] =
               ConBloque(Pisados(Pisados(@, s.base, d, TamMeta), s.base, d2, TamMeta), s.base, d, l.t)]
  /\ Responder(p)
  /\ UNCHANGED <<compartidos, candados, caido>>

-----------------------------------------------------------------------------
(* No segment has enough pages to take back: a new one after a mapping, or more     *)
(* pages for the last one, whose last metadata are marked before there is room.     *)
SinLiberadas(p) ==
  LET s == Last(tabla[p]) IN
  /\ Esta(p, "revisar") /\ loc[p].seg > Len(tabla[p])
  /\ caido' = (~s.mmapeado /\ s.heaps = <<>>)
  /\ IF s.mmapeado THEN PedirSegmento(p) ELSE Ir(p, "ampliar", loc[p])
  /\ tabla' = IF s.mmapeado \/ s.heaps = <<>> THEN tabla
              ELSE [tabla EXCEPT ![p][Len(tabla[p])].heaps[Len(s.heaps)].libre = FALSE]
  /\ UNCHANGED <<lugar, compartidos, candados, dado>>

(* The new metadata go where the last ones say, in the list and in memory; the last *)
(* ones are written a page after them.                                            *)
Ampliado(s, n, t) ==
  LET h == Last(s.heaps) IN
  [s EXCEPT !.paginas = @ + n, !.tamanio = @ + n * TamPag,
            !.heaps = InsertAt(Front(@) \o <<[h EXCEPT !.espacio = t]>>, h.indice + 2,
                        Heap(h.dir + t + TamMeta, n * TamPag - t - TamMeta + h.espacio, TRUE,
                             h.indice + 1))]

PaginaTecho(dir) == (dir + TamPag - 1) \div TamPag

Ampliar(p) ==
  LET l     == loc[p]
      k     == Len(tabla[p])
      s     == tabla[p][k]
      h     == Last(s.heaps)
      n     == Hojas(l.t + TamMeta - h.espacio)
      viejo == PaginaTecho(h.dir) * TamPag + (h.dir % TamPag)
      escritos == Pisados(Pisados(dado[p], s.base, h.dir + l.t + TamMeta, TamMeta), s.base, viejo, TamMeta)
  IN
  /\ Esta(p, "ampliar")
  /\ IF lugar < SinSigno(n * TamPag) THEN UNCHANGED <<lugar, tabla, dado, caido>>
     ELSE /\ lugar' = lugar - SinSigno(n * TamPag)
          /\ caido' = (n * TamPag >= Palabra \/ viejo + TamMeta > (s.paginas + n) * TamPag)
          /\ tabla' = IF caido' THEN tabla ELSE [tabla EXCEPT ![p][k] = Ampliado(s, n, l.t)]
          /\ dado' = [dado EXCEPT ![p] = ConBloque(escritos, s.base, h.dir, l.t)]
  /\ Responder(p)
  /\ UNCHANGED <<compartidos, candados>>

-----------------------------------------------------------------------------
(* From the last metadata to the first, each that is free goes with the one before  *)
(* it.  It is taken out of the list by its index, which only the end of a free       *)
(* brings up to date.                                                            *)
SinHeap(heaps, h) == RemoveAt(heaps, h.indice + 1)

(* The only one: the segment is left with no pages. *)
SinPaginas(s) ==
  [s EXCEPT !.paginas = 0, !.liberadas = @ + s.paginas, !.tamanio = 0, !.heaps = <<>>]

(* The last two: the pages after the first of them go. *)
PaginaDelAnterior(ant) == (ant.dir + TamMeta) \div TamPag
SinCola(s, i) ==
  LET ant     == s.heaps[i - 1]
      quedan  == Min({s.paginas, PaginaDelAnterior(ant) + 1})
      espacio == TamPag - (ant.dir % TamPag) - TamMeta
  IN  [s EXCEPT !.paginas = quedan, !.liberadas = @ + s.paginas - quedan,
                !.tamanio = quedan * TamPag,
                !.heaps = SinHeap([@ EXCEPT ![i - 1].espacio = espacio], s.heaps[i])]

Fundidos(s, i) ==
  LET espacio == s.heaps[i - 1].espacio + TamMeta + s.heaps[i].espacio
  IN  [s EXCEPT !.heaps = SinHeap([@ EXCEPT ![i - 1].espacio = espacio], s.heaps[i])]

Juntar(p) ==
  LET l      == loc[p]
      s      == tabla[p][l.seg]
      i      == l.n
      unico  == Len(s.heaps) = 1
      dos    == ~unico /\ i > 1 /\ s.heaps[i - 1].libre
      nuevo  == IF ~s.heaps[i].libre THEN s
                ELSE IF unico THEN SinPaginas(s)
                ELSE IF ~dos THEN s
                ELSE IF i = Len(s.heaps) THEN SinCola(s, i) ELSE Fundidos(s, i)
  IN
  /\ Esta(p, "juntar") /\ i > 0
  /\ tabla' = [tabla EXCEPT ![p][l.seg] = nuevo]
  /\ lugar' = lugar + (s.paginas - nuevo.paginas) * TamPag
  /\ dado' = [dado EXCEPT ![p] =
       IF s.heaps[i].libre /\ dos THEN Pisados(@, s.base, s.heaps[i - 1].dir, TamMeta) ELSE @]
  /\ Ir(p, "juntar", [l EXCEPT !.n = i - 1])
  /\ UNCHANGED <<compartidos, candados, caido>>

Renumerar(p) ==
  /\ Esta(p, "juntar") /\ loc[p].n = 0
  /\ tabla' = [tabla EXCEPT ![p][loc[p].seg].heaps =
                 [i \in DOMAIN @ |-> [@[i] EXCEPT !.indice = i - 1]]]
  /\ Responder(p)
  /\ UNCHANGED <<lugar, compartidos, candados, dado, caido>>

-----------------------------------------------------------------------------
(* muse_cpy of all of a block.  The client does not learn that it failed. *)
Contiene(h, desde) == ~h.libre /\ h.dir + TamMeta <= desde /\ desde < h.dir + TamMeta + h.espacio
Acepta(s, desde, n) ==
  LET i == SelectInSeq(s.heaps, LAMBDA h : Contiene(h, desde)) IN
  i # 0 /\ desde + n <= s.heaps[i].dir + TamMeta + s.heaps[i].espacio

CopiarAlHeap(p) ==
  /\ Esta(p, "libre") /\ SeccionProgramas
  /\ \E b \in dado[p] :
       LET k   == SegDe(p, b.dir)
           s   == tabla[p][k]
           hay == k # 0 /\ ~s.mmapeado /\ Acepta(s, b.dir - s.base, b.tam)
           bs  == IF hay THEN Pisados(dado[p], s.base, b.dir - s.base, b.tam) ELSE dado[p]
       IN dado' = [dado EXCEPT ![p] = (bs \ {c \in bs : c.dir = b.dir})
                     \cup {[b EXCEPT !.estado = IF hay THEN "escrito" ELSE "perdido"]}]
  /\ UNCHANGED <<lugar, tabla, compartidos, candados, pc, loc, caido>>

-----------------------------------------------------------------------------
(* What a careful program asks for: what MUSE serves well.  The README tells what    *)
(* goes wrong otherwise.                                                          *)
IndiceAlDia(s, i) == s.heaps[i].indice = i - 1

(* A hole with room for the metadata that follow, of an index that is right, and those *)
(* metadata where no block is.                                                     *)
HuecoServido(p, s, t) ==
  LET i == HuecoDe(s, t)
      d == s.heaps[i].dir
      f == DirFinal(d, t)
  IN
  /\ s.heaps[i].espacio >= t + TamMeta
  /\ IndiceAlDia(s, i)
  /\ Cruza(f) => Cruza(d + t + TamMeta)
  /\ Pisados(dado[p], s.base, f, TamMeta) = dado[p]

(* The pages taken back leave the last metadata room. *)
LiberadasServidas(s, t) == (Last(s.heaps).dir + t + 2 * TamMeta) % TamPag # 0

(* A segment with nothing left takes back pages for all the request; it is the last one, *)
(* for of its pages paginas_liberadas counts one too many.                            *)
RearmeServido(p, k, t) ==
  LET s == Rearmado(tabla[p][k])
      n == HojasQueFaltan(s, t)
  IN
  /\ n <= s.liberadas /\ (1 + n) * TamPag <= lugar /\ LiberadasServidas(s, t)
  /\ k = Len(tabla[p])

AmpliacionServida(s, t) ==
  LET h == Last(s.heaps) IN t + TamMeta > h.espacio /\ IndiceAlDia(s, Len(s.heaps))

(* Taking back the pages of an emptied segment is not one step: nobody else takes    *)
(* room in between.                                                                *)
Vaciado(p)   == \E s \in Range(tabla[p]) : s.tamanio = 0
PideLugar    == {"alloc", "revisar", "reservar", "ampliar", "mapear"}
SinDisputa(p) == \A q \in Programas \ {p} : pc[q] \in PideLugar => ~Vaciado(p) /\ ~Vaciado(q)

AllocServido(p, t) ==
  LET k == ConEspacio(p, t)
      r == SelectInSeq(tabla[p], LAMBDA s : ~s.mmapeado /\ s.heaps = <<>>)
      l == SelectInSeq(tabla[p], LAMBDA s : Sirve(s, t))
      u == Last(tabla[p])
  IN
  /\ SinDisputa(p)
  /\ IF tabla[p] = <<>> THEN TRUE
     ELSE IF k # 0 THEN HuecoServido(p, tabla[p][k], t)
     ELSE IF r # 0 THEN RearmeServido(p, r, t)
     ELSE IF l # 0 THEN LiberadasServidas(tabla[p][l], t)
     ELSE ~u.mmapeado => AmpliacionServida(u, t)

(* The metadata that will go with the ones before have their index right. *)
FreeServido(p, b) ==
  LET s == tabla[p][SegDe(p, b.dir)]
      Quedara(i) == s.heaps[i].libre \/ s.heaps[i].dir + TamMeta = b.dir - s.base
  IN  \A i \in 2..Len(s.heaps) : Quedara(i - 1) /\ Quedara(i) => IndiceAlDia(s, i)

(* muse_alloc with too little room left answers an error and changes nothing. *)
EmpezarAlloc(p) ==
  /\ Esta(p, "libre")
  /\ \E t \in Tamanios[p] :
       /\ t + TamMeta <= lugar /\ (p \in Cuidadosos => AllocServido(p, t))
       /\ Ir(p, "alloc", [LocalVacio EXCEPT !.clase = "heap", !.t = t])
  /\ UNCHANGED <<lugar, tabla, compartidos, candados, dado, caido>>

(* muse_free of a block; with no such block the client is killed, as in Morir. *)
EmpezarFree(p) ==
  /\ Esta(p, "libre") /\ SeccionProgramas
  /\ \A s \in Range(tabla[p]) : Liberadas(s) + PaginasDe(s) <= LiberadasMax
  /\ \E b \in {b \in dado[p] : p \in Cuidadosos => FreeServido(p, b)} :
       LET k == SegDe(p, b.dir)
           s == tabla[p][k]
           i == IF k = 0 \/ s.mmapeado THEN 0
                ELSE SelectInSeq(s.heaps, LAMBDA h : h.dir + TamMeta = b.dir - s.base)
       IN
       /\ i # 0
       /\ Ir(p, "juntar", [LocalVacio EXCEPT !.clase = "heap", !.seg = k, !.n = Len(s.heaps)])
       /\ tabla' = [tabla EXCEPT ![p][k].heaps[i].libre = TRUE]
       /\ dado' = [dado EXCEPT ![p] = Pisados(@ \ {b}, s.base, s.heaps[i].dir, TamMeta)]
  /\ UNCHANGED <<lugar, compartidos, candados, caido>>

AtenderHeap(p) ==
  \/ Decidir(p) \/ Ocupar(p) \/ Revisar(p) \/ Reservar(p) \/ SinLiberadas(p) \/ Ampliar(p)
  \/ Juntar(p) \/ Renumerar(p)

=============================================================================
