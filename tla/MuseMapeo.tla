------------------------------ MODULE MuseMapeo ------------------------------
(***************************************************************************)
(* The mapped files of MUSE: muse_map, muse_unmap, muse_sync, and muse_get    *)
(* and muse_cpy on a mapping; muse_close, which drops the mappings.  Programs  *)
(* that map one file share the list of its pages, the entry of                *)
(* tabla_de_mapeo and the file, so a step is a section of a mutex or what     *)
(* touches one page.                                                        *)
(***************************************************************************)
EXTENDS MuseSegmentos, FiniteSets

PaginasDelArchivo(a) == (Largo[a] + TamPag - 1) \div TamPag
SegmentosDe(p, a) == {k \in DOMAIN tabla[p] : tabla[p][k].mmapeado /\ tabla[p][k].archivo = a}
EntradasDe(a)     == {i \in DOMAIN mapeos : mapeos[i].archivo = a}
EntradaDeLista(l) == SelectInSeq(mapeos, LAMBDA m : m.lista = l)

Cargado(l) == \A i \in DOMAIN hojas[l] : hojas[l][i] # Nada

(* What each handler is at, and with which files. *)
Accesos == {"get", "cpy", "sync"}
EnObra(q) ==
  IF loc[q].clase = "close" THEN {tabla[q][k].archivo : k \in {k \in DOMAIN tabla[q] : tabla[q][k].mmapeado}}
  ELSE IF loc[q].usa = Nada THEN {} ELSE {loc[q].usa.archivo}

(* Careful programs agree not to make these at once on one file. *)
Opuestas == {{"map"}, {"map", "close"}, {"sync", "cpy"}}
ACargar(a) == \E q \in Programas :
  (pc[q] = "traer" /\ a \in EnObra(q)) \/ \E k \in SegmentosDe(q, a) : ~Cargado(tabla[q][k].lista)
Choca(p, clase, a) ==
  p \in Cuidadosos /\ \E q \in Programas \ {p} :
    /\ a \in EnObra(q)
    /\ \/ {clase, loc[q].clase} \in Opuestas
       \/ {clase, loc[q].clase} \subseteq Accesos /\ ACargar(a)

(* Nor an unmap with a close, of any files: each may hold what the other waits for.   *)
Mapea(p) == \E k \in DOMAIN tabla[p] : tabla[p][k].mmapeado
SeTraban(p, clase) ==
  p \in Cuidadosos /\ \E q \in Programas \ {p} : Mapea(q) /\ loc[q].clase = clase

-----------------------------------------------------------------------------
(* muse_map: the room, where the segment goes, and its pages. *)
EmpezarMapa(p) ==
  /\ Esta(p, "libre")
  /\ \E u \in Usa[p] :
       LET bytes == PaginasDelArchivo(u.archivo) * TamPag IN
       /\ bytes <= lugar /\ ~Choca(p, "map", u.archivo)
       /\ p \in Repiten \/ SegmentosDe(p, u.archivo) = {}
       /\ lugar' = lugar - bytes
       /\ Ir(p, "mapear", [LocalVacio EXCEPT !.clase = "map", !.usa = u])
  /\ UNCHANGED <<tabla, compartidos, candados, dado, caido>>

MapaTabla(p) ==
  /\ Esta(p, "mapear") /\ SeccionProgramas
  /\ Ir(p, IF loc[p].usa.compartido THEN "buscar_mapeo" ELSE "publicar",
        [loc[p] EXCEPT !.base = BaseNueva(p)])
  /\ UNCHANGED <<lugar, tabla, compartidos, candados, dado, caido>>

SegmentoMapeado(p, l) ==
  [mmapeado |-> TRUE, base |-> loc[p].base, archivo |-> loc[p].usa.archivo, lista |-> l,
   tamanio |-> PaginasDelArchivo(loc[p].usa.archivo) * TamPag]

(* buscar_mapeo_existente counts itself in every entry of the file, private or not, *)
(* and takes the pages of the last one.                                           *)
Contada_SinContar(m) == m
Contada(m) == [m EXCEPT !.contador = @ + 1]

BuscarMapeo(p) ==
  LET a  == loc[p].usa.archivo
      es == EntradasDe(a)
  IN
  /\ Esta(p, "buscar_mapeo") /\ SeccionMapeo
  /\ mapeos' = [i \in DOMAIN mapeos |-> IF i \in es THEN Contada(mapeos[i]) ELSE mapeos[i]]
  /\ IF es = {} THEN Ir(p, "publicar", loc[p]) /\ UNCHANGED tabla
     ELSE /\ tabla' = [tabla EXCEPT ![p] = Append(@, SegmentoMapeado(p, mapeos[Max(es)].lista))]
          /\ Responder(p)
  /\ UNCHANGED <<lugar, hojas, archivo, candados, dado, caido>>

ListasEnUso ==
  {mapeos[i].lista : i \in DOMAIN mapeos}
    \cup UNION {{tabla[p][k].lista : k \in {k \in DOMAIN tabla[p] : tabla[p][k].mmapeado}} : p \in Programas}
ListasLibres == (1..Listas) \ ListasEnUso

(* Between the search and this another program may have published the same file. *)
Publicar(p) ==
  LET a == loc[p].usa.archivo
      l == Min(ListasLibres)
  IN
  /\ Esta(p, "publicar") /\ SeccionMapeo /\ ListasLibres # {}
  /\ hojas' = [hojas EXCEPT ![l] = [i \in 1..PaginasDelArchivo(a) |-> Nada]]
  /\ tabla' = [tabla EXCEPT ![p] = Append(@, SegmentoMapeado(p, l))]
  /\ mapeos' = Append(mapeos, [archivo |-> a, contador |-> 1, lista |-> l])
  /\ Responder(p)
  /\ UNCHANGED <<lugar, archivo, candados, dado, caido>>

-----------------------------------------------------------------------------
(* muse_get, muse_cpy and muse_sync of a piece of a mapping.  A careful program     *)
(* takes all of a file at once when nobody has, and does not copy up to the end of   *)
(* its last page, for muse_cpy looks at the page after.                             *)
Inicial(trozo) == trozo[1] \div TamPag
Final(trozo)   == (trozo[1] + trozo[2] + TamPag - 1) \div TamPag - 1
FinalDe(clase, trozo) ==
  IF clase = "cpy" THEN (trozo[1] + trozo[2]) \div TamPag ELSE Final(trozo)

AccesoServido(clase, trozo, s) ==
  /\ ~Cargado(s.lista) => trozo = <<0, Largo[s.archivo]>>
  /\ FinalDe(clase, trozo) < Len(hojas[s.lista])

EmpezarAcceso(p) ==
  /\ Esta(p, "libre") /\ SeccionProgramas
  /\ \E clase \in Accesos, trozo \in Trozos, k \in {k \in DOMAIN tabla[p] : tabla[p][k].mmapeado},
        v \in Valores \cup {Nada} :
       LET s == tabla[p][k] IN
       /\ (v # Nada) = (clase = "cpy")
       /\ trozo[1] + trozo[2] <= Largo[s.archivo]
       /\ ~Choca(p, clase, s.archivo) /\ (p \in Cuidadosos => AccesoServido(clase, trozo, s))
       /\ Ir(p, "cargar", [LocalVacio EXCEPT !.clase = clase, !.trozo = trozo, !.lista = s.lista,
                             !.usa = [archivo |-> s.archivo, compartido |-> TRUE], !.valor = v])
  /\ UNCHANGED <<lugar, tabla, compartidos, candados, dado, caido>>

(* paginas_de_map_en_memoria reads as many pages of the file as the piece has, from   *)
(* the start of the file.                                                         *)
Trozo(p) == Inicial(loc[p].trozo)..Final(loc[p].trozo)
Hoja(p)  == hojas[loc[p].lista][loc[p].hoja + 1]

Leido(a, n) == SubSeq(archivo[a], 1, Min({n, Len(archivo[a])}))

Cargar(p) ==
  LET l     == loc[p]
      falta == \E i \in Trozo(p) : hojas[l.lista][i + 1] = Nada
  IN
  /\ Esta(p, "cargar")
  /\ Ir(p, IF falta THEN "traer" ELSE "tocar",
        [l EXCEPT !.hoja = Inicial(l.trozo),
                  !.buffer = IF falta THEN Leido(l.usa.archivo, Cardinality(Trozo(p)) * TamPag) ELSE <<>>])
  /\ UNCHANGED <<lugar, tabla, compartidos, candados, dado, caido>>

(* A page is in memory, with what its frame had, before it gets what it should.     *)
Marcar(p) ==
  /\ Esta(p, "traer") /\ loc[p].hoja \in Trozo(p) /\ Hoja(p) = Nada
  /\ hojas' = [hojas EXCEPT ![loc[p].lista][loc[p].hoja + 1] = [c \in 1..TamPag |-> "basura"]]
  /\ Ir(p, "traer", [loc[p] EXCEPT !.hojaMarcada = TRUE])
  /\ UNCHANGED <<lugar, tabla, mapeos, archivo, candados, dado, caido>>

Del(buffer, i) == IF i \in DOMAIN buffer THEN buffer[i] ELSE "basura"
Pegada_SinAvanzar(p) == [c \in 1..TamPag |-> Del(loc[p].buffer, c)]
Pegada(p) ==
  LET l       == loc[p]
      ultima  == l.hoja + 1 = Len(hojas[l.lista])
      relleno == IF ultima THEN (Final(l.trozo) + 1) * TamPag - l.trozo[1] - l.trozo[2] ELSE 0
  IN  [c \in 1..TamPag |->
        IF c > TamPag - relleno THEN "cero" ELSE Del(l.buffer, l.hoja * TamPag + c)]

Pegar(p) ==
  /\ Esta(p, "traer") /\ loc[p].hojaMarcada
  /\ hojas' = [hojas EXCEPT ![loc[p].lista][loc[p].hoja + 1] = Pegada(p)]
  /\ Ir(p, "traer", [loc[p] EXCEPT !.hojaMarcada = FALSE, !.hoja = @ + 1])
  /\ UNCHANGED <<lugar, tabla, mapeos, archivo, candados, dado, caido>>

YaEsta(p) ==
  /\ Esta(p, "traer") /\ ~loc[p].hojaMarcada
  /\ IF loc[p].hoja \in Trozo(p)
     THEN Hoja(p) # Nada /\ Ir(p, "traer", [loc[p] EXCEPT !.hoja = @ + 1])
     ELSE Ir(p, "tocar", [loc[p] EXCEPT !.hoja = Inicial(loc[p].trozo), !.buffer = <<>>])
  /\ UNCHANGED <<lugar, tabla, compartidos, candados, dado, caido>>

(* The pages one by one: muse_cpy writes its part of each, muse_sync takes it all.   *)
Copiada(p) ==
  LET l == loc[p]
      EnTrozo(c) == l.hoja * TamPag + c \in (l.trozo[1] + 1)..(l.trozo[1] + l.trozo[2])
  IN  [c \in 1..TamPag |-> IF EnTrozo(c) THEN l.valor ELSE Hoja(p)[c]]

NoHay(p) == loc[p].hoja >= Len(hojas[loc[p].lista]) \/ Hoja(p) = Nada

Tocar(p) ==
  LET l == loc[p] IN
  /\ Esta(p, "tocar") /\ l.hoja <= FinalDe(l.clase, l.trozo)
  /\ caido' = NoHay(p)
  /\ hojas' = IF NoHay(p) \/ l.clase # "cpy" THEN hojas
              ELSE [hojas EXCEPT ![l.lista][l.hoja + 1] = Copiada(p)]
  /\ Ir(p, "tocar", [l EXCEPT !.hoja = @ + 1,
                              !.buffer = IF NoHay(p) \/ l.clase # "sync" THEN @ ELSE @ \o Hoja(p)])
  /\ UNCHANGED <<lugar, tabla, mapeos, archivo, candados, dado>>

(* muse_sync writes the pages whole.  What it puts past the length is not followed. *)
Escrito(a, desde, bytes) ==
  [i \in DOMAIN archivo[a] |-> IF i - desde \in DOMAIN bytes THEN bytes[i - desde] ELSE archivo[a][i]]

Terminar(p) ==
  LET l == loc[p] IN
  /\ Esta(p, "tocar") /\ l.hoja > FinalDe(l.clase, l.trozo)
  /\ archivo' = [archivo EXCEPT ![l.usa.archivo] =
                   Escrito(l.usa.archivo, Inicial(l.trozo) * TamPag, l.buffer)]
  /\ Responder(p)
  /\ UNCHANGED <<lugar, tabla, mapeos, hojas, candados, dado, caido>>

-----------------------------------------------------------------------------
(* muse_unmap and bajar_mapeo, which holds mutex_tabla_de_mapeo while it waits for   *)
(* mutex_tabla_de_programas.  The room is not given back.                           *)
EmpezarUnmap(p) ==
  /\ Esta(p, "libre") /\ SeccionProgramas
  /\ \E k \in {k \in DOMAIN tabla[p] : tabla[p][k].mmapeado} :
       LET a == tabla[p][k].archivo IN
       /\ ~SeTraban(p, "close")
       /\ Ir(p, "bajar", [LocalVacio EXCEPT !.clase = "unmap",
                                            !.usa = [archivo |-> a, compartido |-> TRUE]])
  /\ UNCHANGED <<lugar, tabla, compartidos, candados, dado, caido>>

Bajar(p) ==
  LET i == SelectInSeq(mapeos, LAMBDA m : m.archivo = loc[p].usa.archivo) IN
  /\ Esta(p, "bajar") /\ SeccionMapeo
  /\ IF i = 0 THEN Responder(p) /\ UNCHANGED <<mapeos, mutexMapeo>>
     ELSE /\ mapeos' = [mapeos EXCEPT ![i].contador = @ - 1]
          /\ mutexMapeo' = p
          /\ Ir(p, "quitar", [loc[p] EXCEPT !.lista = mapeos[i].lista])
  /\ UNCHANGED <<lugar, tabla, hojas, archivo, mutexProgramas, dado, caido>>

(* The first entry of the file goes, with its pages, when nobody else counts in it. *)
SinEntrada(a) == RemoveAt(mapeos, SelectInSeq(mapeos, LAMBDA m : m.archivo = a))

Soltado_Tomado(mutex) == mutex
Soltado(mutex) == Nada

Quitar(p) ==
  LET l   == loc[p]
      a   == l.usa.archivo
      fin == mapeos[EntradaDeLista(l.lista)].contador = 0
  IN
  /\ Esta(p, "quitar") /\ SeccionProgramas
  /\ tabla' = [tabla EXCEPT ![p] = RemoveAt(@, Min(SegmentosDe(p, a)))]
  /\ mapeos' = IF fin THEN SinEntrada(a) ELSE mapeos
  /\ hojas' = IF fin THEN [hojas EXCEPT ![l.lista] = <<>>] ELSE hojas
  /\ mutexMapeo' = Soltado(mutexMapeo)
  /\ Responder(p)
  /\ UNCHANGED <<lugar, archivo, mutexProgramas, dado, caido>>

-----------------------------------------------------------------------------
(* muse_close destroys the program within mutex_tabla_de_programas, and each of its   *)
(* mappings takes mutex_tabla_de_mapeo, twice, but not to count itself out.  Nothing  *)
(* is given back to lugar_disponible, and nothing is answered.                       *)
EmpezarCierre(p) ==
  /\ Esta(p, "libre") /\ SeccionProgramas
  /\ Mapea(p) => ~SeTraban(p, "unmap")
  /\ \A k \in DOMAIN tabla[p] : tabla[p][k].mmapeado => ~Choca(p, "close", tabla[p][k].archivo)
  /\ mutexProgramas' = p
  /\ Ir(p, "cerrar", [LocalVacio EXCEPT !.clase = "close"])
  /\ UNCHANGED <<lugar, tabla, compartidos, mutexMapeo, dado, caido>>

Cerrar(p) ==
  LET s == Head(tabla[p])
      i == SelectInSeq(mapeos, LAMBDA m : m.archivo = s.archivo)
  IN
  /\ Esta(p, "cerrar") /\ tabla[p] # <<>>
  /\ IF ~s.mmapeado
     THEN /\ tabla' = [tabla EXCEPT ![p] = Tail(@)]
          /\ UNCHANGED <<pc, loc, caido>>
     ELSE /\ SeccionMapeo
          /\ caido' = (i = 0)
          /\ Ir(p, "descontar", [loc[p] EXCEPT !.lista = IF i = 0 THEN 0 ELSE mapeos[i].lista])
          /\ UNCHANGED tabla
  /\ UNCHANGED <<lugar, compartidos, candados, dado>>

Descontar(p) ==
  LET l   == loc[p].lista
      fin == mapeos[EntradaDeLista(l)].contador = 1
  IN
  /\ Esta(p, "descontar")
  /\ mapeos' = [mapeos EXCEPT ![EntradaDeLista(l)].contador = @ - 1]
  /\ hojas' = IF fin THEN [hojas EXCEPT ![l] = <<>>] ELSE hojas
  /\ Ir(p, IF fin THEN "olvidar" ELSE "cerrar", [loc[p] EXCEPT !.lista = IF fin THEN l ELSE 0])
  /\ tabla' = IF fin THEN tabla ELSE [tabla EXCEPT ![p] = Tail(@)]
  /\ UNCHANGED <<lugar, archivo, candados, dado, caido>>

Olvidar(p) ==
  /\ Esta(p, "olvidar") /\ SeccionMapeo
  /\ mapeos' = SinEntrada(Head(tabla[p]).archivo)
  /\ tabla' = [tabla EXCEPT ![p] = Tail(@)]
  /\ Ir(p, "cerrar", [loc[p] EXCEPT !.lista = 0])
  /\ UNCHANGED <<lugar, hojas, archivo, candados, dado, caido>>

Cerrado(p) ==
  /\ Esta(p, "cerrar") /\ tabla[p] = <<>>
  /\ mutexProgramas' = Nada
  /\ dado' = [dado EXCEPT ![p] = {}]
  /\ Ir(p, "fin", LocalVacio)
  /\ UNCHANGED <<lugar, tabla, compartidos, mutexMapeo, caido>>

=============================================================================
