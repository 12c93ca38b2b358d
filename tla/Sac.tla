--------------------------------- MODULE Sac ---------------------------------
(***************************************************************************)
(* The SAC server and its clients.  A client is the kernel through FUSE and   *)
(* sac-cli: it looks a path up before it asks for anything on it, waits for    *)
(* the answer, and two of them (two mounts) know nothing of each other.        *)
(***************************************************************************)
EXTENDS SacArbol, SacDatos

CONSTANTS
  Pedibles,       \* the requests each client may make
  Reinicia,       \* when the server may be stopped and started: "nunca", "en reposo", "siempre"
  TopeDirectorio, \* bound: no directory is asked for when its node would be a later one
  TopeTamanio     \* bound: no file is written once its tamanio would be above it

vars == <<discoVars, atencionVars>>

Init == DiscoInit /\ AtencionInit

-----------------------------------------------------------------------------
(* What FUSE lets through, by the attributes sac_getattr gave it. *)
Visto(p)        == p \in DOMAIN dicc
VeArchivo(p)    == Visto(p) /\ tabla[dicc[p]].estado = 1
VeDirectorio(p) == Visto(p) /\ tabla[dicc[p]].estado # 1
Falta(p)        == ~Visto(p) /\ VeDirectorio(Front(p))

Permite(r) ==
  CASE r.op = "MKNOD"    -> Falta(r.ruta)
    [] r.op = "MKDIR"    -> /\ Falta(r.ruta)
                            /\ NodosLibres # {} => Min(NodosLibres) <= TopeDirectorio
    [] r.op = "OPEN"     -> VeArchivo(r.ruta) \/ (r.crear /\ Falta(r.ruta))
    [] r.op = "RMDIR"    -> VeDirectorio(r.ruta)
    [] r.op = "RENAME"   -> /\ Visto(r.ruta) /\ VeDirectorio(Front(r.destino))
                            /\ ~IsPrefix(r.ruta, r.destino) /\ ~IsPrefix(r.destino, r.ruta)
    [] r.op = "WRITE"    -> VeArchivo(r.ruta) /\ tabla[dicc[r.ruta]].tamanio + r.largo <= TopeTamanio
    [] r.op \in {"READ", "TRUNCATE", "UNLINK"}   -> VeArchivo(r.ruta)
    [] r.op \in {"GETATTR", "READDIR", "UTIMES"} -> Visto(r.ruta)

Pedir(c) ==
  /\ ~caido /\ pedido[c] = Nada /\ pc[c] = "libre"
  /\ \E r \in Pedibles[c] : Permite(r) /\ pedido' = [pedido EXCEPT ![c] = r]
  /\ respuesta' = [respuesta EXCEPT ![c] = ""]
  /\ Enviar(c, <<>>)
  /\ antes' = IF Reposo THEN Arbol ELSE antes
  /\ UNCHANGED <<discoVars, pc, local>>

AtenderCliente(c) == AtenderNodo(c) \/ AtenderArbol(c) \/ AtenderDatos(c)

Reiniciar ==
  /\ \/ Reinicia = "siempre"
     \/ Reinicia = "en reposo" /\ Reposo
  /\ Levantar /\ AtencionReinicia

Next == Reiniciar \/ \E c \in Conexiones : Pedir(c) \/ AtenderCliente(c)

Spec == Init /\ [][Next]_vars

-----------------------------------------------------------------------------
SacTypeOK ==
  /\ DiscoTypeOK
  /\ \A c \in Conexiones :
       /\ pedido[c] \in Pedibles[c] \cup {Nada}
       /\ respuesta[c] \in {"", "ok", "error"} /\ leido[c] \in Seq(Nat)
       /\ local[c].nodo \in Indices \cup {Nada} /\ local[c].padre \in Indices
       /\ local[c].bloque \in {0} \cup Datos /\ local[c].cursor \in Nat
       /\ pc[c] \notin {"libre", "colgado"} => pedido[c] # Nada

-----------------------------------------------------------------------------
(* The tree.  The paths of the table are those of its used nodes, each under   *)
(* directories in use.                                                         *)
Camino == Caminos(tabla)
Usados == {i \in Indices : tabla[i].estado # 0}
EnDirectorios(p) ==
  \A n \in 0..(Len(p) - 1) : VeDirectorio(SubSeq(p, 1, n)) /\ dicc[SubSeq(p, 1, n)] \in Usados

(* With nothing being served, the path of every used node is in the dictionary *)
(* and leads to it: sac_getattr finds every file of the table.                 *)
Encuentra ==
  Reposo => \A i \in Usados : i \in DOMAIN Camino /\ Visto(Camino[i]) /\ dicc[Camino[i]] = i

(* With nothing being served, a path of the dictionary leads to a used node     *)
(* whose path in the table is that one, through directories in use:            *)
(* sac_getattr finds nothing else.                                             *)
RutasVivas ==
  Reposo => \A p \in DOMAIN dicc :
              /\ dicc[p] \in Usados \cap DOMAIN Camino /\ Camino[dicc[p]] = p
              /\ EnDirectorios(p)

(* To a client alone, the requests are those of a tree of paths: each has its   *)
(* whole effect when it is answered, is refused only if it cannot be served,    *)
(* and a restart, of a dictionary that is never written to the disk, changes   *)
(* nothing.                                                                    *)
A == INSTANCE ArbolDeRutas WITH arbol <- IF Reposo THEN Arbol ELSE antes, Capacidad <- Nodos
ImplementaArbol == A!Spec

-----------------------------------------------------------------------------
(* The blocks.  A reference is a pointer of a node or an entry of a block of    *)
(* pointers.                                                                   *)
Posiciones == 0..(Punteros * (Celdas + 1) - 1)
Referencias == {x \in Indices \X Posiciones : BloqueEn(x[1], x[2]) # 0}
Referidos == {BloqueEn(x[1], x[2]) : x \in Referencias}

(* With nothing being served no block belongs to two files, or twice to one.   *)
BloquesSinCompartir ==
  Reposo => \A x, y \in Referencias : BloqueEn(x[1], x[2]) = BloqueEn(y[1], y[2]) => x = y

(* With nothing being served the bitmap holds what is before the data and what  *)
(* some file uses: no block is lost and none is given twice.                   *)
BitmapExacto == Reposo => bitarray = BitmapInicial \cup Referidos

(* With nothing being served a free block is full of zeros, which is what makes *)
(* it a block of pointers to nothing when it is taken for one.                 *)
LibresEnCero == Reposo => \A b \in Datos \ bitarray : disco[b] = Vacio

(* What a file holds only changes in a step of the server while a request on    *)
(* that file is served.                                                        *)
Opera(c, i) == pedido[c] # Nada /\ Nodo(c) = i
ContenidoAjeno ==
  [][\A i \in Indices : Contenido(i)' # Contenido(i) => \E c \in Conexiones : Opera(c, i)]_vars

(* Writes, truncations and removals are those of files of bytes, and a read    *)
(* from the start of a block is answered the bytes that were last written there. *)
RutasDatos == UNION {{r.ruta : r \in Pedibles[c]} : c \in Conexiones}
Capacidad  == Punteros * Celdas * Celdas
Guardado   == [p \in RutasDatos |->
                 IF Visto(p) THEN Contenido(dicc[p]) ELSE [n \in 0..(Capacidad - 1) |-> 0]]
B == INSTANCE ArchivosDeBytes WITH
       contenido <- Guardado, Rutas <- RutasDatos, Tope <- Capacidad, Bloque <- Celdas
ImplementaArchivos == B!Spec
=============================================================================
