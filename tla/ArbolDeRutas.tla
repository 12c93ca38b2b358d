----------------------------- MODULE ArbolDeRutas -----------------------------
(***************************************************************************)
(* What a file system promises about its tree: a finite set of paths, each   *)
(* a file (1) or a directory (2), on which every request is served at once   *)
(* when it is answered, and is refused only if it cannot be served.          *)
(***************************************************************************)
EXTENDS Integers, FiniteSets, SequencesExt

CONSTANTS Conexiones, Nada,
          Capacidad  \* how many paths fit

VARIABLES arbol, pedido, respuesta

EsArchivo(p)    == p \in DOMAIN arbol /\ arbol[p] = 1
EsDirectorio(p) == p \in DOMAIN arbol /\ arbol[p] = 2
SinEntradas(p)  == \A q \in DOMAIN arbol : ~IsStrictPrefix(p, q)
HayLugar        == Cardinality(DOMAIN arbol) < Capacidad

PuedeCrear(p) == p \notin DOMAIN arbol /\ EsDirectorio(Front(p)) /\ HayLugar
Con(p, tipo)  == [q \in DOMAIN arbol \cup {p} |-> IF q = p THEN tipo ELSE arbol[q]]
Sin(p)        == [q \in DOMAIN arbol \ {p} |-> arbol[q]]

(* What was under a path is now under another. *)
Trasladada(q, viejo, nuevo) ==
  IF IsPrefix(viejo, q) THEN nuevo \o SubSeq(q, Len(viejo) + 1, Len(q)) ELSE q
Mudado(viejo, nuevo) ==
  [r \in {Trasladada(q, viejo, nuevo) : q \in DOMAIN arbol} |->
     arbol[CHOOSE q \in DOMAIN arbol : Trasladada(q, viejo, nuevo) = r]]

Puede(r) ==
  CASE r.op \in {"MKNOD", "MKDIR"}       -> PuedeCrear(r.ruta)
    [] r.op = "OPEN" /\ ~r.crear         -> r.ruta \in DOMAIN arbol
    [] r.op = "OPEN" /\ r.crear          ->
         PuedeCrear(r.ruta) \/ (r.ruta \in DOMAIN arbol /\ ~r.asegurar)
    [] r.op = "RMDIR"                    -> EsDirectorio(r.ruta) /\ SinEntradas(r.ruta)
    [] r.op = "UNLINK"                   -> EsArchivo(r.ruta)
    [] r.op = "RENAME"                   ->
         /\ r.ruta \in DOMAIN arbol /\ r.destino \notin DOMAIN arbol
         /\ EsDirectorio(Front(r.destino))
    [] OTHER                             -> r.ruta \in DOMAIN arbol

Resultado(r) ==
  CASE r.op = "MKDIR"                                   -> Con(r.ruta, 2)
    [] r.op = "MKNOD"                                   -> Con(r.ruta, 1)
    [] r.op = "OPEN" /\ r.ruta \notin DOMAIN arbol      -> Con(r.ruta, 1)
    [] r.op \in {"RMDIR", "UNLINK"}                     -> Sin(r.ruta)
    [] r.op = "RENAME"                                  -> Mudado(r.ruta, r.destino)
    [] OTHER                                            -> arbol

-----------------------------------------------------------------------------
Init ==
  /\ arbol = [p \in {<<>>} |-> 2]
  /\ pedido = [c \in Conexiones |-> Nada]
  /\ respuesta = [c \in Conexiones |-> ""]

Pedir(c) ==
  /\ pedido[c] = Nada
  /\ pedido' = [pedido EXCEPT ![c] = pedido'[c]]
  /\ respuesta' = [respuesta EXCEPT ![c] = ""]
  /\ UNCHANGED arbol

Contesta(c, r) ==
  /\ pedido[c] # Nada
  /\ pedido' = [pedido EXCEPT ![c] = Nada]
  /\ respuesta' = [respuesta EXCEPT ![c] = r]

Servir(c) ==
  /\ Contesta(c, "ok") /\ Puede(pedido[c])
  /\ arbol' = Resultado(pedido[c])

Negar(c) ==
  /\ Contesta(c, "error") /\ ~Puede(pedido[c])
  /\ UNCHANGED arbol

(* The connections are lost and the tree is not. *)
Reiniciar ==
  /\ pedido' = [c \in Conexiones |-> Nada]
  /\ respuesta' = [c \in Conexiones |-> ""]
  /\ UNCHANGED arbol

Next == Reiniciar \/ \E c \in Conexiones : Pedir(c) \/ Servir(c) \/ Negar(c)

Spec == Init /\ [][Next]_<<arbol, pedido, respuesta>>
=============================================================================
