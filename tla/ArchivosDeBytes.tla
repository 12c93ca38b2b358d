---------------------------- MODULE ArchivosDeBytes ----------------------------
(***************************************************************************)
(* What the data of the files are to their users: each path holds a row of   *)
(* bytes, zero where nothing was written.  A write changes the bytes it was   *)
(* asked to, up to the end of their block, when it is answered; a read from    *)
(* the start of a block is answered the bytes of the file that are there; a    *)
(* truncation and a removal wipe blocks of their file until they are answered. *)
(***************************************************************************)
EXTENDS Integers, FiniteSets

CONSTANTS Conexiones, Nada, Rutas,
          Tope,  \* the offsets are 0..Tope-1
          Bloque \* bytes of a block

VARIABLES contenido, pedido, respuesta, leido

Ceros == [n \in 0..(Tope - 1) |-> 0]

Con(p, tramo, b) ==
  [contenido EXCEPT ![p] = [n \in DOMAIN @ |-> IF n \in tramo THEN b ELSE @[n]]]

(* What fits in the block of its first byte. *)
Escritos(r) == {n \in r.desde..(r.desde + r.largo - 1) : n \div Bloque = r.desde \div Bloque}

Borra(r) == r.op \in {"TRUNCATE", "UNLINK"}

-----------------------------------------------------------------------------
Init ==
  /\ contenido = [p \in Rutas |-> Ceros]
  /\ pedido = [c \in Conexiones |-> Nada]
  /\ respuesta = [c \in Conexiones |-> ""]
  /\ leido = [c \in Conexiones |-> <<>>]

Pedir(c) ==
  /\ pedido[c] = Nada
  /\ pedido' = [pedido EXCEPT ![c] = pedido'[c]]
  /\ respuesta' = [respuesta EXCEPT ![c] = ""]
  /\ leido' = [leido EXCEPT ![c] = <<>>]
  /\ UNCHANGED contenido

ContestaCon(c, r, bytes) ==
  /\ pedido[c] # Nada
  /\ pedido' = [pedido EXCEPT ![c] = Nada]
  /\ respuesta' = [respuesta EXCEPT ![c] = r]
  /\ leido' = [leido EXCEPT ![c] = bytes]

Contesta(c, r) == ContestaCon(c, r, <<>>)

(* From the start of a block, the bytes it holds up to its end; or the first of *)
(* a block where there are only zeros.  From elsewhere nothing is promised.      *)
Bytes(r, n) == [k \in 1..n |-> contenido[r.ruta][r.desde + k - 1]]
EnBlanco(r) == \A n \in 0..(Tope - 1) : n \div Bloque = r.desde \div Bloque => contenido[r.ruta][n] = 0

Leer(c) ==
  LET r == pedido[c] IN
  /\ r.op = "READ"
  /\ ContestaCon(c, "ok", leido'[c])
  /\ r.desde % Bloque = 0 => \/ leido'[c] = Bytes(r, IF r.largo < Bloque THEN r.largo ELSE Bloque)
                             \/ EnBlanco(r) /\ leido'[c] = Bytes(r, 1)
  /\ UNCHANGED contenido

Escribir(c) ==
  LET r == pedido[c] IN
  /\ Contesta(c, "ok") /\ r.op = "WRITE"
  /\ contenido' = Con(r.ruta, Escritos(r), r.valor)

Vaciar(c) ==
  /\ pedido[c] # Nada /\ Borra(pedido[c])
  /\ \E k \in 0..(Tope - 1) :
       contenido' = Con(pedido[c].ruta, {n \in 0..(Tope - 1) : n \div Bloque = k}, 0)
  /\ UNCHANGED <<pedido, respuesta, leido>>

(* A removed file and one truncated to nothing are empty. *)
Quedar(c) ==
  LET r == pedido[c] IN
  /\ Contesta(c, "ok") /\ r.op \notin {"WRITE", "READ"}
  /\ r.op = "UNLINK" \/ (r.op = "TRUNCATE" /\ r.hasta = 0) => contenido[r.ruta] = Ceros
  /\ UNCHANGED contenido

(* The request fails, or is never answered. *)
Fallar(c) ==
  /\ Contesta(c, "error") \/ Contesta(c, "")
  /\ UNCHANGED contenido

Next ==
  \E c \in Conexiones : Pedir(c) \/ Escribir(c) \/ Leer(c) \/ Vaciar(c) \/ Quedar(c) \/ Fallar(c)

Spec == Init /\ [][Next]_<<contenido, pedido, respuesta, leido>>
=============================================================================
