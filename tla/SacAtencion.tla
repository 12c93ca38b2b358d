----------------------------- MODULE SacAtencion -----------------------------
(***************************************************************************)
(* The handler of a client, atender_cliente: it receives a request, serves  *)
(* it in several steps and replies.  A step is what the handler does inside *)
(* one section of a semaphore with the memory it touches up to the next     *)
(* one; a write to the disk is a step of its own, since it is done with no  *)
(* semaphore held.                                                          *)
(***************************************************************************)
EXTENDS SacDisco

VARIABLES
  pedido,    \* the request of each connection, or Nada
  respuesta, \* what the last request was answered; "" while there is none
  leido,     \* the bytes that came with it, if it was a READ
  pc,        \* where the handler is
  local,     \* its local variables
  antes      \* history: the tree when nothing was being served for the last time

LocalVacio == [nodo |-> Nada, padre |-> 0, bloque |-> 0, cursor |-> 0, claves |-> {}]

atencionVars == <<pedido, respuesta, leido, pc, local, antes>>

Reposo == \A c \in Conexiones : pedido[c] = Nada
Arbol  == [p \in DOMAIN dicc |-> tabla[dicc[p]].estado]

AtencionInit ==
  /\ pedido = [c \in Conexiones |-> Nada]
  /\ respuesta = [c \in Conexiones |-> ""]
  /\ leido = [c \in Conexiones |-> <<>>]
  /\ pc = [c \in Conexiones |-> "libre"]
  /\ local = [c \in Conexiones |-> LocalVacio]
  /\ antes = Arbol

Llega(c, ops) == ~caido /\ pc[c] = "libre" /\ pedido[c] # Nada /\ pedido[c].op \in ops
Esta(c, punto) == ~caido /\ pc[c] = punto
Ruta(c) == pedido[c].ruta
Nodo(c) == local[c].nodo
EnDicc(c) == Ruta(c) \in DOMAIN dicc

Ir(c, punto) == pc' = [pc EXCEPT ![c] = punto] /\ UNCHANGED <<pedido, respuesta, leido, antes>>

Terminar(c, punto, r) ==
  /\ pedido' = [pedido EXCEPT ![c] = Nada]
  /\ respuesta' = [respuesta EXCEPT ![c] = r]
  /\ pc' = [pc EXCEPT ![c] = punto]
  /\ local' = [local EXCEPT ![c] = LocalVacio]
  /\ UNCHANGED antes

Enviar(c, bytes) == leido' = [leido EXCEPT ![c] = bytes]

(* A case of the switch that sends nothing leaves the client waiting. *)
Responder_SinBreak(c, r) == Terminar(c, pc[c], r) /\ Enviar(c, <<>>)
Responder(c, r) == Terminar(c, "libre", r) /\ Enviar(c, <<>>)
Callar(c)       == Terminar(c, "colgado", "") /\ Enviar(c, <<>>)

Caer == caido' = TRUE /\ UNCHANGED <<enDisco, enMemoria, atencionVars>>

-----------------------------------------------------------------------------
(* dame_el_nodo_de: two sections of s_diccionario, one to ask and one to get.  *)
(* TRUNCATE calls it twice.                                                   *)
ConNodo == {"GETATTR", "UTIMES", "RENAME", "READ", "WRITE", "TRUNCATE"}

BuscarNodo(c) ==
  /\ \/ Llega(c, ConNodo) /\ Ir(c, "tomar_nodo")
     \/ Esta(c, "desasignar") /\ Ir(c, "retomar_nodo")
  /\ DiccLibre /\ EnDicc(c)
  /\ UNCHANGED <<discoVars, local>>

TomarNodo(c) ==
  /\ \/ Esta(c, "tomar_nodo") /\ Ir(c, "con_nodo")
     \/ Esta(c, "retomar_nodo") /\ Ir(c, "vaciar")
  /\ DiccLibre
  /\ local' = [local EXCEPT ![c].nodo = Saca(Ruta(c))]
  /\ UNCHANGED discoVars

(* Without a node GETATTR and RENAME answer an error; the others dereference *)
(* the -1.                                                                   *)
NoHayNodo(c) ==
  /\ Llega(c, {"GETATTR", "RENAME"}) /\ DiccLibre /\ ~EnDicc(c)
  /\ Responder(c, "error")
  /\ UNCHANGED discoVars

NodoInvalido(c) ==
  /\ Llega(c, ConNodo \ {"GETATTR", "RENAME"}) \/ Esta(c, "desasignar")
  /\ DiccLibre /\ ~EnDicc(c)
  /\ Caer

(* GETATTR only looks at the node; UTIMES writes its date. *)
Contestar(c) ==
  /\ Esta(c, "con_nodo") /\ pedido[c].op \in {"GETATTR", "UTIMES"}
  /\ Responder(c, "ok")
  /\ UNCHANGED discoVars

(* _read: what is copied to the reply, one byte when there is no block.  byte  *)
(* is added to a pointer to blocks, so that the copy starts that many blocks   *)
(* further on.                                                                 *)
Lectura_DesdeOffset(i, desde, largo) ==
  LET b == BloqueDato(i, IndicePIS(desde), IndiceBloque(desde)) IN
  IF b = 0 THEN <<0>>
  ELSE [k \in 1..Min({largo, Celdas - IndiceByte(desde)}) |->
          IF b + desde \in Datos THEN disco[b + desde][k - 1] ELSE 0]
Lectura(i, desde, largo) ==
  LET b    == BloqueDato(i, IndicePIS(desde), IndiceBloque(desde))
      byte == IndiceByte(desde)
  IN
  IF b = 0 THEN <<0>>
  ELSE [k \in 1..Min({largo, Celdas - byte}) |->
          IF b + byte \in Datos THEN disco[b + byte][k - 1] ELSE 0]

Leer(c) ==
  /\ Esta(c, "con_nodo") /\ pedido[c].op = "READ"
  /\ Terminar(c, "libre", "ok")
  /\ Enviar(c, Lectura(Nodo(c), pedido[c].desde, pedido[c].largo))
  /\ UNCHANGED discoVars

AtenderNodo(c) ==
  \/ BuscarNodo(c) \/ TomarNodo(c) \/ NoHayNodo(c) \/ NodoInvalido(c) \/ Contestar(c)
  \/ Leer(c)

(* Every handler ends with the process. *)
AtencionReinicia ==
  /\ pedido' = [c \in Conexiones |-> Nada]
  /\ respuesta' = [c \in Conexiones |-> ""]
  /\ leido' = [c \in Conexiones |-> <<>>]
  /\ pc' = [c \in Conexiones |-> "libre"]
  /\ local' = [c \in Conexiones |-> LocalVacio]
  /\ UNCHANGED antes
=============================================================================
