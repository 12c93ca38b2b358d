------------------------------ MODULE SacSocket ------------------------------
(***************************************************************************)
(* The calls of FUSE to sac-cli over its socket, and the thread that        *)
(* attends it, atender_cliente.  A step is a send or a recv, of either end. *)
(* What the request does in the file system is module Sac; here the reply   *)
(* is any that its case of the switch may send.                             *)
(***************************************************************************)
EXTENDS SacMensajes

CONSTANTS
  Hilos,  \* the threads that FUSE calls sac-cli from: one when it is mounted with -s
  Pide,   \* the operations the kernel asks for
  Nada    \* no call

ASSUME SocketSupuesto == Pide \subseteq Pedibles /\ Nada \notin Pedibles

VARIABLES
  haciaServidor, \* the bytes of the socket, in each direction
  haciaCliente,
  llamada,       \* what each thread asked for, or Nada
  faltan,        \* what it has to read of the reply: names of fields
  leido,         \* what it read: the fields and their bytes
  atencion,      \* what the server has read of the request
  vivo           \* the server is

socketVars == <<haciaServidor, haciaCliente, llamada, faltan, leido, atencion, vivo>>

SinPedido == [op |-> <<>>, tam |-> <<>>, datos |-> <<>>]

SocketInit ==
  /\ haciaServidor = <<>> /\ haciaCliente = <<>>
  /\ llamada = [h \in Hilos |-> Nada]
  /\ faltan = [h \in Hilos |-> <<>>] /\ leido = [h \in Hilos |-> <<>>]
  /\ atencion = SinPedido /\ vivo = TRUE

(* recv with MSG_WAITALL: n bytes, when there are so many. *)
Recibibles(bytes, n) == n <= Len(bytes)
Primeros(bytes, n)   == SubSeq(bytes, 1, n)
Resto(bytes, n)      == SubSeq(bytes, n + 1, Len(bytes))

-----------------------------------------------------------------------------
(* sac_getattr and the others: one send, and the recvs of the reply.  sac_chmod, *)
(* sac_release and sac_setattr ask the server for nothing.                      *)
Llamar(h) ==
  /\ vivo /\ llamada[h] = Nada
  /\ \E op \in Pide :
       /\ llamada' = [llamada EXCEPT ![h] = op]
       /\ haciaServidor' = haciaServidor \o Pedido(h, op)
  /\ faltan' = [faltan EXCEPT ![h] = <<"op">>]
  /\ leido' = [leido EXCEPT ![h] = <<>>]
  /\ UNCHANGED <<haciaCliente, atencion, vivo>>

ValorDe(h, campo) ==
  LET i == CHOOSE i \in DOMAIN leido[h] : leido[h][i][1] = campo IN Head(leido[h][i][2]).valor

TamCampo(h, campo) ==
  IF campo = "cuerpo" THEN ValorDe(h, "tam") - Cabecera(llamada[h]) ELSE 4

(* A call only looks at whether it was answered ERROR. *)
Siguen(h, campo, datos) ==
  IF campo # "op" THEN Tail(faltan[h])
  ELSE IF Head(datos).valor = Codigo("ERROR") THEN TrasError(llamada[h])
  ELSE TrasExito(llamada[h])

Recibir(h) ==
  LET campo == Head(faltan[h])
      n     == TamCampo(h, campo)
      datos == Primeros(haciaCliente, n)
  IN
  /\ vivo /\ llamada[h] # Nada /\ faltan[h] # <<>> /\ Recibibles(haciaCliente, n)
  /\ haciaCliente' = Resto(haciaCliente, n)
  /\ leido' = [leido EXCEPT ![h] = Append(@, <<campo, datos>>)]
  /\ faltan' = [faltan EXCEPT ![h] = Siguen(h, campo, datos)]
  /\ UNCHANGED <<haciaServidor, llamada, atencion, vivo>>

Volver(h) ==
  /\ vivo /\ llamada[h] # Nada /\ faltan[h] = <<>>
  /\ llamada' = [llamada EXCEPT ![h] = Nada]
  /\ UNCHANGED <<haciaServidor, haciaCliente, faltan, leido, atencion, vivo>>

Hilo(h) == Recibir(h) \/ Volver(h)

-----------------------------------------------------------------------------
(* atender_cliente: the operation, the size and the rest. *)
OpPedida == Operaciones[Head(atencion.op).valor + 1]

LeerPalabra(campo, previo) ==
  /\ vivo /\ previo /\ atencion[campo] = <<>> /\ Recibibles(haciaServidor, 4)
  /\ atencion' = [atencion EXCEPT ![campo] = Primeros(haciaServidor, 4)]
  /\ haciaServidor' = Resto(haciaServidor, 4)
  /\ UNCHANGED <<haciaCliente, llamada, faltan, leido, vivo>>

LeerOp  == LeerPalabra("op", TRUE)
LeerTam == LeerPalabra("tam", atencion.op # <<>>)

LeerArgumentos ==
  LET n == PorLeer(OpPedida, Head(atencion.tam).valor) IN
  /\ vivo /\ atencion.tam # <<>> /\ atencion.datos = <<>> /\ Recibibles(haciaServidor, n)
  /\ atencion' = [atencion EXCEPT !.datos = Primeros(haciaServidor, n)]
  /\ haciaServidor' = Resto(haciaServidor, n)
  /\ UNCHANGED <<haciaCliente, llamada, faltan, leido, vivo>>

Responder ==
  /\ vivo /\ atencion.datos # <<>>
  /\ \E r \in Respuestas(Head(atencion.op).de, OpPedida) : haciaCliente' = haciaCliente \o r
  /\ atencion' = SinPedido
  /\ UNCHANGED <<haciaServidor, llamada, faltan, leido, vivo>>

(* The requests that use the node of a path without testing that there is one. *)
Morir ==
  /\ vivo /\ atencion.datos # <<>> /\ OpPedida \in {"UTIMES", "READ", "WRITE", "TRUNCATE"}
  /\ vivo' = FALSE
  /\ UNCHANGED <<haciaServidor, haciaCliente, llamada, faltan, leido, atencion>>

AtenderCliente == LeerOp \/ LeerTam \/ LeerArgumentos \/ Responder \/ Morir

-----------------------------------------------------------------------------
SocketNext == AtenderCliente \/ \E h \in Hilos : Llamar(h) \/ Hilo(h)
SocketSpec == SocketInit /\ [][SocketNext]_socketVars

(* The threads of FUSE and of the server run; the kernel may ask for nothing.  A recv *)
(* that finds its bytes returns, whoever else waits: that is the kernel's queue, and   *)
(* with one thread it says no more than that the thread runs.                        *)
SocketJusta ==
  SocketSpec /\ WF_socketVars(AtenderCliente) /\ \A h \in Hilos : WF_socketVars(Hilo(h))

-----------------------------------------------------------------------------
(* The bytes of a field, all of one call. *)
DelCampo(campo, datos, de) == \A b \in Range(datos) : b.campo = campo /\ b.de = de
DeLosCampos(campos, de)    == \A i \in DOMAIN campos : DelCampo(campos[i][1], campos[i][2], de)

(* What the server takes for a request is one: each argument of it is what the caller *)
(* wrote as such, and nothing of it is left for the next.  serializar_X, deserializar_X *)
(* and the two ways of counting tam are written apart for each operation.             *)
PedidoEntero ==
  vivo /\ atencion.datos # <<>> =>
    LET d  == Deserializar(Toma(OpPedida), atencion.datos)
        de == Head(atencion.op).de
    IN
    /\ llamada[de] = OpPedida
    /\ DelCampo("op", atencion.op, de) /\ DelCampo("tam", atencion.tam, de)
    /\ DeLosCampos(d.campos, de) /\ d.leido = Len(atencion.datos)

(* What a call reads is its own reply, field by field, and it leaves nothing of it in  *)
(* the socket: however many bytes each error has and each call reads.                *)
CuerpoPropio(h, datos) ==
  LET op   == llamada[h]
      cant == IF op = "READDIR" THEN ValorDe(h, "cant") ELSE 0
      d    == Deserializar(TomaRespuesta(op, cant), datos)
  IN  DeLosCampos(d.campos, h) /\ d.leido = Len(datos)

RespuestaPropia ==
  vivo => \A h \in Hilos : llamada[h] # Nada =>
    /\ \A i \in DOMAIN leido[h] :
         LET campo == leido[h][i][1] IN
         IF campo = "cuerpo" THEN CuerpoPropio(h, leido[h][i][2])
         ELSE DelCampo(campo, leido[h][i][2], h)
    /\ faltan[h] = <<>> => \A b \in Range(haciaCliente) : b.de # h

(* The calls whose errors are as long as what they read.  READDIR, TRUNCATE and RENAME *)
(* wait for a second integer that is not always sent.                              *)
Acordadas == Pedibles \ {"READDIR", "TRUNCATE", "RENAME"}

(* A call of those returns, unless the server dies: the two ends never wait for each  *)
(* other.                                                                        *)
LlamadaTermina ==
  \A h \in Hilos : llamada[h] \in Acordadas ~> llamada[h] = Nada \/ ~vivo

=============================================================================
