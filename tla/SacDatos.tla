------------------------------- MODULE SacDatos -------------------------------
(***************************************************************************)
(* The requests that change the data of files: WRITE, TRUNCATE and UNLINK.     *)
(***************************************************************************)
EXTENDS SacAtencion

Apuntar(i, pis, b) == tabla' = [tabla EXCEPT ![i].punteros[pis] = b]

(* What a file holds: nothing where it has no block. *)
Contenido(i) ==
  [n \in 0..(Punteros * Celdas * Celdas - 1) |->
     LET b == BloqueDato(i, IndicePIS(n), IndiceBloque(n))
     IN IF b \in Datos THEN disco[b][IndiceByte(n)] ELSE 0]

-----------------------------------------------------------------------------
(* _write: a block of pointers and a block of data are taken if they are      *)
(* missing, and then the bytes that fit in the block are written.             *)
PIS(c) == IndicePIS(pedido[c].desde)
Entrada(c) == IndiceBloque(pedido[c].desde)

FaltaBPD(c) == Esta(c, "con_nodo") /\ pedido[c].op = "WRITE" /\ BPD(Nodo(c), PIS(c)) = 0
FaltaDato(c) == Esta(c, "escribir_dato") /\ BloqueDato(Nodo(c), PIS(c), Entrada(c)) = 0

TomarBloque_NoMarca(c) ==
  /\ local' = [local EXCEPT ![c].bloque = BloqueLibre]
  /\ UNCHANGED bitarray
TomarBloque(c) ==
  /\ local' = [local EXCEPT ![c].bloque = BloqueLibre]
  /\ bitarray' = bitarray \cup {BloqueLibre}

TomarBPD(c) ==
  /\ FaltaBPD(c) /\ Libres # {}
  /\ TomarBloque(c)
  /\ Ir(c, "apuntar_bpd")
  /\ UNCHANGED <<enDisco, dicc, mutexDicc, caido>>

ApuntarBPD(c) ==
  /\ Esta(c, "apuntar_bpd")
  /\ Apuntar(Nodo(c), PIS(c), local[c].bloque)
  /\ Ir(c, "escribir_dato")
  /\ UNCHANGED <<disco, enMemoria, caido, local>>

HayBPD(c) ==
  /\ Esta(c, "con_nodo") /\ pedido[c].op = "WRITE" /\ ~FaltaBPD(c)
  /\ Ir(c, "escribir_dato")
  /\ UNCHANGED <<discoVars, local>>

TomarDato(c) ==
  /\ FaltaDato(c) /\ Libres # {}
  /\ TomarBloque(c)
  /\ Ir(c, "apuntar_dato")
  /\ UNCHANGED <<enDisco, dicc, mutexDicc, caido>>

ApuntarDato(c) ==
  /\ Esta(c, "apuntar_dato")
  /\ disco' = [disco EXCEPT ![BPD(Nodo(c), PIS(c))][Entrada(c)] = local[c].bloque]
  /\ Ir(c, "escribir_dato")
  /\ UNCHANGED <<tabla, enMemoria, caido, local>>

SinBloques(c) ==
  /\ FaltaBPD(c) \/ FaltaDato(c)
  /\ Libres = {}
  /\ Responder(c, "error")
  /\ UNCHANGED discoVars

EscribirBytes_DesdeOffset(c) ==
  LET p == pedido[c]
      b == BloqueDato(Nodo(c), PIS(c), Entrada(c))
  IN
  /\ Esta(c, "escribir_dato") /\ b # 0
  /\ disco' = [disco EXCEPT ![b] =
       [j \in DOMAIN @ |-> IF j \in p.desde..(p.desde + p.largo - 1) THEN p.valor ELSE @[j]]]
  /\ tabla' = [tabla EXCEPT ![Nodo(c)].tamanio = @ + p.largo]
  /\ Responder(c, "ok")
  /\ UNCHANGED <<enMemoria, caido>>
EscribirBytes(c) ==
  LET p     == pedido[c]
      byte  == IndiceByte(p.desde)
      largo == Min({p.largo, Celdas - byte})
      b     == BloqueDato(Nodo(c), PIS(c), Entrada(c))
  IN
  /\ Esta(c, "escribir_dato") /\ b # 0
  /\ disco' = [disco EXCEPT ![b] =
       [j \in DOMAIN @ |-> IF j \in byte..(byte + largo - 1) THEN p.valor ELSE @[j]]]
  /\ tabla' = [tabla EXCEPT ![Nodo(c)].tamanio = @ + largo]
  /\ Responder(c, "ok")
  /\ UNCHANGED <<enMemoria, caido>>

Write(c) ==
  \/ TomarBPD(c) \/ ApuntarBPD(c) \/ HayBPD(c) \/ TomarDato(c) \/ ApuntarDato(c)
  \/ SinBloques(c) \/ EscribirBytes(c)

-----------------------------------------------------------------------------
(* The loops over the blocks of a file, of limpiar_nodo and                   *)
(* desasignar_bloques: for each pointer of the node its entries, and then the  *)
(* block of pointers itself.  A position is the pointer and the entry, Celdas  *)
(* being the end of the block; those with nothing are skipped.                 *)
Pos(pis, j) == pis * (Celdas + 1) + j
PosPIS(n)   == n \div (Celdas + 1)
PosEntrada(n) == n % (Celdas + 1)
AlFinal(n)  == PosEntrada(n) = Celdas

BloqueEn(i, n) == IF AlFinal(n) THEN BPD(i, PosPIS(n)) ELSE BloqueDato(i, PosPIS(n), PosEntrada(n))

Siguientes(i, desde) == {n \in desde..(Punteros * (Celdas + 1) - 1) : BloqueEn(i, n) # 0}

Vaciando(c, punto) == Esta(c, punto) /\ Siguientes(Nodo(c), local[c].cursor) # {}
Proximo(c) == Min(Siguientes(Nodo(c), local[c].cursor))
Avanzar(c, n) == local' = [local EXCEPT ![c].cursor = n]

(* llenar_de_barraceros *)
EnCero_Nada(b) == UNCHANGED disco
EnCero(b) == disco' = [disco EXCEPT ![b] = Vacio]
Soltar_Nada(b) == UNCHANGED bitarray
Soltar(b) == bitarray' = bitarray \ {b}
Desapuntar_Nada(i, n) == UNCHANGED disco
Desapuntar(i, n) == disco' = [disco EXCEPT ![BPD(i, PosPIS(n))][PosEntrada(n)] = 0]

-----------------------------------------------------------------------------
(* _unlink, which holds s_diccionario to its end.  limpiar_nodo frees a block  *)
(* in the bitmap before it fills it with zeros.                               *)
EmpezarUnlink(c) ==
  /\ Llega(c, {"UNLINK"}) /\ DiccLibre
  /\ \/ ~EnDicc(c) /\ Responder(c, "error")
     \/ EnDicc(c) /\ Ir(c, "tomar_unlink") /\ UNCHANGED local
  /\ UNCHANGED discoVars

TomarUnlink(c) ==
  /\ Esta(c, "tomar_unlink") /\ DiccLibre
  /\ mutexDicc' = c
  /\ local' = [local EXCEPT ![c].nodo = Saca(Ruta(c))]
  /\ Ir(c, "limpiar")
  /\ UNCHANGED <<enDisco, dicc, bitarray, caido>>

LimpiarSuelta(c) ==
  /\ Vaciando(c, "limpiar")
  /\ Soltar(BloqueEn(Nodo(c), Proximo(c)))
  /\ Avanzar(c, Proximo(c))
  /\ Ir(c, IF AlFinal(Proximo(c)) THEN "limpiar_puntero" ELSE "limpiar_dato")
  /\ UNCHANGED <<enDisco, dicc, mutexDicc, caido>>

LimpiarDato(c) ==
  LET n == local[c].cursor
      b == BloqueEn(Nodo(c), n)
  IN
  /\ Esta(c, "limpiar_dato")
  /\ disco' = [disco EXCEPT ![b] = Vacio, ![BPD(Nodo(c), PosPIS(n))][PosEntrada(n)] = 0]
  /\ Avanzar(c, n + 1)
  /\ Ir(c, "limpiar")
  /\ UNCHANGED <<tabla, enMemoria, caido>>

LimpiarPuntero(c) ==
  /\ Esta(c, "limpiar_puntero")
  /\ Apuntar(Nodo(c), PosPIS(local[c].cursor), 0)
  /\ Avanzar(c, local[c].cursor + 1)
  /\ Ir(c, "limpiar")
  /\ UNCHANGED <<disco, enMemoria, caido>>

TerminarUnlink_SinSacar(c) ==
  /\ Esta(c, "limpiar") /\ ~Vaciando(c, "limpiar")
  /\ tabla' = [tabla EXCEPT ![Nodo(c)].estado = 0, ![Nodo(c)].tamanio = 0]
  /\ mutexDicc' = Nada
  /\ Responder(c, "ok")
  /\ UNCHANGED <<disco, dicc, bitarray, caido>>
TerminarUnlink(c) ==
  /\ Esta(c, "limpiar") /\ ~Vaciando(c, "limpiar")
  /\ tabla' = [tabla EXCEPT ![Nodo(c)].estado = 0, ![Nodo(c)].tamanio = 0]
  /\ dicc' = Sin(dicc, Ruta(c))
  /\ mutexDicc' = Nada
  /\ Responder(c, "ok")
  /\ UNCHANGED <<disco, bitarray, caido>>

Unlink(c) ==
  \/ EmpezarUnlink(c) \/ TomarUnlink(c) \/ LimpiarSuelta(c) \/ LimpiarDato(c)
  \/ LimpiarPuntero(c) \/ TerminarUnlink(c)

-----------------------------------------------------------------------------
(* _truncate gives back every block when the file has more than it is asked    *)
(* to keep, and desasignar_bloques fills a block with zeros before it frees it. *)
Bloques(i) ==
  Cardinality({x \in (0..(Punteros - 1)) \X (0..(Celdas - 1)) : BloqueDato(i, x[1], x[2]) # 0})

EmpezarTruncate(c) ==
  /\ Esta(c, "con_nodo") /\ pedido[c].op = "TRUNCATE"
  /\ pedido[c].hasta < Bloques(Nodo(c)) * Celdas
  /\ Ir(c, "desasignar")
  /\ UNCHANGED <<discoVars, local>>

(* Otherwise it returns no value, and what the handler tests is whatever the   *)
(* register holds: 0, -1 or anything else, for which it sends nothing.         *)
NoTruncar(c) ==
  /\ Esta(c, "con_nodo") /\ pedido[c].op = "TRUNCATE"
  /\ pedido[c].hasta >= Bloques(Nodo(c)) * Celdas
  /\ Responder(c, "ok") \/ Responder(c, "error") \/ Callar(c)
  /\ UNCHANGED discoVars

VaciarDato(c) ==
  /\ Vaciando(c, "vaciar") /\ ~AlFinal(Proximo(c))
  /\ EnCero(BloqueEn(Nodo(c), Proximo(c)))
  /\ Avanzar(c, Proximo(c))
  /\ Ir(c, "soltar")
  /\ UNCHANGED <<tabla, enMemoria, caido>>

VaciarPuntero(c) ==
  /\ Vaciando(c, "vaciar") /\ AlFinal(Proximo(c))
  /\ Avanzar(c, Proximo(c))
  /\ Ir(c, "soltar")
  /\ UNCHANGED discoVars

SoltarBloque(c) ==
  /\ Esta(c, "soltar")
  /\ Soltar(BloqueEn(Nodo(c), local[c].cursor))
  /\ Ir(c, "desapuntar")
  /\ UNCHANGED <<enDisco, dicc, mutexDicc, caido, local>>

DesapuntarBloque_YVaciar(c) ==
  LET n == local[c].cursor IN
  /\ Esta(c, "desapuntar")
  /\ IF AlFinal(n) THEN Apuntar(Nodo(c), PosPIS(n), 0) /\ UNCHANGED disco
     ELSE /\ disco' = [disco EXCEPT ![BloqueEn(Nodo(c), n)] = Vacio,
                                    ![BPD(Nodo(c), PosPIS(n))][PosEntrada(n)] = 0]
          /\ UNCHANGED tabla
  /\ Avanzar(c, n + 1)
  /\ Ir(c, "vaciar")
  /\ UNCHANGED <<enMemoria, caido>>
DesapuntarBloque(c) ==
  LET n == local[c].cursor IN
  /\ Esta(c, "desapuntar")
  /\ IF AlFinal(n) THEN Apuntar(Nodo(c), PosPIS(n), 0) /\ UNCHANGED disco
                   ELSE Desapuntar(Nodo(c), n) /\ UNCHANGED tabla
  /\ Avanzar(c, n + 1)
  /\ Ir(c, "vaciar")
  /\ UNCHANGED <<enMemoria, caido>>

TerminarTruncate(c) ==
  /\ Esta(c, "vaciar") /\ ~Vaciando(c, "vaciar")
  /\ tabla' = [tabla EXCEPT ![Nodo(c)].tamanio = 0]
  /\ Responder(c, "ok")
  /\ UNCHANGED <<disco, enMemoria, caido>>

Truncate(c) ==
  \/ EmpezarTruncate(c) \/ NoTruncar(c) \/ VaciarDato(c) \/ VaciarPuntero(c)
  \/ SoltarBloque(c) \/ DesapuntarBloque(c) \/ TerminarTruncate(c)

AtenderDatos(c) == Write(c) \/ Unlink(c) \/ Truncate(c)
=============================================================================
