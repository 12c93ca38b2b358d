------------------------------- MODULE SacArbol -------------------------------
(***************************************************************************)
(* The requests on the tree of directories: MKNOD, MKDIR, OPEN, RMDIR,      *)
(* READDIR and RENAME.                                                      *)
(***************************************************************************)
EXTENDS SacAtencion

(* dame_path_padre and dame_el_nombre *)
PathPadre(ruta) == Front(ruta)
ElNombre(ruta)  == Last(ruta)

-----------------------------------------------------------------------------
(* _open: the request may create the file, and insist on creating it. *)
AbrirExistente(c) ==
  /\ Llega(c, {"OPEN"}) /\ DiccLibre /\ EnDicc(c)
  /\ Responder(c, IF pedido[c].crear /\ pedido[c].asegurar THEN "error" ELSE "ok")
  /\ UNCHANGED discoVars

AbrirAusente(c) ==
  /\ Llega(c, {"OPEN"}) /\ DiccLibre /\ ~EnDicc(c)
  /\ \/ ~pedido[c].crear /\ Responder(c, "error")
     \/ pedido[c].crear /\ Ir(c, "crear") /\ UNCHANGED local
  /\ UNCHANGED discoVars

-----------------------------------------------------------------------------
(* _mknod and _mkdir.  The handler of MKDIR only looks for the -1 of a full   *)
(* table, and _open likewise: an existing path is a success.                  *)
EmpiezaACrear(c) == Llega(c, {"MKNOD", "MKDIR"}) \/ Esta(c, "crear")
Tipo(c) == IF pedido[c].op = "MKDIR" THEN 2 ELSE 1

CrearExistente(c) ==
  /\ EmpiezaACrear(c) /\ DiccLibre /\ EnDicc(c)
  /\ Responder(c, IF pedido[c].op = "MKNOD" THEN "error" ELSE "ok")
  /\ UNCHANGED discoVars

CrearAusente(c) ==
  /\ EmpiezaACrear(c) /\ DiccLibre /\ ~EnDicc(c)
  /\ Ir(c, "elegir")
  /\ UNCHANGED <<discoVars, local>>

(* dame_el_primer_nodo_libre puts the path in the dictionary; the node is    *)
(* only marked as used later, by the caller.                                  *)
NodosLibres == {i \in Indices : tabla[i].estado = 0}

ElegirNodo(c) ==
  /\ Esta(c, "elegir") /\ DiccLibre /\ NodosLibres # {}
  /\ dicc' = Pone(dicc, Ruta(c), Min(NodosLibres))
  /\ local' = [local EXCEPT ![c].nodo = Min(NodosLibres)]
  /\ Ir(c, "marcar")
  /\ UNCHANGED <<enDisco, bitarray, mutexDicc, caido>>

SinNodos(c) ==
  /\ Esta(c, "elegir") /\ NodosLibres = {}
  /\ Responder(c, "error")
  /\ UNCHANGED discoVars

MarcarNodo(c) ==
  /\ Esta(c, "marcar")
  /\ tabla' = [tabla EXCEPT ![Nodo(c)].estado = Tipo(c)]
  /\ Ir(c, "buscar_padre")
  /\ UNCHANGED <<disco, enMemoria, caido, local>>

BuscarPadre(c) ==
  /\ Esta(c, "buscar_padre") /\ DiccLibre
  /\ local' = [local EXCEPT ![c].padre = Saca(PathPadre(Ruta(c)))]
  /\ Ir(c, "nombrar")
  /\ UNCHANGED discoVars

BloqueDelPadre_SinCabecera(c) == local[c].padre
BloqueDelPadre(c) == BloqueDe(local[c].padre)

NombrarNodo(c) ==
  /\ Esta(c, "nombrar")
  /\ tabla' = [tabla EXCEPT ![Nodo(c)].nombre = ElNombre(Ruta(c))]
  /\ Ir(c, "apadrinar")
  /\ UNCHANGED <<disco, enMemoria, caido, local>>

(* Also the end of RENAME, once the keys are changed. *)
ClavesPendientes(c) == local[c].claves \cap DOMAIN dicc

ApadrinarNodo(c) ==
  /\ \/ Esta(c, "apadrinar")
     \/ Esta(c, "cambiar_nombres") /\ ClavesPendientes(c) = {}
  /\ tabla' = [tabla EXCEPT ![Nodo(c)].padre = BloqueDelPadre(c)]
  /\ Responder(c, "ok")
  /\ UNCHANGED <<disco, enMemoria, caido>>

Crear(c) ==
  \/ AbrirExistente(c) \/ AbrirAusente(c)
  \/ CrearExistente(c) \/ CrearAusente(c) \/ ElegirNodo(c) \/ SinNodos(c)
  \/ MarcarNodo(c) \/ BuscarPadre(c) \/ NombrarNodo(c) \/ ApadrinarNodo(c)

-----------------------------------------------------------------------------
(* encontrame_las_entradas_de, for READDIR and RMDIR: whether the path is     *)
(* there, its node, and the used nodes whose father it is.                    *)
EmpiezaEntradas(c) == Llega(c, {"READDIR"}) \/ Esta(c, "entradas")

Entradas_Usadas(i) == {j \in Indices : tabla[j].estado = 1 /\ tabla[j].padre = BloqueDe(i)}
Entradas(i) ==
  {j \in Indices : /\ tabla[j].nombre # Barra /\ tabla[j].estado # 0
                   /\ tabla[j].padre = BloqueDe(i)}

BuscarEntradas(c) ==
  /\ EmpiezaEntradas(c) /\ DiccLibre /\ EnDicc(c)
  /\ Ir(c, "tomar_directorio")
  /\ UNCHANGED <<discoVars, local>>

(* _rmdir ignores the -1: a directory that is gone has no entries. *)
NoHayDirectorio(c) ==
  /\ EmpiezaEntradas(c) /\ DiccLibre /\ ~EnDicc(c)
  /\ \/ pedido[c].op = "READDIR" /\ Responder(c, "error")
     \/ pedido[c].op = "RMDIR" /\ Ir(c, "borrar_directorio") /\ UNCHANGED local
  /\ UNCHANGED discoVars

TomarDirectorio(c) ==
  /\ Esta(c, "tomar_directorio") /\ DiccLibre
  /\ local' = [local EXCEPT ![c].nodo = Saca(Ruta(c))]
  /\ Ir(c, "listar")
  /\ UNCHANGED discoVars

Listar(c) ==
  /\ Esta(c, "listar") /\ pedido[c].op = "READDIR"
  /\ Responder(c, "ok")
  /\ UNCHANGED discoVars

-----------------------------------------------------------------------------
(* _rmdir *)
EmpezarRmdir(c) ==
  /\ Llega(c, {"RMDIR"}) /\ DiccLibre
  /\ \/ ~EnDicc(c) /\ Responder(c, "error")
     \/ EnDicc(c) /\ Ir(c, "entradas") /\ UNCHANGED local
  /\ UNCHANGED discoVars

RevisarEntradas(c) ==
  /\ Esta(c, "listar") /\ pedido[c].op = "RMDIR"
  /\ \/ Entradas(Nodo(c)) # {} /\ Responder(c, "error")
     \/ Entradas(Nodo(c)) = {} /\ Ir(c, "borrar_directorio") /\ UNCHANGED local
  /\ UNCHANGED discoVars

BorrarDirectorio(c) ==
  /\ Esta(c, "borrar_directorio") /\ DiccLibre
  /\ tabla' = [tabla EXCEPT ![Saca(Ruta(c))].estado = 0, ![Saca(Ruta(c))].tamanio = 0]
  /\ dicc' = Sin(dicc, Ruta(c))
  /\ Responder(c, "ok")
  /\ UNCHANGED <<disco, bitarray, mutexDicc, caido>>

Directorio(c) ==
  \/ BuscarEntradas(c) \/ NoHayDirectorio(c) \/ TomarDirectorio(c) \/ Listar(c)
  \/ EmpezarRmdir(c) \/ RevisarEntradas(c) \/ BorrarDirectorio(c)

-----------------------------------------------------------------------------
(* RENAME.  string_starts_with compares characters: the last name of the old  *)
(* path may be the beginning of a longer name.                                *)
EmpiezaCon(ruta, viejo) ==
  LET n == Len(viejo) IN
  /\ Len(ruta) >= n
  /\ SubSeq(ruta, 1, n - 1) = Front(viejo)
  /\ IsPrefix(Last(viejo), ruta[n])

(* new followed by what comes after old in the key. *)
Reemplazar_SinResto(ruta, viejo, nuevo) == nuevo
Reemplazar(ruta, viejo, nuevo) ==
  LET n == Len(viejo)
      resto == SubSeq(ruta[n], Len(Last(viejo)) + 1, Len(ruta[n]))
  IN Append(Front(nuevo), Last(nuevo) \o resto) \o SubSeq(ruta, n + 1, Len(ruta))

Renombrar(c) ==
  /\ Esta(c, "con_nodo") /\ pedido[c].op = "RENAME"
  /\ pedido[c].destino \notin DOMAIN dicc
  /\ tabla' = [tabla EXCEPT ![Nodo(c)].nombre = ElNombre(pedido[c].destino)]
  /\ Ir(c, "cambiar_clave")
  /\ UNCHANGED <<disco, enMemoria, caido, local>>

RenombrarExistente(c) ==
  /\ Esta(c, "con_nodo") /\ pedido[c].op = "RENAME"
  /\ pedido[c].destino \in DOMAIN dicc
  /\ Responder(c, "error")
  /\ UNCHANGED discoVars

(* The key of the node is changed, and if it is a directory dictionary_iterator *)
(* goes over the keys.                                                          *)
CambiarClave(c) ==
  LET viejo == Ruta(c)
      nuevo == pedido[c].destino
      d     == Pone(Sin(dicc, viejo), nuevo, Saca(viejo))
  IN
  /\ Esta(c, "cambiar_clave") /\ DiccLibre
  /\ dicc' = d
  /\ local' = [local EXCEPT
       ![c].padre  = Saca(PathPadre(nuevo)),
       ![c].claves = IF tabla[Nodo(c)].estado = 2
                     THEN {r \in DOMAIN d : EmpiezaCon(r, viejo)} ELSE {}]
  /\ Ir(c, "cambiar_nombres")
  /\ UNCHANGED <<enDisco, bitarray, mutexDicc, caido>>

(* cambiar_nombre, on a key: the iterator meets those there were when it      *)
(* started and are still there, and may meet one put since.                   *)
CambiarNombre(c) ==
  /\ Esta(c, "cambiar_nombres") /\ DiccLibre
  /\ local[c].claves # {} \/ tabla[Nodo(c)].estado = 2
  /\ \E r \in {r \in DOMAIN dicc : EmpiezaCon(r, Ruta(c))} :
       /\ dicc' = Sin(Pone(dicc, Reemplazar(r, Ruta(c), pedido[c].destino), Saca(r)), r)
       /\ local' = [local EXCEPT ![c].claves = @ \ {r}]
  /\ Ir(c, "cambiar_nombres")
  /\ UNCHANGED <<enDisco, bitarray, mutexDicc, caido>>

Rename(c) ==
  \/ Renombrar(c) \/ RenombrarExistente(c) \/ CambiarClave(c) \/ CambiarNombre(c)

AtenderArbol(c) == Crear(c) \/ Directorio(c) \/ Rename(c)
=============================================================================
