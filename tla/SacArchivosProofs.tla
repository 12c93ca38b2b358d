--------------------------- MODULE SacArchivosProofs ---------------------------
(***************************************************************************)
(* The files of SAC, for one mount: what its requests on the data do to what *)
(* the paths hold, and that it is what ArchivosDeBytes says; and its tree:   *)
(* that the paths of the table and those of the dictionary are the same, and *)
(* that its requests on them are what ArbolDeRutas says.                     *)
(***************************************************************************)
EXTENDS SacDatosProofs, FiniteSetTheorems

(* The requests; the abstract files have no RENAME. *)
Pedidos == {"MKNOD", "MKDIR", "OPEN", "RMDIR", "READDIR", "WRITE", "READ", "TRUNCATE", "UNLINK", "GETATTR", "UTIMES"}
SinRenombres == \A c \in Conexiones : \A r \in Pedibles[c] : r.op \in Pedidos

-----------------------------------------------------------------------------
(* What is inductive, besides BloquesInv.                                    *)

DeLimpiar == {"limpiar", "limpiar_dato", "limpiar_puntero"}
DeTruncar == {"vaciar", "soltar", "desapuntar"}

(* The requests that are served at each point. *)
Sirven(punto) ==
  CASE punto \in {"libre", "colgado"}                    -> Pedidos
    [] punto \in DeCrear                                 -> {"MKNOD", "MKDIR", "OPEN"}
    [] punto \in {"tomar_nodo", "con_nodo"}              -> ConNodo
    [] punto \in {"entradas", "borrar_directorio"}       -> {"RMDIR"}
    [] punto \in {"tomar_directorio", "listar"}          -> {"READDIR", "RMDIR"}
    [] punto \in DeEscribir                              -> {"WRITE"}
    [] punto \in {"tomar_unlink"} \cup DeLimpiar         -> {"UNLINK"}
    [] punto \in {"desasignar", "retomar_nodo"} \cup DeTruncar -> {"TRUNCATE"}
    [] OTHER                                             -> {}

(* No two paths lead to one node, and none to a free one but that which is     *)
(* being created; only files have blocks.                                     *)
UnaRuta == \A p, q \in DOMAIN dicc : dicc[p] = dicc[q] => p = q
EnUso ==
  \A p \in DOMAIN dicc :
    tabla[dicc[p]].estado # 0 \/ \E c \in Conexiones : pc[c] = "marcar" /\ Nodo(c) = dicc[p]
SoloArchivos == \A i \in Indices : tabla[i].estado # 1 => \A p \in Pis : BPD(i, p) = 0

(* What the kernel saw before it made the request is still so while it is     *)
(* served, and its node is that of its path.                                  *)
DeArchivo == {"READ", "WRITE", "TRUNCATE", "UNLINK"}
Atiende(c) ==
  pedido[c] # Nada =>
    /\ pedido[c].op \in Sirven(pc[c])
    /\ pedido[c].op \in DeArchivo => EnDicc(c) /\ tabla[dicc[Ruta(c)]].estado = 1
    /\ pedido[c].op = "RMDIR" => EnDicc(c) /\ tabla[dicc[Ruta(c)]].estado # 1
    /\ pc[c] \in {"con_nodo"} \cup DeEscribir \cup DeVaciar => Nodo(c) = Saca(Ruta(c))
    /\ pc[c] = "elegir" => ~EnDicc(c)
    /\ pc[c] = "marcar" => EnDicc(c) /\ Nodo(c) = dicc[Ruta(c)] /\ tabla[Nodo(c)].estado = 0

ArchivosInv == UnaRuta /\ EnUso /\ SoloArchivos /\ \A c \in Conexiones : Atiende(c)

-----------------------------------------------------------------------------
(* Offsets.                                                                  *)

(* The block of an offset, by its pointer and its cell. *)
LEMMA BloqueDeByte ==
  ASSUME NEW n \in 0..(Capacidad - 1)
  PROVE  /\ n \div Celdas = IndicePIS(n) * Celdas + IndiceBloque(n)
         /\ n = (IndicePIS(n) * Celdas + IndiceBloque(n)) * Celdas + IndiceByte(n)
<1> DEFINE p == IndicePIS(n)
           j == IndiceBloque(n)
           h == IndiceByte(n)
<1>1. p \in Nat /\ j \in Nat /\ h \in 0..(Celdas - 1) /\ Celdas \in Nat \ {0}
  BY DesplazamientoDe, Medidas DEF Pis, Celda
<1>2. n = p * (Celdas * Celdas) + (j * Celdas + h)
  BY DesplazamientoDe
<1> HIDE DEF p, j, h
<1>3. p * (Celdas * Celdas) = (p * Celdas) * Celdas /\ p * Celdas \in Nat
  BY <1>1
<1>4. PICK q \in Nat : q = p * Celdas
  BY <1>3
<1>5. (q + j) * Celdas = q * Celdas + j * Celdas /\ q * Celdas \in Nat /\ j * Celdas \in Nat
  BY <1>1
<1>6. n = (q + j) * Celdas + h
  BY <1>1, <1>2, <1>3, <1>4, <1>5
<1>7. n \div Celdas = q + j
  <2>1. ((q + j) * Celdas + h) \div Celdas = q + j
    BY <1>1, DivisionUnica
  <2>2. QED
    BY <1>6, <2>1
<1>8. QED
  BY <1>4, <1>6, <1>7 DEF p, j, h

(* Two offsets are in one block when their pointers and cells are the same. *)
LEMMA MismoBloque ==
  ASSUME NEW n \in 0..(Capacidad - 1), NEW p \in Pis, NEW j \in Celda
  PROVE  /\ n \div Celdas = p * Celdas + j <=> IndicePIS(n) = p /\ IndiceBloque(n) = j
         /\ p * Celdas + j \in 0..(Capacidad - 1)
<1> DEFINE x == IndicePIS(n)
           y == IndiceBloque(n)
<1>1. x \in Pis /\ y \in Celda /\ n \div Celdas = x * Celdas + y
  BY DesplazamientoDe, BloqueDeByte
<1>2. /\ x \in Nat /\ y \in 0..(Celdas - 1) /\ p \in Nat /\ j \in 0..(Celdas - 1) /\ Celdas \in Nat \ {0}
      /\ p + 1 \in Nat /\ p + 1 <= Punteros /\ Punteros \in Nat
  BY <1>1, Medidas DEF Pis, Celda
<1> HIDE DEF x, y
<1>3. x * Celdas + y = p * Celdas + j => x = p /\ y = j
  <2>1. (x * Celdas + y) \div Celdas = x /\ (x * Celdas + y) % Celdas = y
    BY <1>2, DivisionUnica
  <2>2. (p * Celdas + j) \div Celdas = p /\ (p * Celdas + j) % Celdas = j
    BY <1>2, DivisionUnica
  <2>3. QED
    BY <2>1, <2>2
<1>4. p * Celdas + j \in 0..(Capacidad - 1)
  <2>1. (p + 1) * Celdas <= Punteros * Celdas /\ p * Celdas \in Nat /\ Punteros * Celdas \in Nat
    BY <1>2, Crece
  <2>2. (p + 1) * Celdas = p * Celdas + Celdas
    BY <1>2
  <2>3. PICK m \in Nat : m = Punteros * Celdas
    BY <2>1
  <2>4. m * 1 <= m * Celdas /\ m * Celdas \in Nat
    <3>1. 1 * m <= Celdas * m /\ Celdas * m \in Nat
      BY <1>2, Crece
    <3>2. QED
      BY <1>2, <3>1
  <2>5. Capacidad = m * Celdas
    BY <2>3 DEF Capacidad
  <2>6. PICK k \in Nat : k = p * Celdas
    BY <2>1
  <2>7. PICK l \in Nat : l = m * Celdas
    BY <2>4
  <2>8. k + Celdas <= m /\ m <= l /\ Capacidad = l
    BY <2>1, <2>2, <2>3, <2>4, <2>5, <2>6, <2>7
  <2>9. k + j \in 0..(l - 1)
    BY <1>2, <2>8
  <2>10. QED
    BY <2>6, <2>8, <2>9
<1>5. QED
  BY <1>1, <1>3, <1>4 DEF x, y

-----------------------------------------------------------------------------
(* What a file holds, block by block.                                        *)

Byte(i, p, j, h) == IF BloqueDato(i, p, j) \in Datos THEN disco[BloqueDato(i, p, j)][h] ELSE 0

LEMMA ContenidoEs ==
  ASSUME NEW i
  PROVE  /\ Contenido(i) = [n \in 0..(Capacidad - 1) |-> Contenido(i)[n]]
         /\ Contenido(i)' = [n \in 0..(Capacidad - 1) |-> Contenido(i)'[n]]
         /\ \A n \in 0..(Capacidad - 1), p \in Pis, j \in Celda, h \in Celda :
              IndicePIS(n) = p /\ IndiceBloque(n) = j /\ IndiceByte(n) = h =>
                Contenido(i)[n] = Byte(i, p, j, h) /\ Contenido(i)'[n] = Byte(i, p, j, h)'
<1>1. Capacidad = Punteros * Celdas * Celdas
  BY DEF Capacidad
<1>2. Contenido(i) = [n \in 0..(Capacidad - 1) |-> Contenido(i)[n]]
  BY <1>1 DEF Contenido
<1>3. Contenido(i)' = [n \in 0..(Capacidad - 1) |-> Contenido(i)'[n]]
  BY <1>1 DEF Contenido
<1>4. ASSUME NEW n \in 0..(Capacidad - 1), NEW p \in Pis, NEW j \in Celda, NEW h \in Celda,
             IndicePIS(n) = p, IndiceBloque(n) = j, IndiceByte(n) = h
      PROVE  Contenido(i)[n] = Byte(i, p, j, h) /\ Contenido(i)'[n] = Byte(i, p, j, h)'
  <2>1. Contenido(i)[n] = Byte(i, p, j, h)
    BY <1>1, <1>4 DEF Contenido, Byte
  <2>2. Contenido(i)'[n] = Byte(i, p, j, h)'
    BY <1>1, <1>4 DEF Contenido, Byte
  <2>3. QED
    BY <2>1, <2>2
<1>5. QED
  BY <1>2, <1>3, <1>4

LEMMA MismosBytes ==
  ASSUME NEW i, \A p \in Pis, j \in Celda, h \in Celda : Byte(i, p, j, h)' = Byte(i, p, j, h)
  PROVE  Contenido(i)' = Contenido(i)
<1>1. ASSUME NEW n \in 0..(Capacidad - 1) PROVE Contenido(i)'[n] = Contenido(i)[n]
  <2>1. PICK p \in Pis, j \in Celda, h \in Celda : IndicePIS(n) = p /\ IndiceBloque(n) = j /\ IndiceByte(n) = h
    BY DesplazamientoDe
  <2>2. QED
    BY <2>1, ContenidoEs
<1>2. QED
  BY <1>1, ContenidoEs

(* Some bytes of a file change to v; the bytes of one block do. *)
Tramo(i, Q, v) == Contenido(i)' = [n \in DOMAIN Contenido(i) |-> IF n \in Q THEN v ELSE Contenido(i)[n]]

LEMMA OtrosBytes ==
  ASSUME NEW i, NEW q \in Pis, NEW k \in Celda,
         \A p \in Pis, j \in Celda, h \in Celda : p # q \/ j # k => Byte(i, p, j, h)' = Byte(i, p, j, h),
         NEW Q \in SUBSET (0..(Capacidad - 1)), NEW v,
         \A n \in Q : IndicePIS(n) = q /\ IndiceBloque(n) = k,
         \A n \in 0..(Capacidad - 1), h \in Celda :
           IndicePIS(n) = q /\ IndiceBloque(n) = k /\ IndiceByte(n) = h =>
             Byte(i, q, k, h)' = IF n \in Q THEN v ELSE Byte(i, q, k, h)
  PROVE  Tramo(i, Q, v)
<1>1. ASSUME NEW n \in 0..(Capacidad - 1)
      PROVE  Contenido(i)'[n] = IF n \in Q THEN v ELSE Contenido(i)[n]
  <2>1. PICK p \in Pis, j \in Celda, h \in Celda : IndicePIS(n) = p /\ IndiceBloque(n) = j /\ IndiceByte(n) = h
    BY DesplazamientoDe
  <2>2. Contenido(i)[n] = Byte(i, p, j, h) /\ Contenido(i)'[n] = Byte(i, p, j, h)'
    BY <2>1, ContenidoEs
  <2>3. CASE p = q /\ j = k
    <3>1. Byte(i, q, k, h)' = IF n \in Q THEN v ELSE Byte(i, q, k, h)
      BY <2>1, <2>3
    <3>2. QED
      BY <2>2, <2>3, <3>1
  <2>4. CASE p # q \/ j # k
    BY <2>1, <2>2, <2>4
  <2>5. QED
    BY <2>3, <2>4
<1>2. DOMAIN Contenido(i) = 0..(Capacidad - 1)
  BY ContenidoEs
<1>3. QED
  BY <1>1, <1>2, ContenidoEs DEF Tramo

(* A place that is not touched, and a place with nothing. *)
LEMMA ByteIgual ==
  ASSUME NEW i, NEW p, NEW j \in Celda, En(i, p, j)' = En(i, p, j),
         En(i, p, j) \in Datos => disco'[En(i, p, j)] = disco[En(i, p, j)]
  PROVE  \A h \in Celda : Byte(i, p, j, h)' = Byte(i, p, j, h)
<1>1. j # Celdas
  BY Medidas
<1>2. BloqueDato(i, p, j) = En(i, p, j) /\ BloqueDato(i, p, j)' = En(i, p, j)'
  BY <1>1 DEF En
<1>3. PICK b : b = En(i, p, j)
  OBVIOUS
<1>4. BloqueDato(i, p, j)' = b /\ BloqueDato(i, p, j) = b /\ (b \in Datos => disco'[b] = disco[b])
  BY <1>2, <1>3
<1>5. QED
  BY <1>4 DEF Byte

LEMMA ByteCero ==
  ASSUME NEW i, NEW p, NEW j \in Celda, NEW h \in Celda
  PROVE  /\ En(i, p, j) = 0 \/ disco[En(i, p, j)] = Vacio => Byte(i, p, j, h) = 0
         /\ \A b : En(i, p, j)' = b /\ (b = 0 \/ disco'[b] = Vacio) => Byte(i, p, j, h)' = 0
<1>1. j # Celdas /\ 0 \notin Datos /\ Vacio[h] = 0
  BY Medidas
<1>2. BloqueDato(i, p, j) = En(i, p, j) /\ BloqueDato(i, p, j)' = En(i, p, j)'
  BY <1>1 DEF En
<1>3. En(i, p, j) = 0 \/ disco[En(i, p, j)] = Vacio => Byte(i, p, j, h) = 0
  BY <1>1, <1>2 DEF Byte
<1>4. ASSUME NEW b, En(i, p, j)' = b, b = 0 \/ disco'[b] = Vacio PROVE Byte(i, p, j, h)' = 0
  <2>1. BloqueDato(i, p, j)' = b
    BY <1>2, <1>4
  <2>2. QED
    BY <1>1, <1>4, <2>1 DEF Byte
<1>5. QED
  BY <1>3, <1>4

(* A pointer of a node changes when nothing hangs from it, before or after. *)
LEMMA PunteroNoSeVe ==
  ASSUME SacTipo, NEW i \in Indices, NEW p \in Pis, NEW b, b = 0 \/ disco[b] = Vacio, Apuntar(i, p, b), disco' = disco,
         \A j \in Celda : En(i, p, j) = 0
  PROVE  Contenido(i)' = Contenido(i)
<1>1. tabla \in [Indices -> NodoTipo] /\ tabla' = [tabla EXCEPT ![i].punteros[p] = b]
  BY DEF SacTipo, Apuntar
<1>2. \A q \in Pis : BPD(i, q)' = IF q = p THEN b ELSE BPD(i, q)
  BY <1>1 DEF NodoTipo, BPD
<1>3. ASSUME NEW q \in Pis, NEW j \in Celda, NEW h \in Celda PROVE Byte(i, q, j, h)' = Byte(i, q, j, h)
  <2>1. j # Celdas
    BY Medidas
  <2>2. CASE q # p
    <3>1. BPD(i, q)' = BPD(i, q)
      BY <1>2, <2>2
    <3>2. En(i, q, j)' = En(i, q, j)
      BY <2>1, <3>1 DEF En, BloqueDato
    <3>3. QED
      BY <3>2, ByteIgual
  <2>3. CASE q = p
    <3>1. BPD(i, p)' = b
      BY <1>2
    <3>2. BloqueDato(i, p, j)' = 0
      BY <3>1, Medidas DEF BloqueDato
    <3>3. En(i, p, j)' = 0
      BY <2>1, <3>2 DEF En
    <3>4. QED
      BY <2>3, <3>3, ByteCero
  <2>4. QED
    BY <2>2, <2>3
<1>4. QED
  BY <1>3, MismosBytes

LEMMA ApuntarBPDNoSeVe ==
  ASSUME Hipotesis, BloquesInv, NEW c \in Conexiones, ApuntarBPD(c)
  PROVE  Contenido(Nodo(c))' = Contenido(Nodo(c)) /\ Nodo(c)' = Nodo(c)
<1>1. SacTipo /\ Limpios /\ Toma(c)
  BY DEF BloquesInv
<1>2. pc[c] = "apuntar_bpd" /\ pc[c] \in DeEscribir /\ UNCHANGED <<disco, local>>
  BY DEF ApuntarBPD, Esta, DeEscribir
<1>3. PICK i \in Indices, p \in Pis : i = Nodo(c) /\ p = PIS(c)
  BY <1>2, LugarDeEscritura
<1>4. PICK b \in Datos : b = local[c].bloque /\ ~Referido(b)
  BY <1>1, <1>2 DEF Toma, Entra
<1>5. BPD(i, p) = 0 /\ disco[b] = Vacio
  BY <1>1, <1>2, <1>3, <1>4 DEF Toma, Limpios
<1>6. \A j \in Celda : En(i, p, j) = 0
  BY <1>5, Medidas DEF En, BloqueDato
<1>7. Contenido(i)' = Contenido(i)
  BY <1>1, <1>2, <1>3, <1>4, <1>5, <1>6, PunteroNoSeVe DEF ApuntarBPD
<1>8. Nodo(c)' = i
  BY <1>2, <1>3 DEF Nodo
<1>9. QED
  BY <1>3, <1>7, <1>8

(* When only one place changes, and only its block and blocks of pointers do, *)
(* the other places hold what they held.                                      *)
LEMMA OtrosLugares ==
  ASSUME Apuntes, Distintos, NEW i \in Indices, NEW p \in Pis, NEW j \in Celda,
         \A q \in Pis, k \in 0..Celdas : q # p \/ k # j => En(i, q, k)' = En(i, q, k),
         \A z \in Datos : z # En(i, p, j) /\ (\A m \in Indices, q \in Pis : BPD(m, q) # z) => disco'[z] = disco[z]
  PROVE  \A q \in Pis, k \in Celda, h \in Celda : q # p \/ k # j => Byte(i, q, k, h)' = Byte(i, q, k, h)
<1> SUFFICES ASSUME NEW q \in Pis, NEW k \in Celda, q # p \/ k # j
             PROVE  \A h \in Celda : Byte(i, q, k, h)' = Byte(i, q, k, h)
  OBVIOUS
<1>1. k \in 0..Celdas /\ j \in 0..Celdas /\ k # Celdas
  BY Medidas
<1>2. En(i, q, k)' = En(i, q, k)
  BY <1>1
<1>3. ASSUME En(i, q, k) \in Datos PROVE disco'[En(i, q, k)] = disco[En(i, q, k)]
  <2>1. En(i, q, k) # 0 /\ BloqueDato(i, q, k) = En(i, q, k)
    BY <1>1, <1>3, Medidas DEF En
  <2>2. \A m \in Indices, r \in Pis : BPD(m, r) # En(i, q, k)
    BY <2>1, DatoNoEsBPD
  <2>3. En(i, q, k) # En(i, p, j)
    BY <1>1, <2>1 DEF Distintos
  <2>4. QED
    BY <1>3, <2>2, <2>3
<1>4. QED
  BY <1>2, <1>3, ByteIgual

LEMMA ApuntarDatoNoSeVe ==
  ASSUME Hipotesis, BloquesInv, NEW c \in Conexiones, ApuntarDato(c)
  PROVE  Contenido(Nodo(c))' = Contenido(Nodo(c)) /\ Nodo(c)' = Nodo(c)
<1>1. SacTipo /\ Apuntes /\ Distintos /\ Limpios /\ Toma(c)
  BY DEF BloquesInv
<1>2. pc[c] = "apuntar_dato" /\ pc[c] \in DeEscribir /\ UNCHANGED <<tabla, local>>
  BY DEF ApuntarDato, Esta, DeEscribir
<1>3. PICK i \in Indices, p \in Pis, j \in Celda : i = Nodo(c) /\ p = PIS(c) /\ j = Entrada(c)
  BY <1>2, LugarDeEscritura
<1>4. j \in 0..Celdas /\ j # Celdas /\ Celdas \in 0..Celdas
  BY Medidas
<1>5. PICK b \in Datos : b = local[c].bloque /\ ~Referido(b) /\ b # 0 /\ disco[b] = Vacio
  BY <1>1, <1>2, Medidas DEF Toma, Entra, Limpios
<1>6. BPD(i, p) # 0 /\ En(i, p, j) = 0
  BY <1>1, <1>2, <1>3, <1>4 DEF Toma, En
<1>7. PICK x \in Datos : x = BPD(i, p)
  BY <1>1, <1>4, <1>6 DEF Apuntes, En
<1>8. disco' = [disco EXCEPT ![x][j] = b] /\ disco \in [Datos -> [Celda -> Nat]]
  BY <1>1, <1>3, <1>5, <1>7 DEF ApuntarDato, SacTipo
<1>9. disco'[x] = [disco[x] EXCEPT ![j] = b] /\ \A y \in Datos : y # x => disco'[y] = disco[y]
  BY <1>8
<1>10. Cambia(i, p, j, b)
  <2>1. \A k \in Indices, q \in Pis : BPD(k, q) # 0 => BPD(k, q) \in Datos
    BY <1>1, <1>4 DEF Apuntes, En
  <2>2. QED
    BY <1>1, <1>2, <1>5, <1>6, <1>7, <1>9, <2>1, CambiaCelda
<1>11. \A q \in Pis, k \in Celda, h \in Celda : q # p \/ k # j => Byte(i, q, k, h)' = Byte(i, q, k, h)
  BY <1>1, <1>7, <1>9, <1>10, OtrosLugares DEF Cambia
<1>12. b # x
  BY <1>4, <1>5, <1>7 DEF Referido, En
<1>13. En(i, p, j)' = b /\ disco'[b] = Vacio
  BY <1>5, <1>9, <1>10, <1>12 DEF Cambia
<1>14. \A h \in Celda : Byte(i, p, j, h)' = Byte(i, p, j, h)
  BY <1>6, <1>13, ByteCero
<1>15. Contenido(i)' = Contenido(i)
  BY <1>11, <1>14, MismosBytes
<1>16. Nodo(c)' = i
  BY <1>2, <1>3 DEF Nodo
<1>17. QED
  BY <1>3, <1>15, <1>16

(* A loop takes a pointer away, with its block empty already. *)
LEMMA BorrarPunteroNoSeVe ==
  ASSUME Hipotesis, BloquesInv, NEW c \in Conexiones, NEW i, i = Nodo(c),
         LimpiarPuntero(c) \/ (DesapuntarBloque(c) /\ AlFinal(local[c].cursor))
  PROVE  Contenido(i)' = Contenido(i)
<1>1. SacTipo /\ Apuntes /\ Distintos
  BY DEF BloquesInv
<1>3. /\ pc[c] \in {"limpiar_puntero", "desapuntar"} /\ pc[c] \in DeVaciar
      /\ disco' = disco /\ Apuntar(i, PosPIS(local[c].cursor), 0)
  BY DEF LimpiarPuntero, DesapuntarBloque, Esta, DeVaciar
<1>4. i \in Indices /\ EnBucle(c)
  BY <1>3, PuntosDeVaciar
<1>5. PICK n \in Posiciones : n = local[c].cursor
  BY <1>3, <1>4 DEF EnBucle
<1>6. AlFinal(n)
  <2>1. CASE LimpiarPuntero(c)
    BY <1>4, <1>5, <2>1 DEF EnBucle, LimpiarPuntero, Esta
  <2>2. CASE DesapuntarBloque(c) /\ AlFinal(local[c].cursor)
    BY <1>5, <2>2
  <2>3. QED
    BY <2>1, <2>2
<1>7. PICK p \in Pis : p = PosPIS(n) /\ n = Pos(p, Celdas)
  BY <1>6, CamposDePosicion DEF AlFinal
<1>8. \A j \in Celda : En(i, p, j) = 0
  BY <1>4, <1>5, <1>7, CeldasAntes, Medidas DEF EnBucle
<1>9. QED
  BY <1>1, <1>3, <1>4, <1>5, <1>7, <1>8, PunteroNoSeVe

(* A block of a file is left with zeros. *)
DelBloque(k) == {m \in 0..(Capacidad - 1) : m \div Celdas = k}
SeBorra(i) == \E k \in 0..(Capacidad - 1) : Tramo(i, DelBloque(k), 0)

LEMMA QuedaEnCero ==
  ASSUME Apuntes, Distintos, NEW i \in Indices, NEW p \in Pis, NEW j \in Celda,
         \A q \in Pis, k \in 0..Celdas : q # p \/ k # j => En(i, q, k)' = En(i, q, k),
         \A z \in Datos : z # En(i, p, j) /\ (\A m \in Indices, q \in Pis : BPD(m, q) # z) => disco'[z] = disco[z],
         NEW b, En(i, p, j)' = b, b = 0 \/ disco'[b] = Vacio
  PROVE  SeBorra(i) /\ (disco[En(i, p, j)] = Vacio => Contenido(i)' = Contenido(i))
<1>1. \A q \in Pis, k \in Celda, h \in Celda : q # p \/ k # j => Byte(i, q, k, h)' = Byte(i, q, k, h)
  BY OtrosLugares
<1>2. \A h \in Celda : Byte(i, p, j, h)' = 0
  BY ByteCero
<1>3. PICK k \in 0..(Capacidad - 1) :
        \A n \in 0..(Capacidad - 1) : n \div Celdas = k <=> IndicePIS(n) = p /\ IndiceBloque(n) = j
  <2>1. PICK k : k = p * Celdas + j
    OBVIOUS
  <2>2. 0 \in 0..(Capacidad - 1)
    <3>1. Capacidad \in Nat \ {0}
      <4>1. Punteros \in Nat \ {0} /\ Celdas \in Nat \ {0}
        BY Medidas
      <4>2. PICK a \in Nat \ {0} : a = Punteros * Celdas
        BY <4>1
      <4>3. a * Celdas \in Nat \ {0}
        BY <4>1
      <4>4. QED
        BY <4>2, <4>3 DEF Capacidad
    <3>2. QED
      BY <3>1
  <2>3. k \in 0..(Capacidad - 1)
    BY <2>1, <2>2, MismoBloque
  <2>4. QED
    BY <2>1, <2>3, MismoBloque
<1>4. Tramo(i, DelBloque(k), 0)
  <2>1. DelBloque(k) \in SUBSET (0..(Capacidad - 1))
    BY DEF DelBloque
  <2>2. \A n \in DelBloque(k) : IndicePIS(n) = p /\ IndiceBloque(n) = j
    BY <1>3 DEF DelBloque
  <2>3. \A n \in 0..(Capacidad - 1) : IndicePIS(n) = p /\ IndiceBloque(n) = j => n \in DelBloque(k)
    BY <1>3 DEF DelBloque
  <2>4a. PICK v : v = 0
    OBVIOUS
  <2>4. PICK Q \in SUBSET (0..(Capacidad - 1)) : Q = DelBloque(k) /\ v = 0
    BY <2>4a, <2>1
  <2>5. \A n \in 0..(Capacidad - 1), h \in Celda :
          IndicePIS(n) = p /\ IndiceBloque(n) = j /\ IndiceByte(n) = h =>
            Byte(i, p, j, h)' = IF n \in Q THEN v ELSE Byte(i, p, j, h)
    BY <1>2, <2>3, <2>4
  <2>6. Tramo(i, Q, v)
    <3>1. \A n \in Q : IndicePIS(n) = p /\ IndiceBloque(n) = j
      BY <2>2, <2>4
    <3>2. QED
      BY <1>1, <2>5, <3>1, OtrosBytes
  <2>7. QED
    BY <2>4, <2>6
<1>5. disco[En(i, p, j)] = Vacio => Contenido(i)' = Contenido(i)
  <2>1. disco[En(i, p, j)] = Vacio => \A h \in Celda : Byte(i, p, j, h) = 0
    BY ByteCero
  <2>2. QED
    BY <1>1, <1>2, <2>1, MismosBytes
<1>6. QED
  BY <1>4, <1>5 DEF SeBorra

(* A loop takes a block of data away, clearing it or with it clean. *)
LEMMA BorrarCeldaSeVe ==
  ASSUME Hipotesis, BloquesInv, NEW c \in Conexiones, NEW i, i = Nodo(c),
         LimpiarDato(c) \/ (DesapuntarBloque(c) /\ ~AlFinal(local[c].cursor))
  PROVE  (LimpiarDato(c) => SeBorra(i)) /\ (~LimpiarDato(c) => Contenido(i)' = Contenido(i))
<1>1. SacTipo /\ Apuntes /\ Distintos
  BY DEF BloquesInv
<1>3. pc[c] \in {"limpiar_dato", "desapuntar"} /\ pc[c] \in DeVaciar /\ tabla' = tabla
  BY DEF LimpiarDato, DesapuntarBloque, Esta, DeVaciar
<1>4. i \in Indices /\ EnBucle(c)
  BY <1>3, PuntosDeVaciar
<1>6. PICK n \in Posiciones : n = local[c].cursor
  BY <1>3, <1>4 DEF EnBucle
<1>7. ~AlFinal(n) /\ AlCursor(c) # 0 /\ (~LimpiarDato(c) => disco[AlCursor(c)] = Vacio)
  <2>1. CASE LimpiarDato(c)
    BY <1>3, <1>4, <1>6, <2>1 DEF EnBucle, LimpiarDato, Esta
  <2>2. CASE DesapuntarBloque(c) /\ ~AlFinal(local[c].cursor)
    BY <1>3, <1>4, <1>6, <2>2 DEF EnBucle, DesapuntarBloque, Esta
  <2>3. QED
    BY <2>1, <2>2
<1>8. PICK p \in Pis, j \in Celda : p = PosPIS(n) /\ j = PosEntrada(n)
  <2>1. PosPIS(n) \in Pis /\ PosEntrada(n) \in 0..Celdas /\ PosEntrada(n) # Celdas
    BY <1>6, <1>7, CamposDePosicion DEF AlFinal
  <2>2. PosEntrada(n) \in Celda
    BY <2>1, Medidas DEF Celda
  <2>3. QED
    BY <2>1, <2>2
<1>9. AlCursor(c) = BloqueDato(i, p, j)
  BY <1>6, <1>7, <1>8 DEF AlCursor, BloqueEn
<1>10. PICK x \in Datos, y \in Datos : x = AlCursor(c) /\ y = BPD(i, p)
  BY <1>1, <1>4, <1>7, <1>9, DatoNoEsBPD
<1>11. x # y /\ x = En(i, p, j) /\ y # 0
  BY <1>1, <1>4, <1>7, <1>9, <1>10, DatoNoEsBPD, Medidas
<1>12. PICK b \in {0} \cup Datos : b = 0
  OBVIOUS
<1>13. disco \in [Datos -> [Celda -> Nat]]
  BY <1>1 DEF SacTipo
<1>14. disco'[y] = [disco[y] EXCEPT ![j] = b] /\ \A z \in Datos : z # x /\ z # y => disco'[z] = disco[z]
  <2>1. CASE LimpiarDato(c)
    <3>1. disco' = [disco EXCEPT ![x] = Vacio, ![y][j] = 0]
      BY <1>6, <1>8, <1>10, <2>1 DEF LimpiarDato, AlCursor
    <3> DEFINE d == [disco EXCEPT ![x] = Vacio]
    <3>2. d \in [Datos -> [Celda -> Nat]] /\ d[x] = Vacio /\ \A z \in Datos : z # x => d[z] = disco[z]
      BY <1>13, Medidas
    <3>3. disco' = [d EXCEPT ![y][j] = b]
      BY <1>12, <3>1
    <3> HIDE DEF d
    <3>4. disco'[y] = [d[y] EXCEPT ![j] = b] /\ \A z \in Datos : z # y => disco'[z] = d[z]
      BY <3>2, <3>3
    <3>5. QED
      BY <1>11, <3>2, <3>4
  <2>2. CASE DesapuntarBloque(c) /\ ~AlFinal(local[c].cursor)
    <3>1. disco' = [disco EXCEPT ![y][j] = b]
      BY <1>6, <1>8, <1>10, <1>12, <2>2 DEF DesapuntarBloque, Desapuntar
    <3>2. QED
      BY <1>13, <3>1
  <2>3. QED
    BY <2>1, <2>2
<1>15. Cambia(i, p, j, b)
  <2>1. \A k \in Indices, q \in Pis : BPD(k, q) # 0 => BPD(k, q) \in Datos
    BY <1>1, Medidas DEF Apuntes, En
  <2>2. \A k \in Indices, q \in Pis : BPD(k, q) # x
    BY <1>1, <1>4, <1>7, <1>9, <1>10, DatoNoEsBPD
  <2>3. QED
    BY <1>1, <1>3, <1>4, <1>10, <1>11, <1>12, <1>14, <2>1, <2>2, CambiaCelda
<1>16. SeBorra(i) /\ (disco[En(i, p, j)] = Vacio => Contenido(i)' = Contenido(i))
  <2>1. /\ \A q \in Pis, k \in 0..Celdas : q # p \/ k # j => En(i, q, k)' = En(i, q, k)
        /\ En(i, p, j)' = b
    BY <1>4, <1>15 DEF Cambia
  <2>2. \A z \in Datos : z # En(i, p, j) /\ (\A m \in Indices, q \in Pis : BPD(m, q) # z) => disco'[z] = disco[z]
    BY <1>4, <1>10, <1>11, <1>14
  <2>3. QED
    BY <1>1, <1>4, <1>12, <2>1, <2>2, QuedaEnCero
<1>17. QED
  BY <1>7, <1>10, <1>11, <1>16

LEMMA VaciarDatoSeVe ==
  ASSUME Hipotesis, BloquesInv, NEW c \in Conexiones, NEW i, i = Nodo(c), VaciarDato(c)
  PROVE  SeBorra(i)
<1>1. SacTipo /\ Apuntes /\ Distintos
  BY DEF BloquesInv
<1>2. PICK m : m = Proximo(c)
  OBVIOUS
<1>3. Vaciando(c, "vaciar") /\ ~AlFinal(m) /\ tabla' = tabla /\ disco' = [disco EXCEPT ![BloqueEn(i, m)] = Vacio]
  BY <1>2 DEF VaciarDato, EnCero
<1>4. /\ m \in Posiciones /\ PosPIS(m) \in Pis /\ PosEntrada(m) \in 0..Celdas
      /\ BloqueEn(i, m) \in Datos /\ BloqueEn(i, m) = En(i, PosPIS(m), PosEntrada(m))
  BY <1>2, <1>3, ProximoBloque
<1>5. PICK p \in Pis, j \in Celda : p = PosPIS(m) /\ j = PosEntrada(m)
  BY <1>3, <1>4, Medidas DEF AlFinal, Celda
<1>6. PICK x \in Datos : x = En(i, p, j)
  BY <1>4, <1>5
<1>7. i \in Indices
  BY <1>3, PuntosDeVaciar DEF Vaciando, Esta, DeVaciar
<1>8. disco'[x] = Vacio /\ \A z \in Datos : z # x => disco'[z] = disco[z]
  BY <1>1, <1>3, <1>4, <1>5, <1>6 DEF SacTipo
<1>9. \A k \in Indices, q \in Pis : BPD(k, q) # x
  <2>1. BloqueDato(i, p, j) = En(i, p, j) /\ x # 0
    BY <1>6, Medidas DEF En
  <2>2. QED
    BY <1>1, <1>6, <1>7, <2>1, DatoNoEsBPD
<1>10. \A k \in Indices, q \in Pis, h \in 0..Celdas : En(k, q, h)' = En(k, q, h)
  <2>1. \A k \in Indices, q \in Pis : BPD(k, q) # 0 => BPD(k, q) \in Datos
    BY <1>1, Medidas DEF Apuntes, En
  <2>2. QED
    BY <1>3, <1>8, <1>9, <2>1, SinTocarBPD
<1>11. En(i, p, j)' = x
  BY <1>6, <1>7, <1>10, Medidas
<1>12. QED
  BY <1>1, <1>6, <1>7, <1>8, <1>10, <1>11, QuedaEnCero

-----------------------------------------------------------------------------
(* The bytes of a write.                                                     *)

LEMMA OffsetDe ==
  ASSUME NEW p \in Pis, NEW j \in Celda, NEW h \in Celda, NEW n, n = (p * Celdas + j) * Celdas + h
  PROVE  n \in 0..(Capacidad - 1) /\ IndicePIS(n) = p /\ IndiceBloque(n) = j /\ IndiceByte(n) = h
<1> DEFINE d == Celdas * Celdas
           r == j * Celdas + h
<1>1. /\ Celdas \in Nat \ {0} /\ Punteros \in Nat \ {0} /\ d \in Nat \ {0} /\ h \in 0..(Celdas - 1)
      /\ p \in Nat /\ p + 1 \in Nat /\ p + 1 <= Punteros /\ j \in Nat /\ j + 1 \in Nat /\ j + 1 <= Celdas
  BY Medidas DEF Pis, Celda
<1>2. Capacidad = Punteros * d
  BY <1>1 DEF Capacidad
<1>3. d = Celdas * Celdas /\ r = j * Celdas + h
  OBVIOUS
<1> HIDE DEF d, r
<1>4. (j + 1) * Celdas <= Celdas * Celdas /\ j * Celdas \in Nat /\ (j + 1) * Celdas = j * Celdas + Celdas
  BY <1>1, Crece
<1>5. r \in 0..(d - 1)
  BY <1>1, <1>3, <1>4
<1>6. (p + 1) * d <= Punteros * d /\ p * d \in Nat /\ Punteros * d \in Nat
  BY <1>1, Crece
<1>7. (p + 1) * d = p * d + d
  BY <1>1
<1>8. n = p * d + r
  <2>1. PICK q \in Nat : q = p * Celdas
    BY <1>1
  <2>2. q * Celdas = p * d
    BY <1>1, <1>3, <2>1
  <2>3. (q + j) * Celdas = q * Celdas + j * Celdas
    BY <1>1, <2>1
  <2>4. QED
    BY <1>1, <1>3, <1>4, <1>6, <2>1, <2>2, <2>3
<1>9. n \in 0..(Capacidad - 1)
  BY <1>1, <1>2, <1>5, <1>6, <1>7, <1>8
<1>10. n \div d = p /\ n % d = r
  BY <1>1, <1>5, <1>8, DivisionUnica
<1>11. r \div Celdas = j /\ r % Celdas = h
  <2>1. (j * Celdas + h) \div Celdas = j /\ (j * Celdas + h) % Celdas = h
    BY <1>1, DivisionUnica
  <2>2. QED
    BY <1>3, <2>1
<1>12. IndicePIS(n) = p /\ IndiceBloque(n) = j /\ IndiceByte(n) = h
  BY <1>3, <1>10, <1>11 DEF IndicePIS, IndiceBloque, IndiceByte
<1>13. QED
  BY <1>9, <1>12

(* Those asked for, up to the end of the block of the first. *)
LEMMA EscritosSon ==
  ASSUME NEW r, NEW desde \in 0..(Capacidad - 1), NEW largo \in Nat, r.desde = desde, r.largo = largo,
         NEW p, NEW j, NEW byte, p = IndicePIS(desde), j = IndiceBloque(desde), byte = IndiceByte(desde),
         NEW m, m = Min({largo, Celdas - byte}), NEW Q, Q = B!Escritos(r)
  PROVE  /\ Q \subseteq 0..(Capacidad - 1) /\ \A n \in Q : IndicePIS(n) = p /\ IndiceBloque(n) = j
         /\ \A n \in 0..(Capacidad - 1), h \in Celda :
              IndicePIS(n) = p /\ IndiceBloque(n) = j /\ IndiceByte(n) = h =>
                (n \in Q <=> h \in byte..(byte + m - 1))
<1>0. Q = {n \in desde..(desde + largo - 1) : n \div Celdas = desde \div Celdas}
  BY DEF B!Escritos
<1>1. p \in Pis /\ j \in Celda /\ byte \in Celda
  BY DesplazamientoDe
<1>2. Celdas \in Nat \ {0} /\ byte \in 0..(Celdas - 1) /\ p * Celdas + j \in Nat
  <2>1. p \in Nat /\ j \in Nat /\ Celdas \in Nat \ {0} /\ byte \in 0..(Celdas - 1)
    BY <1>1, Medidas DEF Pis, Celda
  <2>2. QED
    BY <2>1
<1>3. PICK k \in Nat : k = p * Celdas + j
  BY <1>2
<1>4. PICK z \in Nat : z = k * Celdas
  BY <1>2
<1>5. desde \div Celdas = k /\ desde = z + byte
  BY <1>3, <1>4, BloqueDeByte
<1>6. m \in Nat /\ m <= largo /\ m <= Celdas - byte /\ (m = largo \/ m = Celdas - byte)
  <2>1. {largo, Celdas - byte} \in SUBSET Nat
    BY <1>2
  <2>2. QED
    BY <2>1, MinimoDe
<1>7. ASSUME NEW n \in Q
      PROVE  n \in 0..(Capacidad - 1) /\ IndicePIS(n) = p /\ IndiceBloque(n) = j
  <2>1. n \in Nat /\ n \div Celdas = k
    BY <1>0, <1>5
  <2>2. PICK h \in 0..(Celdas - 1) : h = n % Celdas
    BY <1>2, <2>1
  <2>3. n = Celdas * (n \div Celdas) + (n % Celdas)
    BY <1>2, <2>1
  <2>4. n = (p * Celdas + j) * Celdas + h
    <3>1. Celdas * k = k * Celdas
      BY <1>2
    <3>2. n = k * Celdas + h
      BY <2>1, <2>2, <2>3, <3>1
    <3>3. QED
      BY <1>3, <3>2
  <2>5. QED
    BY <1>1, <2>2, <2>4, OffsetDe DEF Celda
<1>8. ASSUME NEW n \in 0..(Capacidad - 1), NEW h \in Celda,
             IndicePIS(n) = p, IndiceBloque(n) = j, IndiceByte(n) = h
      PROVE  n \in Q <=> h \in byte..(byte + m - 1)
  <2>1. n \div Celdas = k /\ n = z + h
    BY <1>3, <1>4, <1>8, BloqueDeByte
  <2>2. h \in 0..(Celdas - 1) /\ n \in Nat /\ desde \in Nat
    BY DEF Celda
  <2>3. n \in Q <=> n \in desde..(desde + largo - 1)
    BY <1>0, <1>5, <2>1
  <2>4. QED
    BY <1>2, <1>4, <1>5, <1>6, <2>1, <2>2, <2>3
<1>9. QED
  BY <1>7, <1>8

LEMMA EscribirBytesSeVe ==
  ASSUME Hipotesis, BloquesInv, NEW c \in Conexiones, EscribirBytes(c), NEW i, i = Nodo(c)
  PROVE  Tramo(i, B!Escritos(pedido[c]), pedido[c].valor)
<1>1. SacTipo /\ Apuntes /\ Distintos
  BY DEF BloquesInv
<1>2. pc[c] = "escribir_dato" /\ pc[c] \in DeEscribir
  BY DEF EscribirBytes, Esta, DeEscribir
<1>3. PICK p \in Pis, j \in Celda, byte \in Celda :
        p = PIS(c) /\ j = Entrada(c) /\ byte = IndiceByte(pedido[c].desde)
  BY <1>2, LugarDeEscritura
<1>4. i \in Indices /\ pedido[c] # Nada /\ pedido[c].op = "WRITE"
  BY <1>2, LugarDeEscritura
<1>5. PICK v \in Nat, desde \in 0..(Capacidad - 1), largo \in Nat :
        v = pedido[c].valor /\ desde = pedido[c].desde /\ largo = pedido[c].largo
  <2>1. Sirve(c)
    BY DEF BloquesInv
  <2>2. pedido[c].desde \in 0..(Capacidad - 1) /\ pedido[c].largo \in Nat /\ pedido[c].valor \in Nat
    BY <1>4, <2>1, RutasDePedido
  <2>3. QED
    BY <2>2
<1>6. PICK m : m = Min({largo, Celdas - byte})
  OBVIOUS
<1>7. BloqueDato(i, p, j) # 0
  BY <1>3 DEF EscribirBytes
<1>8. PICK b \in Datos : b = BloqueDato(i, p, j)
  BY <1>1, <1>4, <1>7, DatoNoEsBPD
<1>9. b = En(i, p, j) /\ \A k \in Indices, q \in Pis : BPD(k, q) # b
  BY <1>1, <1>4, <1>7, <1>8, DatoNoEsBPD
<1>10. disco' = [disco EXCEPT ![b] = [h \in DOMAIN @ |-> IF h \in byte..(byte + m - 1) THEN v ELSE @[h]]]
  BY <1>3, <1>5, <1>6, <1>8 DEF EscribirBytes
<1>11. disco \in [Datos -> [Celda -> Nat]] /\ tabla \in [Indices -> NodoTipo]
  BY <1>1 DEF SacTipo
<1>12. /\ \A x \in Datos : x # b => disco'[x] = disco[x]
       /\ \A h \in Celda : disco'[b][h] = IF h \in byte..(byte + m - 1) THEN v ELSE disco[b][h]
  BY <1>10, <1>11
<1>13. \A k \in Indices : tabla'[k].punteros = tabla[k].punteros
  <2>1. PICK t : tabla' = [tabla EXCEPT ![i].tamanio = t]
    BY DEF EscribirBytes
  <2>2. QED
    BY <1>11, <2>1 DEF NodoTipo
<1>14. \A k \in Indices, q \in Pis, h \in 0..Celdas : En(k, q, h)' = En(k, q, h)
  <2>1. \A k \in Indices, q \in Pis : BPD(k, q) # 0 => BPD(k, q) \in Datos
    BY <1>1, Medidas DEF Apuntes, En
  <2>2. QED
    BY <1>9, <1>12, <1>13, <2>1, SinTocarBPD
<1>15. \A q \in Pis, k \in Celda, h \in Celda : q # p \/ k # j => Byte(i, q, k, h)' = Byte(i, q, k, h)
  BY <1>1, <1>4, <1>9, <1>12, <1>14, OtrosLugares
<1>16. PICK r, Q : r = pedido[c] /\ Q = B!Escritos(r)
  OBVIOUS
<1>17. /\ Q \in SUBSET (0..(Capacidad - 1)) /\ \A n \in Q : IndicePIS(n) = p /\ IndiceBloque(n) = j
       /\ \A n \in 0..(Capacidad - 1), h \in Celda :
            IndicePIS(n) = p /\ IndiceBloque(n) = j /\ IndiceByte(n) = h =>
              (n \in Q <=> h \in byte..(byte + m - 1))
  <2>1. p = IndicePIS(desde) /\ j = IndiceBloque(desde) /\ byte = IndiceByte(desde)
    BY <1>3, <1>5 DEF PIS, Entrada
  <2>2. r.desde = desde /\ r.largo = largo
    BY <1>5, <1>16
  <2>3. QED
    BY <1>6, <1>16, <2>1, <2>2, EscritosSon
<1>18. \A h \in Celda : Byte(i, p, j, h)' = IF h \in byte..(byte + m - 1) THEN v ELSE Byte(i, p, j, h)
  <2>1. j # Celdas /\ Celdas \in 0..Celdas /\ j \in 0..Celdas
    BY Medidas
  <2>2. BloqueDato(i, p, j)' = b
    BY <1>4, <1>9, <1>14, <2>1 DEF En
  <2>3. QED
    BY <1>8, <1>12, <2>2 DEF Byte
<1>19. \A n \in 0..(Capacidad - 1), h \in Celda :
         IndicePIS(n) = p /\ IndiceBloque(n) = j /\ IndiceByte(n) = h =>
           Byte(i, p, j, h)' = IF n \in Q THEN v ELSE Byte(i, p, j, h)
  BY <1>17, <1>18
<1>20. Tramo(i, Q, v)
  BY <1>15, <1>17, <1>19, OtrosBytes
<1>21. QED
  BY <1>5, <1>16, <1>20

-----------------------------------------------------------------------------
(* The files by their paths.                                                 *)

Nulo == [n \in 0..(Capacidad - 1) |-> 0]

LEMMA GuardadoEs ==
  /\ Guardado = [p \in RutasDatos |-> Guardado[p]] /\ Guardado' = [p \in RutasDatos |-> Guardado'[p]]
  /\ \A p \in RutasDatos : p \notin DOMAIN dicc => Guardado[p] = Nulo
  /\ \A p \in RutasDatos : p \notin DOMAIN dicc' => Guardado'[p] = Nulo
  /\ \A p \in RutasDatos : \A i : p \in DOMAIN dicc /\ dicc[p] = i => Guardado[p] = Contenido(i)
  /\ \A p \in RutasDatos : \A i : p \in DOMAIN dicc' /\ dicc'[p] = i => Guardado'[p] = Contenido(i)'
<1>1. Guardado = [p \in RutasDatos |-> Guardado[p]] /\ Guardado' = [p \in RutasDatos |-> Guardado'[p]]
  BY DEF Guardado
<1>2. ASSUME NEW p \in RutasDatos, p \notin DOMAIN dicc PROVE Guardado[p] = Nulo
  BY <1>2 DEF Guardado, Visto, Nulo
<1>3. ASSUME NEW p \in RutasDatos, p \notin DOMAIN dicc' PROVE Guardado'[p] = Nulo
  BY <1>3 DEF Guardado, Visto, Nulo
<1>4. ASSUME NEW p \in RutasDatos, NEW i, p \in DOMAIN dicc, dicc[p] = i PROVE Guardado[p] = Contenido(i)
  BY <1>4 DEF Guardado, Visto
<1>5. ASSUME NEW p \in RutasDatos, NEW i, p \in DOMAIN dicc', dicc'[p] = i PROVE Guardado'[p] = Contenido(i)'
  BY <1>5 DEF Guardado, Visto, Contenido, BloqueDato, BPD
<1>6. QED
  BY <1>1, <1>2, <1>3, <1>4, <1>5

LEMMA GuardadoIgual ==
  ASSUME SacTipo, dicc' = dicc, \A i \in Indices : Contenido(i)' = Contenido(i)
  PROVE  Guardado' = Guardado
<1>1. ASSUME NEW p \in RutasDatos PROVE Guardado'[p] = Guardado[p]
  <2>1. CASE p \in DOMAIN dicc
    <3>1. PICK i \in Indices : i = dicc[p]
      BY <2>1 DEF SacTipo
    <3>2. QED
      BY <2>1, <3>1, GuardadoEs
  <2>2. CASE p \notin DOMAIN dicc
    BY <2>2, GuardadoEs
  <2>3. QED
    BY <2>1, <2>2
<1>2. QED
  BY <1>1, GuardadoEs

(* When the bytes of one file change, those of its path do. *)
LEMMA GuardadoCon ==
  ASSUME SacTipo, dicc' = dicc, UnaRuta, NEW r \in RutasDatos, r \in DOMAIN dicc, NEW i, i = dicc[r],
         \A k \in Indices : k # i => Contenido(k)' = Contenido(k),
         NEW X, NEW v, Tramo(i, X, v)
  PROVE  Guardado' = B!Con(r, X, v)
<1>1. Guardado[r] = Contenido(i) /\ Guardado'[r] = Contenido(i)'
  BY GuardadoEs
<1>2. PICK g : g = [n \in DOMAIN Guardado[r] |-> IF n \in X THEN v ELSE Guardado[r][n]]
  OBVIOUS
<1>3. Guardado'[r] = g
  BY <1>1, <1>2 DEF Tramo
<1>4. ASSUME NEW p \in RutasDatos, p # r PROVE Guardado'[p] = Guardado[p]
  <2>1. CASE p \in DOMAIN dicc
    <3>1. PICK k \in Indices : k = dicc[p]
      BY <2>1 DEF SacTipo
    <3>2. k # i
      BY <1>4, <2>1, <3>1 DEF UnaRuta
    <3>3. QED
      BY <2>1, <3>1, <3>2, GuardadoEs
  <2>2. CASE p \notin DOMAIN dicc
    BY <2>2, GuardadoEs
  <2>3. QED
    BY <2>1, <2>2
<1>5. B!Con(r, X, v) = [Guardado EXCEPT ![r] = g]
  BY <1>2 DEF B!Con
<1>6. QED
  BY <1>3, <1>4, <1>5, GuardadoEs

LEMMA SinBloquesNulo ==
  ASSUME NEW i, \A p \in Pis, j \in Celda : BloqueDato(i, p, j) = 0
  PROVE  Contenido(i) = Nulo
<1>1. ASSUME NEW n \in 0..(Capacidad - 1) PROVE Contenido(i)[n] = 0
  <2>1. PICK p \in Pis, j \in Celda, h \in Celda : IndicePIS(n) = p /\ IndiceBloque(n) = j /\ IndiceByte(n) = h
    BY DesplazamientoDe
  <2>2. Byte(i, p, j, h) = 0
    BY Medidas DEF Byte
  <2>3. QED
    BY <2>1, <2>2, ContenidoEs
<1>2. QED
  BY <1>1, ContenidoEs DEF Nulo

-----------------------------------------------------------------------------
(* What a step of the server is for the abstract files.                      *)

Fiel == B!Next \/ UNCHANGED <<Guardado, pedido, respuesta, leido>>

LEMMA FielSigue ==
  ASSUME NEW c, NEW punto, Ir(c, punto), Guardado' = Guardado
  PROVE  Fiel
  BY DEF Ir, Fiel

LEMMA FielTermina ==
  ASSUME NEW c \in Conexiones, NEW punto, NEW r \in {"", "ok", "error"}, Terminar(c, punto, r),
         Enviar(c, <<>>), pedido[c] # Nada, Guardado' = Guardado,
         r = "ok" => /\ pedido[c].op \notin {"WRITE", "READ"}
                     /\ pedido[c].op = "UNLINK" \/ (pedido[c].op = "TRUNCATE" /\ pedido[c].hasta = 0)
                          => Guardado[Ruta(c)] = Nulo
  PROVE  Fiel
<1>1. B!Contesta(c, r)
  BY DEF Terminar, Enviar, B!Contesta, B!ContestaCon
<1>2. CASE r = "ok"
  <2>1. B!Quedar(c)
    BY <1>1, <1>2 DEF B!Quedar, B!Ceros, Nulo, Ruta
  <2>2. QED
    BY <2>1 DEF B!Next, Fiel
<1>3. CASE r # "ok"
  <2>1. B!Fallar(c)
    BY <1>1, <1>3 DEF B!Fallar
  <2>2. QED
    BY <2>1 DEF B!Next, Fiel
<1>4. QED
  BY <1>2, <1>3

-----------------------------------------------------------------------------
(* The steps that leave the paths as they are.                               *)

LEMMA SirvenSon ==
  /\ \A punto \in DeCrear : Sirven(punto) = {"MKNOD", "MKDIR", "OPEN"}
  /\ \A punto \in {"tomar_nodo", "con_nodo"} : Sirven(punto) = ConNodo
  /\ \A punto \in {"entradas", "borrar_directorio"} : Sirven(punto) = {"RMDIR"}
  /\ \A punto \in {"tomar_directorio", "listar"} : Sirven(punto) = {"READDIR", "RMDIR"}
  /\ \A punto \in DeEscribir : Sirven(punto) = {"WRITE"}
  /\ \A punto \in {"tomar_unlink"} \cup DeLimpiar : Sirven(punto) = {"UNLINK"}
  /\ \A punto \in {"desasignar", "retomar_nodo"} \cup DeTruncar : Sirven(punto) = {"TRUNCATE"}
  /\ \A punto \in DeRenombrar : Sirven(punto) = {}
  /\ Sirven("libre") = Pedidos
  BY DEF Sirven, DeCrear, DeEscribir, DeLimpiar, DeTruncar, DeRenombrar

(* What a request is served, at its point, with. *)
LEMMA AtiendeDe ==
  ASSUME BloquesInv, ArchivosInv, NEW c \in Conexiones, pc[c] # "colgado", pc[c] # "libre" \/ pedido[c] # Nada
  PROVE  /\ pedido[c] # Nada /\ pedido[c] \in Pedibles[c] /\ Atiende(c)
         /\ pedido[c].op \in Sirven(pc[c]) /\ Ruta(c) = pedido[c].ruta
  BY PedidoDe DEF ArchivosInv, Atiende, Ruta

Firme == dicc' = dicc /\ SoloArchivos' /\ \A i \in Indices : tabla'[i].estado = tabla[i].estado

LEMMA FirmeDe ==
  ASSUME SoloArchivos, dicc' = dicc,
         \A i \in Indices : tabla'[i].estado = tabla[i].estado /\ tabla'[i].punteros = tabla[i].punteros
  PROVE  Firme /\ (disco' = disco => \A i \in Indices : Contenido(i)' = Contenido(i))
<1>1. Firme
  BY DEF Firme, SoloArchivos, BPD
<1>2. disco' = disco => \A i \in Indices : Contenido(i)' = Contenido(i)
  BY DEF Contenido, BloqueDato, BPD
<1>3. QED
  BY <1>1, <1>2

LEMMA SigueArchivos ==
  ASSUME UnMontaje, BloquesInv, ArchivosInv, NEW c \in Conexiones, Firme, NEW punto \in Puntos, Ir(c, punto),
         pc[c] # "marcar", punto \notin {"marcar"}, pedido[c].op \in Sirven(punto),
         punto \in {"con_nodo"} \cup DeEscribir \cup DeVaciar => local'[c].nodo = Saca(Ruta(c)),
         punto = "elegir" => ~EnDicc(c)
  PROVE  ArchivosInv'
<1>1. \A d \in Conexiones : d = c
  BY DEF UnMontaje
<1>2. /\ dicc' = dicc /\ pedido' = pedido /\ pc'[c] = punto /\ SoloArchivos'
      /\ \A i \in Indices : tabla'[i].estado = tabla[i].estado
      /\ \A p \in DOMAIN dicc : dicc[p] \in Indices
  BY DEF Firme, Ir, BloquesInv, SacTipo
<1>3. UnaRuta'
  BY <1>2 DEF ArchivosInv, UnaRuta
<1>4. \A p \in DOMAIN dicc : tabla[dicc[p]].estado # 0
  BY <1>1 DEF ArchivosInv, EnUso
<1>5. EnUso'
  <2>1. \A p \in DOMAIN dicc : tabla'[dicc[p]].estado # 0
    BY <1>2, <1>4
  <2>2. QED
    BY <1>2, <2>1 DEF EnUso
<1>6. Atiende(c)'
  <2>1. Atiende(c)
    BY DEF ArchivosInv
  <2>2. EnDicc(c)' <=> EnDicc(c)
    BY <1>2 DEF EnDicc, Ruta
  <2>3. PICK r : r = Ruta(c)
    OBVIOUS
  <2>4. Ruta(c)' = r /\ Saca(Ruta(c))' = Saca(Ruta(c))
    BY <1>2, <2>3 DEF Ruta, Saca
  <2>5. EnDicc(c) => r \in DOMAIN dicc /\ tabla'[dicc[r]].estado = tabla[dicc[r]].estado
    BY <1>2, <2>3 DEF EnDicc
  <2>6. pedido[c] # Nada =>
          /\ pedido[c].op \in Sirven(punto)
          /\ pedido[c].op \in DeArchivo => EnDicc(c) /\ tabla'[dicc[r]].estado = 1
          /\ pedido[c].op = "RMDIR" => EnDicc(c) /\ tabla'[dicc[r]].estado # 1
          /\ punto \in {"con_nodo"} \cup DeEscribir \cup DeVaciar => local'[c].nodo = Saca(Ruta(c))
    BY <2>1, <2>3, <2>5 DEF Atiende
  <2>7. dicc'[r] = dicc[r]
    BY <1>2
  <2>8. QED
    BY <1>2, <2>2, <2>4, <2>6, <2>7 DEF Atiende, Nodo
<1>7. QED
  BY <1>1, <1>2, <1>3, <1>5, <1>6 DEF ArchivosInv

LEMMA TerminaArchivos ==
  ASSUME UnMontaje, BloquesInv, ArchivosInv, NEW c \in Conexiones, Firme,
         NEW punto \in {"libre", "colgado"}, NEW r, Terminar(c, punto, r), pc[c] # "marcar"
  PROVE  ArchivosInv'
<1>1. \A d \in Conexiones : d = c
  BY DEF UnMontaje
<1>2. /\ dicc' = dicc /\ SoloArchivos' /\ \A i \in Indices : tabla'[i].estado = tabla[i].estado
      /\ \A p \in DOMAIN dicc : dicc[p] \in Indices
      /\ pedido'[c] = Nada
  BY DEF Firme, Terminar, BloquesInv, SacTipo
<1>3. UnaRuta'
  BY <1>2 DEF ArchivosInv, UnaRuta
<1>4. \A p \in DOMAIN dicc : tabla[dicc[p]].estado # 0
  BY <1>1 DEF ArchivosInv, EnUso
<1>5. EnUso'
  <2>1. \A p \in DOMAIN dicc : tabla'[dicc[p]].estado # 0
    BY <1>2, <1>4
  <2>2. QED
    BY <1>2, <2>1 DEF EnUso
<1>6. Atiende(c)'
  BY <1>2 DEF Atiende
<1>7. QED
  BY <1>1, <1>2, <1>3, <1>5, <1>6 DEF ArchivosInv

LEMMA PasoQuieto ==
  ASSUME Hipotesis, BloquesInv, ArchivosInv, NEW c \in Conexiones, UNCHANGED <<tabla, disco, dicc>>,
         NEW punto \in Puntos, Ir(c, punto),
         pc[c] # "marcar", punto \notin {"marcar"}, pedido[c].op \in Sirven(punto),
         punto \in {"con_nodo"} \cup DeEscribir \cup DeVaciar => local'[c].nodo = Saca(Ruta(c)),
         punto = "elegir" => ~EnDicc(c)
  PROVE  ArchivosInv' /\ Fiel
<1>1. Firme /\ Guardado' = Guardado
  BY FirmeDe, GuardadoIgual DEF ArchivosInv, BloquesInv
<1>2. QED
  BY <1>1, SigueArchivos, FielSigue DEF Hipotesis

LEMMA RespuestaQuieta ==
  ASSUME Hipotesis, BloquesInv, ArchivosInv, NEW c \in Conexiones, UNCHANGED <<tabla, disco, dicc>>,
         NEW r \in {"ok", "error"}, Responder(c, r),
         pc[c] # "marcar", pedido[c] # Nada, r = "ok" => pedido[c].op \notin DeArchivo
  PROVE  ArchivosInv' /\ Fiel
<1>1. Firme /\ Guardado' = Guardado
  BY FirmeDe, GuardadoIgual DEF ArchivosInv, BloquesInv
<1>2. PICK punto \in {"libre", "colgado"} : Terminar(c, punto, r) /\ Enviar(c, <<>>)
  BY DEF Responder
<1>3. ArchivosInv'
  BY <1>1, <1>2, TerminaArchivos DEF Hipotesis
<1>4. Fiel
  BY <1>1, <1>2, FielTermina DEF DeArchivo
<1>5. QED
  BY <1>3, <1>4

-----------------------------------------------------------------------------
(* The requests on nodes.                                                    *)

LEMMA NadaPasa ==
  ASSUME SacTipo, ArchivosInv, UNCHANGED <<enDisco, dicc, atencionVars>>
  PROVE  ArchivosInv' /\ Fiel
<1>1. UNCHANGED <<tabla, disco, dicc, pedido, respuesta, leido, pc, local>>
  BY DEF enDisco, atencionVars
<1>2. Firme /\ Guardado' = Guardado
  BY <1>1, FirmeDe, GuardadoIgual DEF ArchivosInv
<1>3. UnaRuta' /\ EnUso'
  BY <1>1 DEF ArchivosInv, UnaRuta, EnUso, Nodo
<1>4. ASSUME NEW c \in Conexiones PROVE Atiende(c)'
  <2>1. Atiende(c)
    BY DEF ArchivosInv
  <2>2. PICK r : r = Ruta(c)
    OBVIOUS
  <2>3. Ruta(c)' = r /\ Saca(Ruta(c))' = Saca(Ruta(c)) /\ (EnDicc(c)' <=> EnDicc(c)) /\ Nodo(c)' = Nodo(c)
    BY <1>1, <2>2 DEF Ruta, Saca, EnDicc, Nodo
  <2>4. QED
    BY <1>1, <2>1, <2>2, <2>3 DEF Atiende
<1>5. QED
  BY <1>1, <1>2, <1>3, <1>4 DEF ArchivosInv, Firme, Fiel

(* What a read of m bytes from the start of a block is answered. *)
Leidos(bytes, i, n, m) ==
  \/ bytes = [k \in 1..m |-> Contenido(i)[n + k - 1]]
  \/ /\ bytes = [k \in 1..1 |-> Contenido(i)[n + k - 1]]
     /\ \A x \in 0..(Capacidad - 1) : x \div Celdas = n \div Celdas => Contenido(i)[x] = 0

LEMMA LecturaDeBloque ==
  ASSUME SacTipo, Apuntes, Distintos, NEW i \in Indices, NEW n \in 0..(Capacidad - 1), IndiceByte(n) = 0,
         NEW largo \in Nat, NEW m, m = IF largo < Celdas THEN largo ELSE Celdas
  PROVE  Leidos(Lectura(i, n, largo), i, n, m)
<1>1. PICK p \in Pis, j \in Celda : p = IndicePIS(n) /\ j = IndiceBloque(n)
  BY DesplazamientoDe
<1>2. Celdas \in Nat \ {0} /\ 0 \in Celda /\ 0 \notin Datos /\ n \in Nat
  BY Medidas DEF Celda
<1>3. PICK b : b = BloqueDato(i, p, j)
  OBVIOUS
<1>4. \A x \in 0..(Capacidad - 1), h \in Celda :
        IndicePIS(x) = p /\ IndiceBloque(x) = j /\ IndiceByte(x) = h =>
          Contenido(i)[x] = IF b \in Datos THEN disco[b][h] ELSE 0
  BY <1>3, ContenidoEs DEF Byte
<1>5. CASE b = 0
  <2>1. Lectura(i, n, largo) = <<0>>
    BY <1>1, <1>3, <1>5 DEF Lectura
  <2>2. ASSUME NEW x \in 0..(Capacidad - 1), x \div Celdas = n \div Celdas
        PROVE  Contenido(i)[x] = 0
    <3>1. n \div Celdas = p * Celdas + j
      BY <1>1, MismoBloque
    <3>2. IndicePIS(x) = p /\ IndiceBloque(x) = j
      BY <2>2, <3>1, MismoBloque
    <3>3. IndiceByte(x) \in Celda
      BY DesplazamientoDe
    <3>4. QED
      BY <1>2, <1>4, <1>5, <3>2, <3>3
  <2>3. Contenido(i)[n] = 0
    BY <2>2
  <2>4. [k \in 1..1 |-> Contenido(i)[n + k - 1]] = <<0>>
    <3>1. \A k \in 1..1 : n + k - 1 = n
      BY <1>2
    <3>2. \A k \in 1..1 : Contenido(i)[n + k - 1] = 0
      BY <2>3, <3>1
    <3>3. QED
      BY <3>2
  <2>5. QED
    BY <2>1, <2>2, <2>4 DEF Leidos
<1>6. CASE b # 0
  <2>1. b \in Datos /\ b \in Nat
    BY <1>3, <1>6, DatoNoEsBPD, Medidas
  <2>2. Min({largo, Celdas - 0}) = m
    <3>1. {largo, Celdas - 0} \in SUBSET Nat /\ {largo, Celdas - 0} # {}
      BY <1>2
    <3>2. PICK x : x = Min({largo, Celdas - 0})
      OBVIOUS
    <3>3. x \in {largo, Celdas - 0} /\ x <= largo /\ x <= Celdas - 0
      BY <3>1, <3>2, MinimoDe
    <3>4. QED
      BY <1>2, <3>2, <3>3
  <2>3. Lectura(i, n, largo) = [k \in 1..m |-> disco[b][k - 1]]
    <3>1. b + 0 = b
      BY <2>1
    <3>2. QED
      BY <1>1, <1>3, <1>6, <2>1, <2>2, <3>1 DEF Lectura
  <2>4. ASSUME NEW k \in 1..m PROVE disco[b][k - 1] = Contenido(i)[n + k - 1]
    <3>1. PICK h \in Celda : h = k - 1 /\ n + k - 1 = n + h
      <4>1. k - 1 \in Celda /\ n + k - 1 = n + (k - 1)
        BY <1>2 DEF Celda
      <4>2. QED
        BY <4>1
    <3>2. /\ n + h \in 0..(Capacidad - 1)
          /\ IndicePIS(n + h) = p /\ IndiceBloque(n + h) = j /\ IndiceByte(n + h) = h
      BY <1>1, BytesSeguidos
    <3>3. Contenido(i)[n + h] = disco[b][h]
      BY <1>4, <2>1, <3>2
    <3>4. QED
      BY <3>1, <3>3
  <2>5. QED
    BY <2>3, <2>4 DEF Leidos
<1>7. QED
  BY <1>5, <1>6

(* An offset at the start of a block, as the abstract files put it. *)
LEMMA PrincipioDeBloque ==
  ASSUME NEW n \in 0..(Capacidad - 1), n % Celdas = 0
  PROVE  IndiceByte(n) = 0
<1>1. PICK q \in Nat : q = IndicePIS(n) * Celdas + IndiceBloque(n)
  <2>1. IndicePIS(n) \in Nat /\ IndiceBloque(n) \in Nat /\ Celdas \in Nat
    BY DesplazamientoDe, Medidas DEF Pis, Celda
  <2>2. QED
    BY <2>1
<1>2. PICK h \in 0..(Celdas - 1) : h = IndiceByte(n)
  BY DesplazamientoDe DEF Celda
<1>3. n = q * Celdas + h
  BY <1>1, <1>2, BloqueDeByte
<1>4. (q * Celdas + h) % Celdas = h
  BY Medidas, DivisionUnica
<1>5. QED
  BY <1>2, <1>3, <1>4

LEMMA LeerFiel ==
  ASSUME Hipotesis, BloquesInv, ArchivosInv, LeidoTipo, NEW c \in Conexiones, Leer(c)
  PROVE  ArchivosInv' /\ Fiel
<1>0. SacTipo /\ Apuntes /\ Distintos /\ SoloArchivos /\ UnMontaje
  BY DEF BloquesInv, ArchivosInv, Hipotesis
<1>1. /\ pc[c] = "con_nodo" /\ pedido[c].op = "READ" /\ UNCHANGED <<tabla, disco, dicc>>
      /\ Terminar(c, "libre", "ok")
  BY DEF Leer, Esta, discoVars, enDisco, enMemoria
<1>2. Firme /\ Guardado' = Guardado
  BY <1>0, <1>1, FirmeDe, GuardadoIgual
<1>3. ArchivosInv'
  BY <1>0, <1>1, <1>2, TerminaArchivos
<1>4. PICK r : r = pedido[c]
  OBVIOUS
<1>5. PICK i \in Indices : i = Nodo(c)
  BY PedidoDeLectura
<1>6. r # Nada /\ r \in Pedibles[c] /\ r.desde \in 0..(Capacidad - 1) /\ r.largo \in Nat
  BY <1>4, PedidoDeLectura
<1>7. r.ruta \in RutasDatos /\ Guardado[r.ruta] = Contenido(i)
  <2>1. Atiende(c) /\ Ruta(c) = r.ruta /\ r.op \in DeArchivo
    BY <1>1, <1>4, AtiendeDe DEF DeArchivo
  <2>2. r.ruta \in DOMAIN dicc /\ i = dicc[r.ruta]
    BY <1>1, <1>4, <1>5, <1>6, <2>1 DEF Atiende, EnDicc, Saca
  <2>3. r.ruta \in RutasDatos
    BY <1>6 DEF RutasDatos
  <2>4. QED
    BY <2>2, <2>3, GuardadoEs
<1>8. PICK bytes : bytes = Lectura(i, r.desde, r.largo) /\ leido' = [leido EXCEPT ![c] = bytes]
  BY <1>4, <1>5 DEF Leer, Enviar
<1>9. leido'[c] = bytes
  BY <1>8 DEF LeidoTipo
<1>10. B!ContestaCon(c, "ok", leido'[c])
  BY <1>1, <1>4, <1>6, <1>8, <1>9 DEF Terminar, B!ContestaCon
<1>11. ASSUME r.desde % Celdas = 0
       PROVE  \/ bytes = B!Bytes(r, IF r.largo < Celdas THEN r.largo ELSE Celdas)
              \/ B!EnBlanco(r) /\ bytes = B!Bytes(r, 1)
  <2>1. PICK n \in 0..(Capacidad - 1), largo \in Nat : n = r.desde /\ largo = r.largo
    BY <1>6
  <2>2. IndiceByte(n) = 0
    BY <1>11, <2>1, PrincipioDeBloque
  <2>3. PICK m : m = IF largo < Celdas THEN largo ELSE Celdas
    OBVIOUS
  <2>4. Leidos(bytes, i, n, m)
    <3>1. Leidos(Lectura(i, n, largo), i, n, m)
      BY <1>0, <2>2, <2>3, LecturaDeBloque
    <3>2. QED
      BY <1>8, <2>1, <3>1
  <2>5. /\ B!Bytes(r, m) = [k \in 1..m |-> Contenido(i)[n + k - 1]]
        /\ B!Bytes(r, 1) = [k \in 1..1 |-> Contenido(i)[n + k - 1]]
    BY <1>7, <2>1 DEF B!Bytes
  <2>6. B!EnBlanco(r) <=> \A x \in 0..(Capacidad - 1) : x \div Celdas = n \div Celdas => Contenido(i)[x] = 0
    BY <1>7, <2>1 DEF B!EnBlanco
  <2>7. QED
    BY <2>1, <2>3, <2>4, <2>5, <2>6 DEF Leidos
<1>12. B!Leer(c)
  BY <1>1, <1>2, <1>4, <1>9, <1>10, <1>11 DEF B!Leer
<1>13. QED
  BY <1>3, <1>12 DEF B!Next, Fiel

LEMMA NodosFiel ==
  ASSUME Hipotesis, BloquesInv, ArchivosInv, LeidoTipo, NEW c \in Conexiones, AtenderNodo(c)
  PROVE  ArchivosInv' /\ Fiel
<1>0. SacTipo
  BY DEF BloquesInv
<1>1. CASE BuscarNodo(c)
  <2>1. UNCHANGED <<tabla, disco, dicc>>
    BY <1>1 DEF BuscarNodo, discoVars, enDisco, enMemoria
  <2>2. CASE Llega(c, ConNodo) /\ Ir(c, "tomar_nodo")
    <3>1. /\ pc[c] = "libre" /\ "tomar_nodo" \in Puntos /\ pedido[c].op \in Sirven("tomar_nodo")
          /\ "tomar_nodo" \notin {"con_nodo"} \cup DeEscribir \cup DeVaciar
      BY <2>2, SirvenSon, PuntosQuietos DEF Llega, Puntos, DeEscribir, DeVaciar
    <3>2. QED
      BY <2>1, <2>2, <3>1, PasoQuieto
  <2>3. CASE Esta(c, "desasignar") /\ Ir(c, "retomar_nodo")
    <3>1. /\ pc[c] = "desasignar" /\ "retomar_nodo" \in Puntos
          /\ "retomar_nodo" \notin {"con_nodo"} \cup DeEscribir \cup DeVaciar
      BY <2>3, PuntosQuietos DEF Esta, Puntos, DeEscribir, DeVaciar
    <3>2. pedido[c].op \in Sirven("retomar_nodo")
      BY <3>1, AtiendeDe, SirvenSon
    <3>3. QED
      BY <2>1, <2>3, <3>1, <3>2, PasoQuieto
  <2>4. QED
    BY <1>1, <2>2, <2>3 DEF BuscarNodo
<1>2. CASE TomarNodo(c)
  <2>1. UNCHANGED <<tabla, disco, dicc>> /\ local'[c].nodo = Saca(Ruta(c))
    BY <1>0, <1>2 DEF TomarNodo, discoVars, enDisco, enMemoria, SacTipo, LocalTipo
  <2>2. PICK punto \in {"con_nodo", "vaciar"} : Ir(c, punto) /\ pc[c] \in {"tomar_nodo", "retomar_nodo"}
                     /\ (punto = "con_nodo" => pc[c] = "tomar_nodo") /\ (punto = "vaciar" => pc[c] = "retomar_nodo")
    BY <1>2 DEF TomarNodo, Esta
  <2>3. punto \in Puntos
    BY PuntosQuietos DEF Puntos, DeVaciar
  <2>4. pedido[c].op \in Sirven(punto)
    <3>1. pedido[c].op \in Sirven(pc[c])
      BY <2>2, AtiendeDe
    <3>2. Sirven("tomar_nodo") = Sirven("con_nodo") /\ Sirven("retomar_nodo") = Sirven("vaciar")
      BY SirvenSon DEF DeTruncar
    <3>3. QED
      BY <2>2, <3>1, <3>2
  <2>5. QED
    BY <2>1, <2>2, <2>3, <2>4, PasoQuieto
<1>3. CASE NoHayNodo(c)
  <2>1. UNCHANGED <<tabla, disco, dicc>> /\ Responder(c, "error") /\ pc[c] = "libre" /\ pedido[c] # Nada
    BY <1>3 DEF NoHayNodo, Llega, discoVars, enDisco, enMemoria
  <2>2. QED
    BY <2>1, RespuestaQuieta
<1>4. CASE NodoInvalido(c)
  BY <1>0, <1>4, NadaPasa DEF NodoInvalido, Caer, enMemoria
<1>5. CASE Contestar(c)
  <2>1. /\ UNCHANGED <<tabla, disco, dicc>> /\ Responder(c, "ok") /\ pc[c] = "con_nodo"
        /\ pedido[c].op \in {"GETATTR", "UTIMES"}
    BY <1>5 DEF Contestar, Esta, discoVars, enDisco, enMemoria
  <2>2. pedido[c] # Nada
    BY <2>1, AtiendeDe
  <2>3. QED
    BY <2>1, <2>2, RespuestaQuieta DEF DeArchivo
<1>6. CASE Leer(c)
  BY <1>6, LeerFiel
<1>7. QED
  BY <1>1, <1>2, <1>3, <1>4, <1>5, <1>6 DEF AtenderNodo

-----------------------------------------------------------------------------
(* The requests on the tree.                                                 *)

LEMMA MismosPunteros ==
  ASSUME disco' = disco, \A i \in Indices : tabla'[i].punteros = tabla[i].punteros
  PROVE  \A i \in Indices : Contenido(i)' = Contenido(i)
  BY DEF Contenido, BloqueDato, BPD

LEMMA RutaDeDatos ==
  ASSUME NEW c \in Conexiones, pedido[c] \in Pedibles[c]
  PROVE  Ruta(c) \in RutasDatos
  BY DEF RutasDatos, Ruta

(* The node of a path with no blocks is given to it. *)
LEMMA ElegirFiel ==
  ASSUME Hipotesis, BloquesInv, ArchivosInv, NEW c \in Conexiones, ElegirNodo(c)
  PROVE  ArchivosInv' /\ Fiel
<1>0. SacTipo /\ UnaRuta /\ EnUso /\ SoloArchivos /\ Atiende(c) /\ \A d \in Conexiones : d = c
  BY DEF BloquesInv, ArchivosInv, Hipotesis, UnMontaje
<1>1. pc[c] = "elegir" /\ pedido[c] # Nada /\ pedido[c] \in Pedibles[c] /\ pedido[c].op \in {"MKNOD", "MKDIR", "OPEN"}
  <2>1. pc[c] = "elegir" /\ "elegir" \in DeCrear
    BY DEF ElegirNodo, Esta, DeCrear
  <2>2. QED
    BY <2>1, AtiendeDe, SirvenSon
<1>2. PICK i \in Indices : i = Min(NodosLibres) /\ tabla[i].estado = 0
  <2>1. NodosLibres \in SUBSET Nat /\ NodosLibres # {} /\ NodosLibres \subseteq Indices
    BY Medidas DEF ElegirNodo, NodosLibres, Indices
  <2>2. Min(NodosLibres) \in NodosLibres
    BY <2>1, MinimoDe
  <2>3. QED
    BY <2>2 DEF NodosLibres
<1>3. PICK r : r = Ruta(c)
  OBVIOUS
<1>4. /\ dicc' = Pone(dicc, r, i) /\ local' = [local EXCEPT ![c].nodo = i] /\ Ir(c, "marcar")
      /\ UNCHANGED <<tabla, disco>>
  BY <1>2, <1>3 DEF ElegirNodo, enDisco
<1>5. DOMAIN dicc' = DOMAIN dicc \cup {r} /\ dicc'[r] = i /\ \A p \in DOMAIN dicc : p # r => dicc'[p] = dicc[p]
  BY <1>4 DEF Pone
<1>6. r \notin DOMAIN dicc /\ \A p \in DOMAIN dicc : dicc[p] \in Indices /\ dicc[p] # i
  <2>1. r \notin DOMAIN dicc
    BY <1>0, <1>1, <1>3 DEF Atiende, EnDicc
  <2>2. \A p \in DOMAIN dicc : tabla[dicc[p]].estado # 0
    BY <1>0, <1>1 DEF EnUso
  <2>3. QED
    BY <1>0, <1>2, <2>1, <2>2 DEF SacTipo
<1>7. UnaRuta'
  BY <1>0, <1>5, <1>6 DEF UnaRuta
<1>8. pc'[c] = "marcar" /\ local'[c].nodo = i /\ pedido' = pedido
  BY <1>0, <1>4 DEF Ir, SacTipo, LocalTipo
<1>9. EnUso'
  <2>1. \A p \in DOMAIN dicc : tabla[dicc[p]].estado # 0
    BY <1>0, <1>1 DEF EnUso
  <2>2. Nodo(c)' = i
    BY <1>8 DEF Nodo
  <2>3. \A p \in DOMAIN dicc' : tabla'[dicc'[p]].estado # 0 \/ (pc'[c] = "marcar" /\ Nodo(c)' = dicc'[p])
    BY <1>4, <1>5, <1>6, <1>8, <2>1, <2>2
  <2>4. QED
    BY <2>3 DEF EnUso
<1>10. SoloArchivos'
  BY <1>0, <1>4 DEF SoloArchivos, BPD
<1>11. Atiende(c)'
  <2>1. Nodo(c)' = i /\ Ruta(c)' = r
    BY <1>3, <1>8 DEF Nodo, Ruta
  <2>2. EnDicc(c)'
    BY <1>5, <2>1 DEF EnDicc
  <2>3. pedido'[c].op \in Sirven("marcar") /\ pedido'[c].op \notin DeArchivo /\ pedido'[c].op # "RMDIR"
    BY <1>1, <1>8, SirvenSon DEF DeCrear, DeArchivo
  <2>4. "marcar" \notin {"con_nodo"} \cup DeEscribir \cup DeVaciar
    BY DEF DeEscribir, DeVaciar
  <2>5. QED
    BY <1>2, <1>4, <1>5, <1>8, <2>1, <2>2, <2>3, <2>4 DEF Atiende
<1>12. ArchivosInv'
  BY <1>0, <1>7, <1>9, <1>10, <1>11 DEF ArchivosInv
<1>13. ASSUME NEW p \in RutasDatos PROVE Guardado'[p] = Guardado[p]
  <2>1. \A k \in Indices : Contenido(k)' = Contenido(k)
    BY <1>4, MismosPunteros
  <2>2. CASE p = r
    <3>1. Contenido(i) = Nulo
      <4>1. \A q \in Pis, j \in Celda : BloqueDato(i, q, j) = 0
        BY <1>0, <1>2 DEF SoloArchivos, BloqueDato
      <4>2. QED
        BY <4>1, SinBloquesNulo
    <3>2. QED
      BY <1>5, <1>6, <2>1, <2>2, <3>1, GuardadoEs
  <2>3. CASE p \in DOMAIN dicc /\ p # r
    <3>1. PICK k \in Indices : k = dicc[p]
      BY <1>6, <2>3
    <3>2. QED
      BY <1>5, <2>1, <2>3, <3>1, GuardadoEs
  <2>4. CASE p \notin DOMAIN dicc /\ p # r
    BY <1>5, <2>4, GuardadoEs
  <2>5. QED
    BY <2>2, <2>3, <2>4
<1>14. Guardado' = Guardado
  BY <1>13, GuardadoEs
<1>15. Fiel
  BY <1>4, <1>14, FielSigue
<1>16. QED
  BY <1>12, <1>15

LEMMA MarcarFiel ==
  ASSUME Hipotesis, BloquesInv, ArchivosInv, NEW c \in Conexiones, MarcarNodo(c)
  PROVE  ArchivosInv' /\ Fiel
<1>0. SacTipo /\ UnaRuta /\ EnUso /\ SoloArchivos /\ Atiende(c) /\ \A d \in Conexiones : d = c
  BY DEF BloquesInv, ArchivosInv, Hipotesis, UnMontaje
<1>1. pc[c] = "marcar" /\ pedido[c] # Nada /\ pedido[c].op \in {"MKNOD", "MKDIR", "OPEN"}
  <2>1. pc[c] = "marcar" /\ "marcar" \in DeCrear
    BY DEF MarcarNodo, Esta, DeCrear
  <2>2. QED
    BY <2>1, AtiendeDe, SirvenSon
<1>2a. PICK r : r = Ruta(c)
  OBVIOUS
<1>2. PICK i \in Indices : r = Ruta(c) /\ i = Nodo(c) /\ r \in DOMAIN dicc /\ i = dicc[r] /\ tabla[i].estado = 0
  BY <1>2a, <1>0, <1>1 DEF Atiende, EnDicc, SacTipo
<1>3. PICK e \in {1, 2} : tabla' = [tabla EXCEPT ![i].estado = e]
  BY <1>2 DEF MarcarNodo, Tipo
<1>4. Ir(c, "buscar_padre") /\ UNCHANGED <<disco, dicc, local>>
  BY DEF MarcarNodo, enMemoria
<1>5. /\ \A k \in Indices : tabla'[k].punteros = tabla[k].punteros /\ (k # i => tabla'[k].estado = tabla[k].estado)
      /\ tabla'[i].estado = e
  <2>1. tabla \in [Indices -> NodoTipo]
    BY <1>0 DEF SacTipo
  <2>2. QED
    BY <1>3, <2>1 DEF NodoTipo
<1>6. UnaRuta'
  BY <1>0, <1>4 DEF UnaRuta
<1>7. EnUso'
  <2>1. ASSUME NEW p \in DOMAIN dicc PROVE tabla'[dicc[p]].estado # 0
    <3>1. PICK k \in Indices : k = dicc[p]
      BY <1>0 DEF SacTipo
    <3>2. k # i => tabla[k].estado # 0
      BY <1>0, <1>2, <3>1 DEF EnUso
    <3>3. QED
      BY <1>5, <3>1, <3>2
  <2>2. QED
    BY <1>4, <2>1 DEF EnUso
<1>8. SoloArchivos'
  BY <1>0, <1>2, <1>5 DEF SoloArchivos, BPD
<1>9. Atiende(c)'
  <2>1. pc'[c] = "buscar_padre" /\ pedido' = pedido
    BY <1>0, <1>4 DEF Ir, SacTipo
  <2>2. pedido'[c].op \in Sirven("buscar_padre") /\ pedido'[c].op \notin DeArchivo /\ pedido'[c].op # "RMDIR"
    BY <1>1, <2>1, SirvenSon DEF DeCrear, DeArchivo
  <2>3. "buscar_padre" \notin {"con_nodo"} \cup DeEscribir \cup DeVaciar
    BY DEF DeEscribir, DeVaciar
  <2>4. QED
    BY <2>1, <2>2, <2>3 DEF Atiende
<1>10. Guardado' = Guardado
  BY <1>0, <1>4, <1>5, MismosPunteros, GuardadoIgual
<1>11. Fiel
  BY <1>4, <1>10, FielSigue
<1>12. QED
  BY <1>0, <1>6, <1>7, <1>8, <1>9, <1>11 DEF ArchivosInv

(* A node is given back. *)
LEMMA NodoLibre ==
  ASSUME tabla \in [Indices -> NodoTipo], NEW i \in Indices, tabla' = [tabla EXCEPT ![i].estado = 0, ![i].tamanio = 0]
  PROVE  \A k \in Indices : tabla'[k].punteros = tabla[k].punteros /\ (k # i => tabla'[k].estado = tabla[k].estado)
<1>1. \A k \in Indices : tabla'[k].punteros = tabla[k].punteros
  BY NodoLiberado
<1>2. \A k \in Indices : k # i => tabla'[k] = tabla[k]
  OBVIOUS
<1>3. QED
  BY <1>1, <1>2

(* The path of a node with no blocks is taken away. *)
LEMMA SacarFiel ==
  ASSUME Hipotesis, BloquesInv, ArchivosInv, NEW c \in Conexiones, Responder(c, "ok"),
         pedido[c] # Nada, pedido[c].op \in {"RMDIR", "UNLINK"}, pc[c] # "marcar",
         NEW r, r = Ruta(c), r \in DOMAIN dicc, NEW i, i = dicc[r], \A p \in Pis : BPD(i, p) = 0,
         dicc' = Sin(dicc, r), disco' = disco,
         \A k \in Indices : tabla'[k].punteros = tabla[k].punteros /\ (k # i => tabla'[k].estado = tabla[k].estado)
  PROVE  ArchivosInv' /\ Fiel
<1>0. SacTipo /\ UnaRuta /\ EnUso /\ SoloArchivos /\ \A d \in Conexiones : d = c
  BY DEF BloquesInv, ArchivosInv, Hipotesis, UnMontaje
<1>1. i \in Indices /\ tabla \in [Indices -> NodoTipo]
  BY <1>0 DEF SacTipo
<1>2. \A k \in Indices : tabla'[k].punteros = tabla[k].punteros /\ (k # i => tabla'[k].estado = tabla[k].estado)
  OBVIOUS
<1>3. DOMAIN dicc' = DOMAIN dicc \ {r} /\ \A p \in DOMAIN dicc' : dicc'[p] = dicc[p]
  BY DEF Sin
<1>4. \A p \in DOMAIN dicc' : dicc[p] \in Indices /\ dicc[p] # i
  BY <1>0, <1>3 DEF SacTipo, UnaRuta
<1>5. UnaRuta'
  BY <1>0, <1>3 DEF UnaRuta
<1>6. EnUso'
  <2>1. \A p \in DOMAIN dicc : tabla[dicc[p]].estado # 0
    BY <1>0 DEF EnUso
  <2>2. \A p \in DOMAIN dicc' : tabla'[dicc'[p]].estado # 0
    BY <1>2, <1>3, <1>4, <2>1
  <2>3. QED
    BY <2>2 DEF EnUso
<1>7. SoloArchivos'
  <2>1. ASSUME NEW k \in Indices, tabla'[k].estado # 1, NEW p \in Pis PROVE tabla'[k].punteros[p] = 0
    <3>1. CASE k = i
      BY <1>2, <3>1 DEF BPD
    <3>2. CASE k # i
      BY <1>0, <1>2, <2>1, <3>2 DEF SoloArchivos, BPD
    <3>3. QED
      BY <3>1, <3>2
  <2>2. QED
    BY <2>1 DEF SoloArchivos, BPD
<1>8. Atiende(c)'
  <2>1. pedido'[c] = Nada
    BY <1>0 DEF Responder, Terminar, SacTipo
  <2>2. QED
    BY <2>1 DEF Atiende
<1>9. ArchivosInv'
  BY <1>0, <1>5, <1>6, <1>7, <1>8 DEF ArchivosInv
<1>10. \A k \in Indices : Contenido(k)' = Contenido(k)
  BY <1>2, MismosPunteros
<1>11. Contenido(i) = Nulo
  <2>1. \A q \in Pis, j \in Celda : BloqueDato(i, q, j) = 0
    BY DEF BloqueDato
  <2>2. QED
    BY <2>1, SinBloquesNulo
<1>12. ASSUME NEW p \in RutasDatos PROVE Guardado'[p] = Guardado[p]
  <2>1. CASE p = r
    BY <1>3, <1>11, <2>1, GuardadoEs
  <2>2. CASE p \in DOMAIN dicc /\ p # r
    <3>1. PICK k \in Indices : k = dicc[p]
      BY <1>0, <2>2 DEF SacTipo
    <3>2. QED
      BY <1>3, <1>10, <2>2, <3>1, GuardadoEs
  <2>3. CASE p \notin DOMAIN dicc
    BY <1>3, <2>3, GuardadoEs
  <2>4. QED
    BY <2>1, <2>2, <2>3
<1>13. Guardado' = Guardado
  BY <1>12, GuardadoEs
<1>14. Guardado[Ruta(c)] = Nulo
  <2>1. Ruta(c) \in RutasDatos
    <3>1. Sirve(c)
      BY DEF BloquesInv
    <3>2. QED
      BY <3>1, RutaDeDatos DEF Sirve
  <2>2. QED
    BY <1>11, <2>1, GuardadoEs
<1>15. Fiel
  BY <1>13, <1>14, FielTermina DEF Responder
<1>16. QED
  BY <1>9, <1>15

LEMMA CrearFiel ==
  ASSUME Hipotesis, BloquesInv, ArchivosInv, NEW c \in Conexiones, Crear(c)
  PROVE  ArchivosInv' /\ Fiel
<1>0. SacTipo /\ SoloArchivos /\ UnMontaje
  BY DEF BloquesInv, ArchivosInv, Hipotesis
<1>1. \A punto \in DeCrear : /\ punto \in Puntos /\ punto \notin {"con_nodo"} \cup DeEscribir \cup DeVaciar
                             /\ Sirven(punto) = {"MKNOD", "MKDIR", "OPEN"}
  BY PuntosQuietos, SirvenSon DEF Puntos, DeCrear, DeEscribir, DeVaciar
<1>2. pc[c] \in DeCrear => pedido[c] # Nada /\ pedido[c].op \in {"MKNOD", "MKDIR", "OPEN"}
  <2>1. pc[c] \in DeCrear => pc[c] \notin {"libre", "colgado"}
    BY DEF DeCrear
  <2>2. QED
    BY <1>1, <2>1, AtiendeDe
<1>3. ASSUME pedido[c] # Nada, pedido[c].op \in {"MKNOD", "MKDIR", "OPEN"}, UNCHANGED discoVars, pc[c] # "marcar",
             \/ \E r \in {"ok", "error"} : Responder(c, r)
             \/ \E punto \in DeCrear : Ir(c, punto) /\ punto # "marcar" /\ (punto = "elegir" => ~EnDicc(c))
      PROVE  ArchivosInv' /\ Fiel
  <2>1. UNCHANGED <<tabla, disco, dicc>>
    BY <1>3 DEF discoVars, enDisco, enMemoria
  <2>2. CASE \E r \in {"ok", "error"} : Responder(c, r)
    BY <1>3, <2>1, <2>2, RespuestaQuieta DEF DeArchivo
  <2>3. CASE \E punto \in DeCrear : Ir(c, punto) /\ punto # "marcar" /\ (punto = "elegir" => ~EnDicc(c))
    <3>1. PICK punto \in DeCrear : Ir(c, punto) /\ punto # "marcar" /\ (punto = "elegir" => ~EnDicc(c))
      BY <2>3
    <3>2. punto \in Puntos /\ pedido[c].op \in Sirven(punto) /\ punto \notin {"con_nodo"} \cup DeEscribir \cup DeVaciar
      BY <1>1, <1>3
    <3>3. QED
      BY <1>3, <2>1, <3>1, <3>2, PasoQuieto
  <2>4. QED
    BY <1>3, <2>2, <2>3
<1>4. CASE AbrirExistente(c)
  <2>1. /\ pedido[c] # Nada /\ pedido[c].op = "OPEN" /\ pc[c] = "libre" /\ UNCHANGED discoVars
        /\ \E r \in {"ok", "error"} : Responder(c, r)
    BY <1>4 DEF AbrirExistente, Llega
  <2>2. QED
    BY <1>3, <2>1
<1>5. CASE AbrirAusente(c)
  <2>1. /\ pedido[c] # Nada /\ pedido[c].op = "OPEN" /\ pc[c] = "libre" /\ UNCHANGED discoVars
        /\ Responder(c, "error") \/ Ir(c, "crear")
    BY <1>5 DEF AbrirAusente, Llega
  <2>2. "crear" \in DeCrear
    BY DEF DeCrear
  <2>3. QED
    BY <1>3, <2>1, <2>2
<1>6. CASE CrearExistente(c) \/ CrearAusente(c)
  <2>1. /\ pedido[c] # Nada /\ pedido[c].op \in {"MKNOD", "MKDIR", "OPEN"} /\ pc[c] # "marcar" /\ UNCHANGED discoVars
    <3>1. EmpiezaACrear(c) /\ UNCHANGED discoVars
      BY <1>6 DEF CrearExistente, CrearAusente
    <3>2. CASE Llega(c, {"MKNOD", "MKDIR"})
      BY <3>1, <3>2 DEF Llega
    <3>3. CASE Esta(c, "crear")
      BY <1>2, <3>1, <3>3 DEF Esta, DeCrear
    <3>4. QED
      BY <3>1, <3>2, <3>3 DEF EmpiezaACrear
  <2>2. "elegir" \in DeCrear
    BY DEF DeCrear
  <2>3. (\E r \in {"ok", "error"} : Responder(c, r)) \/ (Ir(c, "elegir") /\ ~EnDicc(c))
    BY <1>6 DEF CrearExistente, CrearAusente
  <2>4. QED
    BY <1>3, <2>1, <2>2, <2>3
<1>7. CASE SinNodos(c)
  <2>1. pc[c] \in DeCrear /\ pc[c] # "marcar" /\ UNCHANGED discoVars /\ Responder(c, "error")
    BY <1>7 DEF SinNodos, Esta, DeCrear
  <2>2. QED
    BY <1>2, <1>3, <2>1
<1>8. CASE BuscarPadre(c)
  <2>1. pc[c] \in DeCrear /\ pc[c] # "marcar" /\ UNCHANGED discoVars /\ Ir(c, "nombrar") /\ "nombrar" \in DeCrear
    BY <1>8 DEF BuscarPadre, Esta, DeCrear
  <2>2. QED
    BY <1>2, <1>3, <2>1
<1>9. CASE NombrarNodo(c)
  <2>1. pc[c] \in DeCrear /\ pc[c] # "marcar" /\ "apadrinar" \in DeCrear /\ Ir(c, "apadrinar") /\ UNCHANGED <<disco, dicc>>
    BY <1>9 DEF NombrarNodo, Esta, DeCrear, enMemoria
  <2>2. PICK n : tabla' = [tabla EXCEPT ![Nodo(c)].nombre = n]
    BY <1>9 DEF NombrarNodo
  <2>3. \A k \in Indices : tabla'[k].punteros = tabla[k].punteros /\ tabla'[k].estado = tabla[k].estado
    <3>1. tabla \in [Indices -> NodoTipo]
      BY <1>0 DEF SacTipo
    <3>2. QED
      BY <2>2, <3>1 DEF NodoTipo
  <2>4. Firme /\ Guardado' = Guardado
    BY <1>0, <2>1, <2>3, FirmeDe, GuardadoIgual
  <2>5. ArchivosInv'
    BY <1>0, <1>1, <1>2, <2>1, <2>4, SigueArchivos
  <2>6. QED
    BY <2>1, <2>4, <2>5, FielSigue
<1>10. CASE ApadrinarNodo(c)
  <2>1. /\ pc[c] \in {"apadrinar", "cambiar_nombres"} /\ Responder(c, "ok") /\ UNCHANGED <<disco, dicc>>
    BY <1>10 DEF ApadrinarNodo, Esta, enMemoria
  <2>2. pedido[c] # Nada /\ pedido[c].op \in {"MKNOD", "MKDIR", "OPEN"}
    <3>1. pedido[c] # Nada /\ pedido[c].op \in Sirven(pc[c])
      BY <2>1, AtiendeDe
    <3>2. Sirven("apadrinar") = {"MKNOD", "MKDIR", "OPEN"} /\ Sirven("cambiar_nombres") = {}
      BY SirvenSon DEF DeCrear, DeRenombrar
    <3>3. QED
      BY <2>1, <3>1, <3>2
  <2>3. PICK n : tabla' = [tabla EXCEPT ![Nodo(c)].padre = n]
    BY <1>10 DEF ApadrinarNodo
  <2>4. \A k \in Indices : tabla'[k].punteros = tabla[k].punteros /\ tabla'[k].estado = tabla[k].estado
    <3>1. tabla \in [Indices -> NodoTipo]
      BY <1>0 DEF SacTipo
    <3>2. QED
      BY <2>3, <3>1 DEF NodoTipo
  <2>5. Firme /\ Guardado' = Guardado
    BY <1>0, <2>1, <2>4, FirmeDe, GuardadoIgual
  <2>6. ArchivosInv'
    BY <1>0, <2>1, <2>5, TerminaArchivos DEF Responder
  <2>7. Fiel
    BY <2>1, <2>2, <2>5, FielTermina DEF Responder
  <2>8. QED
    BY <2>6, <2>7
<1>11. QED
  BY <1>4, <1>5, <1>6, <1>7, <1>8, <1>9, <1>10, ElegirFiel, MarcarFiel DEF Crear

LEMMA DirectorioFiel ==
  ASSUME Hipotesis, BloquesInv, ArchivosInv, NEW c \in Conexiones, Directorio(c)
  PROVE  ArchivosInv' /\ Fiel
<1>0. SacTipo /\ SoloArchivos
  BY DEF BloquesInv, ArchivosInv
<1>1. \A punto \in DeListar : punto \in Puntos /\ punto \notin {"con_nodo", "marcar", "elegir"} \cup DeEscribir \cup DeVaciar
  BY PuntosQuietos DEF Puntos, DeListar, DeEscribir, DeVaciar
<1>2. /\ Sirven("entradas") = {"RMDIR"} /\ Sirven("borrar_directorio") = {"RMDIR"}
      /\ Sirven("tomar_directorio") = {"READDIR", "RMDIR"} /\ Sirven("listar") = {"READDIR", "RMDIR"}
  BY SirvenSon
<1>3. ASSUME pedido[c] # Nada, UNCHANGED discoVars, pc[c] # "marcar",
             \/ pedido[c].op \in {"READDIR", "RMDIR"} /\ \E r \in {"ok", "error"} : Responder(c, r)
             \/ \E punto \in DeListar : Ir(c, punto) /\ pedido[c].op \in Sirven(punto)
      PROVE  ArchivosInv' /\ Fiel
  <2>1. UNCHANGED <<tabla, disco, dicc>>
    BY <1>3 DEF discoVars, enDisco, enMemoria
  <2>2. CASE pedido[c].op \in {"READDIR", "RMDIR"} /\ \E r \in {"ok", "error"} : Responder(c, r)
    BY <1>3, <2>1, <2>2, RespuestaQuieta DEF DeArchivo
  <2>3. CASE \E punto \in DeListar : Ir(c, punto) /\ pedido[c].op \in Sirven(punto)
    <3>1. PICK punto \in DeListar : Ir(c, punto) /\ pedido[c].op \in Sirven(punto)
      BY <2>3
    <3>2. punto \in Puntos /\ punto \notin {"con_nodo", "marcar", "elegir"} \cup DeEscribir \cup DeVaciar
      BY <1>1
    <3>3. QED
      BY <1>3, <2>1, <3>1, <3>2, PasoQuieto
  <2>4. QED
    BY <1>3, <2>2, <2>3
<1>4. pc[c] \in DeListar => pedido[c] # Nada /\ pedido[c].op \in Sirven(pc[c]) /\ pc[c] # "marcar"
  <2>1. pc[c] \in DeListar => pc[c] \notin {"libre", "colgado", "marcar"}
    BY DEF DeListar
  <2>2. QED
    BY <2>1, AtiendeDe
<1>5. {"entradas", "tomar_directorio", "listar", "borrar_directorio"} = DeListar
  BY DEF DeListar
<1>6. CASE BuscarEntradas(c) \/ NoHayDirectorio(c)
  <2>1. EmpiezaEntradas(c) /\ UNCHANGED discoVars
    BY <1>6 DEF BuscarEntradas, NoHayDirectorio
  <2>2. pedido[c] # Nada /\ pc[c] # "marcar" /\ pedido[c].op \in {"READDIR", "RMDIR"}
    <3>1. CASE Llega(c, {"READDIR"})
      BY <3>1 DEF Llega
    <3>2. CASE Esta(c, "entradas")
      BY <1>2, <1>4, <1>5, <3>2 DEF Esta
    <3>3. QED
      BY <2>1, <3>1, <3>2 DEF EmpiezaEntradas
  <2>3. \/ Ir(c, "tomar_directorio") \/ Responder(c, "error")
        \/ pedido[c].op = "RMDIR" /\ Ir(c, "borrar_directorio")
    BY <1>6 DEF BuscarEntradas, NoHayDirectorio
  <2>4. QED
    BY <1>2, <1>3, <1>5, <2>1, <2>2, <2>3
<1>7. CASE TomarDirectorio(c)
  <2>1. pc[c] = "tomar_directorio" /\ Ir(c, "listar") /\ UNCHANGED discoVars
    BY <1>7 DEF TomarDirectorio, Esta
  <2>2. QED
    BY <1>2, <1>3, <1>4, <1>5, <2>1
<1>8. CASE Listar(c)
  <2>1. pc[c] = "listar" /\ pedido[c].op = "READDIR" /\ Responder(c, "ok") /\ UNCHANGED discoVars
    BY <1>8 DEF Listar, Esta
  <2>2. QED
    BY <1>3, <1>4, <1>5, <2>1
<1>9. CASE EmpezarRmdir(c)
  <2>1. /\ pc[c] = "libre" /\ pedido[c] # Nada /\ pedido[c].op = "RMDIR" /\ UNCHANGED discoVars
        /\ Responder(c, "error") \/ Ir(c, "entradas")
    BY <1>9 DEF EmpezarRmdir, Llega
  <2>2. QED
    BY <1>2, <1>3, <1>5, <2>1
<1>10. CASE RevisarEntradas(c)
  <2>1. /\ pc[c] = "listar" /\ pedido[c].op = "RMDIR" /\ UNCHANGED discoVars
        /\ Responder(c, "error") \/ Ir(c, "borrar_directorio")
    BY <1>10 DEF RevisarEntradas, Esta
  <2>2. QED
    BY <1>2, <1>3, <1>4, <1>5, <2>1
<1>11. CASE BorrarDirectorio(c)
  <2>1. pc[c] = "borrar_directorio" /\ Responder(c, "ok") /\ disco' = disco
    BY <1>11 DEF BorrarDirectorio, Esta
  <2>2. pedido[c] # Nada /\ pedido[c].op = "RMDIR" /\ Atiende(c)
    BY <1>2, <1>4, <1>5, <2>1 DEF ArchivosInv
  <2>3. PICK r : r = Ruta(c)
    OBVIOUS
  <2>4. PICK i \in Indices : i = Saca(r)
    BY <1>0, SacaNodo
  <2>5. r \in DOMAIN dicc /\ i = dicc[r] /\ tabla[i].estado # 1
    BY <2>2, <2>3, <2>4 DEF Atiende, EnDicc, Saca
  <2>6. \A p \in Pis : BPD(i, p) = 0
    BY <1>0, <2>5 DEF SoloArchivos
  <2>7. dicc' = Sin(dicc, r) /\ tabla' = [tabla EXCEPT ![i].estado = 0, ![i].tamanio = 0]
    BY <1>11, <2>3, <2>4 DEF BorrarDirectorio
  <2>8. \A k \in Indices : tabla'[k].punteros = tabla[k].punteros /\ (k # i => tabla'[k].estado = tabla[k].estado)
    <3>1. tabla \in [Indices -> NodoTipo]
      BY <1>0 DEF SacTipo
    <3>2. QED
      BY <2>7, <3>1, NodoLibre
  <2>9. dicc' = Sin(dicc, r)
    BY <2>7
  <2>10. QED
    BY <2>1, <2>2, <2>3, <2>5, <2>6, <2>8, <2>9, SacarFiel
<1>12. QED
  BY <1>6, <1>7, <1>8, <1>9, <1>10, <1>11 DEF Directorio

(* No path is renamed. *)
LEMMA SinRenombrar ==
  ASSUME SinRenombres, BloquesInv, ArchivosInv, NEW c \in Conexiones, Rename(c)
  PROVE  FALSE
<1>1. pc[c] \in {"con_nodo", "cambiar_clave", "cambiar_nombres"} /\ (pc[c] = "con_nodo" => pedido[c].op = "RENAME")
  BY DEF Rename, Renombrar, RenombrarExistente, CambiarClave, CambiarNombre, Esta
<1>2. pedido[c] \in Pedibles[c] /\ pedido[c].op \in Sirven(pc[c])
  BY <1>1, AtiendeDe
<1>3. Sirven("cambiar_clave") = {} /\ Sirven("cambiar_nombres") = {}
  BY SirvenSon DEF DeRenombrar
<1>4. QED
  BY <1>1, <1>2, <1>3 DEF SinRenombres, Pedidos

-----------------------------------------------------------------------------
(* The requests on the data.                                                 *)

LEMMA DatosDe ==
  ASSUME BloquesInv, ArchivosInv, NEW c \in Conexiones,
         pc[c] \in DeDatos \/ (pc[c] = "con_nodo" /\ pedido[c].op \in DeArchivo)
  PROVE  /\ pedido[c] # Nada /\ pedido[c].op \in DeArchivo /\ pedido[c].op \in Sirven(pc[c])
         /\ Ruta(c) \in RutasDatos /\ Ruta(c) \in DOMAIN dicc /\ Nodo(c) \in Indices
         /\ Nodo(c) = dicc[Ruta(c)] /\ Nodo(c) = Saca(Ruta(c)) /\ tabla[Nodo(c)].estado = 1
<1>1. pc[c] \in {"con_nodo"} \cup DeEscribir \cup DeVaciar /\ pc[c] \notin {"libre", "colgado"}
  BY DEF DeDatos, DeEscribir, DeVaciar
<1>2. pedido[c] # Nada /\ pedido[c] \in Pedibles[c] /\ Atiende(c) /\ pedido[c].op \in Sirven(pc[c])
  BY <1>1, AtiendeDe
<1>3. pedido[c].op \in DeArchivo
  <2>1. DeVaciar = DeLimpiar \cup DeTruncar
    BY DEF DeVaciar, DeLimpiar, DeTruncar
  <2>2. \A punto \in DeDatos : Sirven(punto) \subseteq DeArchivo
    BY <2>1, SirvenSon DEF DeDatos, DeArchivo
  <2>3. QED
    BY <1>2, <2>2
<1>4. EnDicc(c) /\ tabla[dicc[Ruta(c)]].estado = 1 /\ Nodo(c) = Saca(Ruta(c))
  BY <1>1, <1>2, <1>3 DEF Atiende
<1>5. Nodo(c) = dicc[Ruta(c)] /\ Nodo(c) \in Indices
  BY <1>4 DEF Saca, EnDicc, BloquesInv, SacTipo
<1>6. QED
  BY <1>2, <1>3, <1>4, <1>5, RutaDeDatos DEF EnDicc

LEMMA OtrosIguales ==
  ASSUME Hipotesis, BloquesInv, NEW c \in Conexiones, AtenderDatos(c), NEW i \in Indices, i = Nodo(c)
  PROVE  \A k \in Indices : k # i => Contenido(k)' = Contenido(k)
<1>1. SoloDe(i) /\ Apuntes /\ Distintos
  BY AtenderDatosInv DEF BloquesInv
<1>2. QED
  BY <1>1, MismoContenido

(* The handler goes on with its file, and wipes a block or leaves what it holds. *)
LEMMA PasoDeDatos ==
  ASSUME Hipotesis, BloquesInv, ArchivosInv, NEW c \in Conexiones, AtenderDatos(c),
         pc[c] \in DeDatos \/ (pc[c] = "con_nodo" /\ pedido[c].op \in DeArchivo),
         NEW i, i = Nodo(c), local'[c].nodo = i,
         NEW punto \in DeDatos \cup {"desasignar"}, Ir(c, punto), pedido[c].op \in Sirven(punto), dicc' = dicc,
         \A k \in Indices : tabla'[k].estado = tabla[k].estado /\ (k # i => tabla'[k].punteros = tabla[k].punteros),
         Contenido(i)' = Contenido(i) \/ (SeBorra(i) /\ pedido[c].op # "WRITE")
  PROVE  ArchivosInv' /\ Fiel
<1>0. SacTipo /\ SoloArchivos /\ UnaRuta
  BY DEF BloquesInv, ArchivosInv
<1>1. /\ pedido[c] # Nada /\ pedido[c].op \in DeArchivo /\ Ruta(c) \in RutasDatos /\ Ruta(c) \in DOMAIN dicc
      /\ i \in Indices /\ i = dicc[Ruta(c)] /\ i = Saca(Ruta(c)) /\ tabla[i].estado = 1
  BY DatosDe
<1>2. /\ punto \in Puntos /\ punto \notin {"marcar", "elegir"} /\ pc[c] # "marcar"
  BY PuntosQuietos DEF Puntos, DeDatos, DeEscribir, DeVaciar
<1>3. Firme
  <2>1. ASSUME NEW k \in Indices, tabla'[k].estado # 1, NEW p \in Pis PROVE tabla'[k].punteros[p] = 0
    <3>1. k # i
      BY <1>1, <2>1
    <3>2. QED
      BY <1>0, <2>1, <3>1 DEF SoloArchivos, BPD
  <2>2. SoloArchivos'
    BY <2>1 DEF SoloArchivos, BPD
  <2>3. QED
    BY <2>2 DEF Firme
<1>4. ArchivosInv'
  BY <1>1, <1>2, <1>3, SigueArchivos DEF Hipotesis
<1>5. \A k \in Indices : k # i => Contenido(k)' = Contenido(k)
  BY <1>1, OtrosIguales
<1>6. CASE Contenido(i)' = Contenido(i)
  <2>1. \A k \in Indices : Contenido(k)' = Contenido(k)
    BY <1>5, <1>6
  <2>2. Fiel
    BY <1>0, <2>1, GuardadoIgual, FielSigue
  <2>3. QED
    BY <1>4, <2>2
<1>7. CASE SeBorra(i) /\ pedido[c].op # "WRITE"
  <2>1. PICK k \in 0..(Capacidad - 1) : Tramo(i, DelBloque(k), 0)
    BY <1>7 DEF SeBorra
  <2>2. PICK X, v, r : X = DelBloque(k) /\ v = 0 /\ r = Ruta(c)
    OBVIOUS
  <2>3. Guardado' = B!Con(r, X, v)
    <3>1. r \in RutasDatos /\ r \in DOMAIN dicc /\ i = dicc[r] /\ Tramo(i, X, v)
      BY <1>1, <2>1, <2>2
    <3>2. QED
      BY <1>0, <1>5, <3>1, GuardadoCon
  <2>4. B!Borra(pedido[c])
    <3>1. DeVaciar = DeLimpiar \cup DeTruncar
      BY DEF DeVaciar, DeLimpiar, DeTruncar
    <3>2. punto \in DeEscribir \cup DeLimpiar \cup DeTruncar \cup {"desasignar"}
      BY <3>1 DEF DeDatos
    <3>3. Sirven(punto) \subseteq {"WRITE", "UNLINK", "TRUNCATE"}
      BY <3>2, SirvenSon
    <3>4. QED
      BY <1>7, <3>3 DEF B!Borra
  <2>5. X = {n \in 0..(Capacidad - 1) : n \div Celdas = k} /\ r = pedido[c].ruta
    BY <2>2 DEF DelBloque, Ruta
  <2>6. Guardado' = B!Con(pedido[c].ruta, {n \in 0..(Capacidad - 1) : n \div Celdas = k}, 0)
    BY <2>2, <2>3, <2>5
  <2>7. B!Vaciar(c)
    BY <1>1, <2>4, <2>6 DEF B!Vaciar, Ir
  <2>8. Fiel
    BY <2>7 DEF B!Next, Fiel
  <2>9. QED
    BY <1>4, <2>8
<1>8. QED
  BY <1>6, <1>7

LEMMA EscribirFiel ==
  ASSUME Hipotesis, BloquesInv, ArchivosInv, NEW c \in Conexiones, EscribirBytes(c)
  PROVE  ArchivosInv' /\ Fiel
<1>0. SacTipo /\ SoloArchivos /\ UnaRuta /\ UnMontaje
  BY DEF BloquesInv, ArchivosInv, Hipotesis
<1>1. pc[c] = "escribir_dato" /\ pc[c] \in DeEscribir /\ pc[c] \in DeDatos /\ Responder(c, "ok") /\ dicc' = dicc
  BY DEF EscribirBytes, Esta, DeEscribir, DeDatos, enMemoria
<1>2a. PICK r : r = Ruta(c)
  OBVIOUS
<1>2. PICK i \in Indices : /\ i = Nodo(c) /\ r = Ruta(c) /\ r \in RutasDatos /\ r \in DOMAIN dicc /\ i = dicc[r]
  BY <1>2a, <1>1, DatosDe
<1>3. pedido[c] # Nada /\ pedido[c].op = "WRITE"
  BY <1>1, DatosDe, SirvenSon
<1>4. PICK t : tabla' = [tabla EXCEPT ![i].tamanio = t]
  BY <1>2 DEF EscribirBytes
<1>5. \A k \in Indices : tabla'[k].punteros = tabla[k].punteros /\ tabla'[k].estado = tabla[k].estado
  <2>1. tabla \in [Indices -> NodoTipo]
    BY <1>0 DEF SacTipo
  <2>2. QED
    BY <1>4, <2>1 DEF NodoTipo
<1>6. Firme
  BY <1>0, <1>1, <1>5, FirmeDe
<1>7. ArchivosInv'
  BY <1>0, <1>1, <1>6, TerminaArchivos DEF Responder
<1>8. PICK X, v : X = B!Escritos(pedido[c]) /\ v = pedido[c].valor
  OBVIOUS
<1>9. Tramo(i, X, v)
  <2>1. Tramo(i, B!Escritos(pedido[c]), pedido[c].valor)
    BY <1>2, EscribirBytesSeVe
  <2>2. QED
    BY <1>8, <2>1
<1>10. \A k \in Indices : k # i => Contenido(k)' = Contenido(k)
  BY <1>2, OtrosIguales DEF AtenderDatos, Write
<1>11. Guardado' = B!Con(r, X, v)
  BY <1>0, <1>1, <1>2, <1>9, <1>10, GuardadoCon
<1>12. B!Contesta(c, "ok")
  BY <1>1, <1>3 DEF Responder, Terminar, Enviar, B!Contesta, B!ContestaCon
<1>13. Guardado' = B!Con(pedido[c].ruta, B!Escritos(pedido[c]), pedido[c].valor)
  BY <1>2, <1>8, <1>11 DEF Ruta
<1>14. B!Escribir(c)
  BY <1>3, <1>12, <1>13 DEF B!Escribir
<1>15. Fiel
  BY <1>14 DEF B!Next, Fiel
<1>16. QED
  BY <1>7, <1>15

LEMMA WriteFiel ==
  ASSUME Hipotesis, BloquesInv, ArchivosInv, NEW c \in Conexiones, Write(c)
  PROVE  ArchivosInv' /\ Fiel
<1>0. SacTipo /\ AtenderDatos(c)
  BY DEF BloquesInv, AtenderDatos
<1>1. CASE EscribirBytes(c)
  BY <1>1, EscribirFiel
<1>2. CASE ~EscribirBytes(c)
  <2>1. /\ pc[c] \in DeEscribir \/ (pc[c] = "con_nodo" /\ pedido[c].op = "WRITE")
        /\ dicc' = dicc
    BY <1>2 DEF Write, TomarBPD, ApuntarBPD, HayBPD, TomarDato, ApuntarDato, SinBloques, FaltaBPD, FaltaDato,
                Esta, DeEscribir, discoVars, enMemoria
  <2>2. pedido[c] # Nada /\ pedido[c].op = "WRITE" /\ Nodo(c) \in Indices
    BY <2>1, LugarDeEscritura
  <2>3. pc[c] \in DeDatos \/ (pc[c] = "con_nodo" /\ pedido[c].op \in DeArchivo)
    BY <2>1 DEF DeDatos, DeArchivo
  <2>4. PICK i \in Indices : i = Nodo(c)
    BY <2>2
  <2>5. CASE SinBloques(c)
    <3>1. Responder(c, "error") /\ UNCHANGED <<tabla, disco, dicc>> /\ pc[c] # "marcar"
      BY <2>5 DEF SinBloques, FaltaBPD, FaltaDato, Esta, discoVars, enDisco, enMemoria
    <3>2. QED
      BY <2>2, <3>1, RespuestaQuieta
  <2>6. CASE ~SinBloques(c)
    <3>1. PICK punto \in DeEscribir : Ir(c, punto)
      BY <1>2, <2>6 DEF Write, TomarBPD, ApuntarBPD, HayBPD, TomarDato, ApuntarDato, DeEscribir
    <3>2. punto \in DeDatos \cup {"desasignar"} /\ pedido[c].op \in Sirven(punto)
      BY <2>2, SirvenSon DEF DeDatos
    <3>3. local'[c].nodo = i
      <4>1. local \in [Conexiones -> LocalTipo] /\ i = local[c].nodo
        BY <1>0, <2>4 DEF SacTipo, Nodo
      <4>2. CASE UNCHANGED local
        BY <4>1, <4>2
      <4>3. CASE \E b : local' = [local EXCEPT ![c].bloque = b]
        BY <4>1, <4>3 DEF LocalTipo
      <4>4. QED
        BY <1>2, <2>6, <4>2, <4>3 DEF Write, TomarBPD, ApuntarBPD, HayBPD, TomarDato, ApuntarDato, TomarBloque
    <3>4. /\ \A k \in Indices : tabla'[k].estado = tabla[k].estado /\ (k # i => tabla'[k].punteros = tabla[k].punteros)
          /\ Contenido(i)' = Contenido(i)
      <4>1. CASE ApuntarBPD(c)
        <5>1. PICK p, b : tabla' = [tabla EXCEPT ![i].punteros[p] = b]
          BY <2>4, <4>1 DEF ApuntarBPD, Apuntar
        <5>2. \A k \in Indices : tabla'[k].estado = tabla[k].estado /\ (k # i => tabla'[k].punteros = tabla[k].punteros)
          BY <1>0, <5>1 DEF SacTipo, NodoTipo
        <5>3. Contenido(Nodo(c))' = Contenido(Nodo(c)) /\ Nodo(c)' = Nodo(c)
          BY <4>1, ApuntarBPDNoSeVe
        <5>4. Contenido(i)' = Contenido(i)
          BY <2>4, <5>3
        <5>5. QED
          BY <5>2, <5>4
      <4>2. CASE ApuntarDato(c)
        <5>1. tabla' = tabla
          BY <4>2 DEF ApuntarDato
        <5>2. Contenido(Nodo(c))' = Contenido(Nodo(c)) /\ Nodo(c)' = Nodo(c)
          BY <4>2, ApuntarDatoNoSeVe
        <5>3. Contenido(i)' = Contenido(i)
          BY <2>4, <5>2
        <5>4. QED
          BY <5>1, <5>3
      <4>3. CASE TomarBPD(c) \/ HayBPD(c) \/ TomarDato(c)
        <5>1. UNCHANGED <<tabla, disco>>
          BY <4>3 DEF TomarBPD, HayBPD, TomarDato, discoVars, enDisco
        <5>2. QED
          BY <5>1, MismosPunteros
      <4>4. QED
        BY <1>2, <2>6, <4>1, <4>2, <4>3 DEF Write
    <3>5. QED
      BY <1>0, <2>1, <2>3, <2>4, <3>1, <3>2, <3>3, <3>4, PasoDeDatos
  <2>7. QED
    BY <2>5, <2>6
<1>3. QED
  BY <1>1, <1>2

(* The end of the loops: the file has no block left. *)
LEMMA AlTerminar ==
  ASSUME BloquesInv, NEW c \in Conexiones,
         (Esta(c, "limpiar") /\ ~Vaciando(c, "limpiar")) \/ (Esta(c, "vaciar") /\ ~Vaciando(c, "vaciar"))
  PROVE  \A p \in Pis : BPD(Nodo(c), p) = 0 /\ \A j \in Celda : BloqueDato(Nodo(c), p, j) = 0
<1>1. pc[c] \in DeVaciar /\ Siguientes(Nodo(c), local[c].cursor) = {}
  BY DEF Vaciando, Esta, DeVaciar
<1>2. local[c].cursor \in Nat /\ EnBucle(c)
  BY <1>1, PuntosDeVaciar
<1>3. ASSUME NEW p \in Pis, NEW j \in 0..Celdas PROVE En(Nodo(c), p, j) = 0
  <2>1. Pos(p, j) \in Nat
    BY PosicionDe, CamposDePosicion
  <2>2. local[c].cursor <= Pos(p, j) => En(Nodo(c), p, j) = 0
    BY <1>1, <1>2, NadaMas
  <2>3. Pos(p, j) < local[c].cursor => En(Nodo(c), p, j) = 0
    BY <1>2 DEF EnBucle
  <2>4. QED
    BY <1>2, <2>1, <2>2, <2>3
<1>4. \A p \in Pis : BPD(Nodo(c), p) = 0
  BY <1>3, Medidas DEF En
<1>5. QED
  BY <1>4 DEF BloqueDato

LEMMA UnlinkFiel ==
  ASSUME Hipotesis, BloquesInv, ArchivosInv, NEW c \in Conexiones, Unlink(c)
  PROVE  ArchivosInv' /\ Fiel
<1>0. SacTipo /\ AtenderDatos(c)
  BY DEF BloquesInv, AtenderDatos
<1>1. CASE EmpezarUnlink(c)
  <2>1. /\ pc[c] = "libre" /\ pedido[c] # Nada /\ pedido[c].op = "UNLINK" /\ UNCHANGED <<tabla, disco, dicc>>
        /\ Responder(c, "error") \/ Ir(c, "tomar_unlink")
    BY <1>1 DEF EmpezarUnlink, Llega, discoVars, enDisco, enMemoria
  <2>2. /\ "tomar_unlink" \in Puntos /\ pedido[c].op \in Sirven("tomar_unlink")
        /\ "tomar_unlink" \notin {"con_nodo"} \cup DeEscribir \cup DeVaciar
    BY <2>1, PuntosQuietos, SirvenSon DEF Puntos, DeEscribir, DeVaciar
  <2>3. QED
    BY <2>1, <2>2, PasoQuieto, RespuestaQuieta
<1>2. CASE TomarUnlink(c)
  <2>1. pc[c] = "tomar_unlink" /\ Ir(c, "limpiar") /\ UNCHANGED <<tabla, disco, dicc>>
    BY <1>2 DEF TomarUnlink, Esta, enDisco
  <2>2. local'[c].nodo = Saca(Ruta(c))
    BY <1>0, <1>2 DEF TomarUnlink, SacTipo, LocalTipo
  <2>3. "limpiar" \in Puntos /\ pedido[c].op \in Sirven("limpiar")
    <3>1. pedido[c].op \in Sirven("tomar_unlink")
      BY <2>1, AtiendeDe
    <3>2. QED
      BY <3>1, SirvenSon DEF DeLimpiar, Puntos, DeVaciar
  <2>4. QED
    BY <2>1, <2>2, <2>3, PasoQuieto
<1>3. CASE LimpiarSuelta(c) \/ LimpiarDato(c) \/ LimpiarPuntero(c)
  <2>1. pc[c] \in DeLimpiar /\ pc[c] \in DeDatos /\ dicc' = dicc
    BY <1>3 DEF LimpiarSuelta, LimpiarDato, LimpiarPuntero, Vaciando, Esta, DeLimpiar, DeDatos, DeVaciar, enMemoria
  <2>2. pedido[c].op = "UNLINK" /\ Nodo(c) \in Indices
    <3>1. Sirven(pc[c]) = {"UNLINK"}
      BY <2>1, SirvenSon
    <3>2. pedido[c].op \in Sirven(pc[c]) /\ Nodo(c) \in Indices
      BY <2>1, DatosDe
    <3>3. QED
      BY <3>1, <3>2
  <2>3. PICK i \in Indices : i = Nodo(c)
    BY <2>2
  <2>4. PICK punto \in DeLimpiar : Ir(c, punto)
    BY <1>3 DEF LimpiarSuelta, LimpiarDato, LimpiarPuntero, DeLimpiar
  <2>5. punto \in DeDatos \cup {"desasignar"} /\ pedido[c].op \in Sirven(punto)
    BY <2>2, SirvenSon DEF DeDatos, DeVaciar, DeLimpiar
  <2>6. local'[c].nodo = i
    <3>1. PICK m : local' = [local EXCEPT ![c].cursor = m]
      BY <1>3 DEF LimpiarSuelta, LimpiarDato, LimpiarPuntero, Avanzar
    <3>2. QED
      BY <1>0, <2>3, <3>1 DEF SacTipo, LocalTipo, Nodo
  <2>7. /\ \A k \in Indices : tabla'[k].estado = tabla[k].estado /\ (k # i => tabla'[k].punteros = tabla[k].punteros)
        /\ Contenido(i)' = Contenido(i) \/ (SeBorra(i) /\ pedido[c].op # "WRITE")
    <3>1. CASE LimpiarSuelta(c)
      <4>1. UNCHANGED <<tabla, disco>>
        BY <3>1 DEF LimpiarSuelta, enDisco
      <4>2. QED
        BY <4>1, MismosPunteros
    <3>2. CASE LimpiarDato(c)
      <4>1. tabla' = tabla
        BY <3>2 DEF LimpiarDato
      <4>2. SeBorra(i)
        BY <2>3, <3>2, BorrarCeldaSeVe
      <4>3. QED
        BY <2>2, <4>1, <4>2
    <3>3. CASE LimpiarPuntero(c)
      <4>1. PICK p : tabla' = [tabla EXCEPT ![i].punteros[p] = 0]
        BY <2>3, <3>3 DEF LimpiarPuntero, Apuntar
      <4>2. \A k \in Indices : tabla'[k].estado = tabla[k].estado /\ (k # i => tabla'[k].punteros = tabla[k].punteros)
        BY <1>0, <4>1 DEF SacTipo, NodoTipo
      <4>3. Contenido(i)' = Contenido(i)
        BY <2>3, <3>3, BorrarPunteroNoSeVe
      <4>4. QED
        BY <4>2, <4>3
    <3>4. QED
      BY <1>3, <3>1, <3>2, <3>3
  <2>8. QED
    BY <1>0, <2>1, <2>3, <2>4, <2>5, <2>6, <2>7, PasoDeDatos
<1>4. CASE TerminarUnlink(c)
  <2>1. pc[c] = "limpiar" /\ pc[c] \in DeDatos /\ pc[c] \in DeLimpiar /\ Responder(c, "ok") /\ disco' = disco
    BY <1>4 DEF TerminarUnlink, Esta, DeDatos, DeVaciar, DeLimpiar
  <2>2a. PICK r : r = Ruta(c)
    OBVIOUS
  <2>2. PICK i \in Indices : i = Nodo(c) /\ r = Ruta(c) /\ r \in DOMAIN dicc /\ i = dicc[r]
    BY <2>2a, <2>1, DatosDe
  <2>3. pedido[c] # Nada /\ pedido[c].op = "UNLINK"
    BY <2>1, DatosDe, SirvenSon
  <2>4. \A p \in Pis : BPD(i, p) = 0
    BY <1>4, <2>2, AlTerminar DEF TerminarUnlink
  <2>5. tabla' = [tabla EXCEPT ![i].estado = 0, ![i].tamanio = 0]
    BY <1>4, <2>2 DEF TerminarUnlink
  <2>6. \A k \in Indices : tabla'[k].punteros = tabla[k].punteros /\ (k # i => tabla'[k].estado = tabla[k].estado)
    BY <1>0, <2>5, NodoLibre DEF SacTipo
  <2>7. dicc' = Sin(dicc, r)
    BY <1>4, <2>2 DEF TerminarUnlink
  <2>8. QED
    BY <2>1, <2>2, <2>3, <2>4, <2>6, <2>7, SacarFiel
<1>5. QED
  BY <1>1, <1>2, <1>3, <1>4 DEF Unlink

(* A file that is told to have no bytes, and has none, has no block. *)
LEMMA SinBytes ==
  ASSUME NEW i, 0 >= Bloques(i) * Celdas
  PROVE  \A p \in Pis, j \in Celda : BloqueDato(i, p, j) = 0
<1> DEFINE S == (0..(Punteros - 1)) \X (0..(Celdas - 1))
           U == {x \in S : BloqueDato(i, x[1], x[2]) # 0}
<1>1. Celdas \in Nat \ {0} /\ Punteros \in Nat \ {0}
  BY Medidas
<1>2. IsFiniteSet(0..(Punteros - 1)) /\ IsFiniteSet(0..(Celdas - 1))
  BY <1>1, FS_Interval
<1>3. IsFiniteSet(S)
  BY <1>2, FS_Product
<1>4. IsFiniteSet(U)
  BY <1>3, FS_Subset
<1>5. Cardinality(U) \in Nat /\ (Cardinality(U) = 0 <=> U = {})
  BY <1>4, FS_CardinalityType, FS_EmptySet
<1>6. Bloques(i) = Cardinality(U)
  BY DEF Bloques
<1>7. Bloques(i) = 0
  <2>1. PICK k \in Nat : k = Bloques(i)
    BY <1>5, <1>6
  <2>2. k # 0 => k * Celdas > 0
    BY <1>1, <2>1
  <2>3. QED
    BY <1>1, <2>1, <2>2
<1>8. U = {}
  BY <1>5, <1>6, <1>7
<1>9. ASSUME NEW p \in Pis, NEW j \in Celda, BloqueDato(i, p, j) # 0 PROVE FALSE
  <2>1. <<p, j>> \in S
    BY DEF Pis, Celda
  <2>2. <<p, j>> \in U
    BY <1>9, <2>1
  <2>3. QED
    BY <1>8, <2>2
<1>10. QED
  BY <1>9

LEMMA NoTruncarFiel ==
  ASSUME Hipotesis, BloquesInv, ArchivosInv, NEW c \in Conexiones, NoTruncar(c)
  PROVE  ArchivosInv' /\ Fiel
<1>0. SacTipo /\ SoloArchivos /\ UnMontaje
  BY DEF BloquesInv, ArchivosInv, Hipotesis
<1>1. /\ pc[c] = "con_nodo" /\ pedido[c].op = "TRUNCATE" /\ UNCHANGED <<tabla, disco, dicc>>
      /\ pedido[c].hasta >= Bloques(Nodo(c)) * Celdas
  BY DEF NoTruncar, Esta, discoVars, enDisco, enMemoria
<1>2. PICK punto \in {"libre", "colgado"}, r \in {"", "ok", "error"} : Terminar(c, punto, r) /\ Enviar(c, <<>>)
  BY DEF NoTruncar, Responder, Callar
<1>3. Firme /\ Guardado' = Guardado
  BY <1>0, <1>1, FirmeDe, GuardadoIgual
<1>4. ArchivosInv'
  BY <1>0, <1>1, <1>2, <1>3, TerminaArchivos
<1>5. /\ pedido[c] # Nada /\ Ruta(c) \in RutasDatos /\ Ruta(c) \in DOMAIN dicc /\ Nodo(c) = dicc[Ruta(c)]
  BY <1>1, DatosDe DEF DeArchivo
<1>6. pedido[c].hasta = 0 => Guardado[Ruta(c)] = Nulo
  <2>1. SUFFICES ASSUME pedido[c].hasta = 0 PROVE Guardado[Ruta(c)] = Nulo
    OBVIOUS
  <2>2. PICK i : i = Nodo(c)
    OBVIOUS
  <2>3. Contenido(i) = Nulo
    BY <1>1, <2>1, <2>2, SinBytes, SinBloquesNulo
  <2>4. QED
    BY <1>5, <2>2, <2>3, GuardadoEs
<1>7. Fiel
  BY <1>1, <1>2, <1>3, <1>5, <1>6, FielTermina
<1>8. QED
  BY <1>4, <1>7

LEMMA TruncateFiel ==
  ASSUME Hipotesis, BloquesInv, ArchivosInv, NEW c \in Conexiones, Truncate(c)
  PROVE  ArchivosInv' /\ Fiel
<1>0. SacTipo /\ SoloArchivos /\ UnMontaje /\ AtenderDatos(c)
  BY DEF BloquesInv, ArchivosInv, Hipotesis, AtenderDatos
<1>1. CASE NoTruncar(c)
  BY <1>1, NoTruncarFiel
<1>2. CASE TerminarTruncate(c)
  <2>1. pc[c] = "vaciar" /\ pc[c] \in DeDatos /\ pc[c] \in DeTruncar /\ Responder(c, "ok") /\ UNCHANGED <<disco, dicc>>
    BY <1>2 DEF TerminarTruncate, Esta, DeDatos, DeVaciar, DeTruncar, enMemoria
  <2>2a. PICK r : r = Ruta(c)
    OBVIOUS
  <2>2. PICK i \in Indices : i = Nodo(c) /\ r = Ruta(c) /\ r \in RutasDatos /\ r \in DOMAIN dicc /\ i = dicc[r]
    BY <2>2a, <2>1, DatosDe
  <2>3. pedido[c] # Nada /\ pedido[c].op = "TRUNCATE"
    BY <2>1, DatosDe, SirvenSon
  <2>4. tabla' = [tabla EXCEPT ![i].tamanio = 0]
    BY <1>2, <2>2 DEF TerminarTruncate
  <2>5. \A k \in Indices : tabla'[k].punteros = tabla[k].punteros /\ tabla'[k].estado = tabla[k].estado
    BY <1>0, <2>4 DEF SacTipo, NodoTipo
  <2>6. Firme /\ Guardado' = Guardado
    BY <1>0, <2>1, <2>5, FirmeDe, GuardadoIgual
  <2>7. ArchivosInv'
    BY <1>0, <2>1, <2>6, TerminaArchivos DEF Responder
  <2>8. Contenido(i) = Nulo
    <3>1. \A p \in Pis, j \in Celda : BloqueDato(i, p, j) = 0
      BY <1>2, <2>2, AlTerminar DEF TerminarTruncate
    <3>2. QED
      BY <3>1, SinBloquesNulo
  <2>9. Guardado[Ruta(c)] = Nulo
    BY <2>2, <2>8, GuardadoEs
  <2>10. Fiel
    BY <2>1, <2>3, <2>6, <2>9, FielTermina DEF Responder
  <2>11. QED
    BY <2>7, <2>10
<1>3. CASE EmpezarTruncate(c) \/ VaciarDato(c) \/ VaciarPuntero(c) \/ SoltarBloque(c) \/ DesapuntarBloque(c)
  <2>1. /\ pc[c] \in DeTruncar \/ (pc[c] = "con_nodo" /\ pedido[c].op = "TRUNCATE")
        /\ dicc' = dicc
    BY <1>3 DEF EmpezarTruncate, VaciarDato, VaciarPuntero, SoltarBloque, DesapuntarBloque, Vaciando, Esta,
                DeTruncar, discoVars, enMemoria
  <2>2. pc[c] \in DeDatos \/ (pc[c] = "con_nodo" /\ pedido[c].op \in DeArchivo)
    BY <2>1 DEF DeDatos, DeVaciar, DeTruncar, DeArchivo
  <2>3. pedido[c].op = "TRUNCATE" /\ Nodo(c) \in Indices
    <3>1. pc[c] \in DeTruncar => Sirven(pc[c]) = {"TRUNCATE"}
      BY SirvenSon
    <3>2. pedido[c].op \in Sirven(pc[c]) /\ Nodo(c) \in Indices
      BY <2>2, DatosDe
    <3>3. QED
      BY <2>1, <3>1, <3>2
  <2>4. PICK i \in Indices : i = Nodo(c)
    BY <2>3
  <2>5. PICK punto \in {"desasignar"} \cup DeTruncar : Ir(c, punto)
    BY <1>3 DEF EmpezarTruncate, VaciarDato, VaciarPuntero, SoltarBloque, DesapuntarBloque, DeTruncar
  <2>6. punto \in DeDatos \cup {"desasignar"} /\ pedido[c].op \in Sirven(punto)
    <3>1. Sirven(punto) = {"TRUNCATE"}
      BY SirvenSon
    <3>2. QED
      BY <2>3, <3>1 DEF DeDatos, DeVaciar, DeTruncar
  <2>7. local'[c].nodo = i
    <3>1. local' = local \/ \E m : local' = [local EXCEPT ![c].cursor = m]
      BY <1>3 DEF EmpezarTruncate, VaciarDato, VaciarPuntero, SoltarBloque, DesapuntarBloque, Avanzar
    <3>2. QED
      BY <1>0, <2>4, <3>1 DEF SacTipo, LocalTipo, Nodo
  <2>8. /\ \A k \in Indices : tabla'[k].estado = tabla[k].estado /\ (k # i => tabla'[k].punteros = tabla[k].punteros)
        /\ Contenido(i)' = Contenido(i) \/ (SeBorra(i) /\ pedido[c].op # "WRITE")
    <3>1. CASE EmpezarTruncate(c) \/ VaciarPuntero(c) \/ SoltarBloque(c)
      <4>1. UNCHANGED <<tabla, disco>>
        BY <3>1 DEF EmpezarTruncate, VaciarPuntero, SoltarBloque, discoVars, enDisco
      <4>2. QED
        BY <4>1, MismosPunteros
    <3>2. CASE VaciarDato(c)
      <4>1. tabla' = tabla
        BY <3>2 DEF VaciarDato
      <4>2. SeBorra(i)
        BY <2>4, <3>2, VaciarDatoSeVe
      <4>3. QED
        BY <2>3, <4>1, <4>2
    <3>3. CASE DesapuntarBloque(c) /\ AlFinal(local[c].cursor)
      <4>1. PICK p : tabla' = [tabla EXCEPT ![i].punteros[p] = 0]
        BY <2>4, <3>3 DEF DesapuntarBloque, Apuntar
      <4>2. \A k \in Indices : tabla'[k].estado = tabla[k].estado /\ (k # i => tabla'[k].punteros = tabla[k].punteros)
        BY <1>0, <4>1 DEF SacTipo, NodoTipo
      <4>3. Contenido(i)' = Contenido(i)
        BY <2>4, <3>3, BorrarPunteroNoSeVe
      <4>4. QED
        BY <4>2, <4>3
    <3>4. CASE DesapuntarBloque(c) /\ ~AlFinal(local[c].cursor)
      <4>1. tabla' = tabla /\ ~LimpiarDato(c)
        BY <3>4 DEF DesapuntarBloque, LimpiarDato, Esta
      <4>2. Contenido(i)' = Contenido(i)
        BY <2>4, <3>4, <4>1, BorrarCeldaSeVe
      <4>3. QED
        BY <4>1, <4>2
    <3>5. QED
      BY <1>3, <3>1, <3>2, <3>3, <3>4
  <2>9. QED
    BY <1>0, <2>1, <2>2, <2>4, <2>5, <2>6, <2>7, <2>8, PasoDeDatos
<1>4. QED
  BY <1>1, <1>2, <1>3 DEF Truncate

-----------------------------------------------------------------------------
(* The server, and the files in every state.                                 *)

LEMMA ArchivosInicial ==
  ASSUME Hipotesis, Init
  PROVE  ArchivosInv /\ B!Init
<1>1. /\ tabla = Formato.tabla /\ dicc = Diccionario(tabla) /\ tabla \in [Indices -> NodoTipo]
      /\ \A i \in Indices, p \in Pis : tabla[i].punteros[p] = 0
      /\ pedido = [c \in Conexiones |-> Nada] /\ respuesta = [c \in Conexiones |-> ""]
      /\ leido = [c \in Conexiones |-> <<>>]
  BY DEF Hipotesis, FormatoBien, Init, DiscoInit, AtencionInit
<1>2. DOMAIN tabla = Indices
  BY <1>1
<1>3. \A p \in DOMAIN dicc : dicc[p] \in Indices /\ tabla[dicc[p]].estado # 0 /\ Caminos(tabla)[dicc[p]] = p
  BY <1>1, <1>2, DiccionarioDeNodos
<1>4. UnaRuta
  BY <1>3 DEF UnaRuta
<1>5. EnUso /\ SoloArchivos
  BY <1>1, <1>3 DEF EnUso, SoloArchivos, BPD
<1>6. \A c \in Conexiones : Atiende(c)
  BY <1>1 DEF Atiende
<1>7. Guardado = [p \in RutasDatos |-> Nulo]
  <2>1. ASSUME NEW p \in RutasDatos PROVE Guardado[p] = Nulo
    <3>1. CASE p \in DOMAIN dicc
      <4>1. PICK i \in Indices : i = dicc[p]
        BY <1>3, <3>1
      <4>2. \A q \in Pis, j \in Celda : BloqueDato(i, q, j) = 0
        BY <1>1 DEF BloqueDato, BPD
      <4>3. Contenido(i) = Nulo
        BY <4>2, SinBloquesNulo
      <4>4. QED
        BY <3>1, <4>1, <4>3, GuardadoEs
    <3>2. CASE p \notin DOMAIN dicc
      BY <3>2, GuardadoEs
    <3>3. QED
      BY <3>1, <3>2
  <2>2. QED
    BY <2>1, GuardadoEs
<1>8. B!Init
  BY <1>1, <1>7 DEF B!Init, B!Ceros, Nulo
<1>9. QED
  BY <1>4, <1>5, <1>6, <1>8 DEF ArchivosInv

LEMMA PedirFiel ==
  ASSUME Hipotesis, SinRenombres, BloquesInv, ArchivosInv, NEW c \in Conexiones, Pedir(c)
  PROVE  ArchivosInv' /\ Fiel
<1>0. SacTipo /\ UnaRuta /\ EnUso /\ SoloArchivos /\ \A d \in Conexiones : d = c
  BY DEF BloquesInv, ArchivosInv, Hipotesis, UnMontaje
<1>1. /\ UNCHANGED <<tabla, disco, dicc, pc, local>> /\ pc[c] = "libre" /\ pedido[c] = Nada
      /\ respuesta' = [respuesta EXCEPT ![c] = ""] /\ leido' = [leido EXCEPT ![c] = <<>>]
  BY DEF Pedir, Enviar, discoVars, enDisco, enMemoria
<1>2. PICK r \in Pedibles[c] : Permite(r) /\ pedido' = [pedido EXCEPT ![c] = r]
  BY DEF Pedir
<1>3. pedido'[c] = r
  BY <1>0, <1>2 DEF SacTipo
<1>4. Firme /\ Guardado' = Guardado
  BY <1>0, <1>1, FirmeDe, GuardadoIgual
<1>5. UnaRuta' /\ EnUso'
  BY <1>0, <1>1 DEF UnaRuta, EnUso, Nodo
<1>6. /\ r.op \in DeArchivo => r.ruta \in DOMAIN dicc /\ tabla[dicc[r.ruta]].estado = 1
      /\ r.op = "RMDIR" => r.ruta \in DOMAIN dicc /\ tabla[dicc[r.ruta]].estado # 1
  <2>1. r.op = "WRITE" => VeArchivo(r.ruta)
    BY <1>2 DEF Permite
  <2>2. r.op = "TRUNCATE" => VeArchivo(r.ruta)
    BY <1>2 DEF Permite
  <2>3. r.op = "UNLINK" => VeArchivo(r.ruta)
    BY <1>2 DEF Permite
  <2>4. r.op = "READ" => VeArchivo(r.ruta)
    BY <1>2 DEF Permite
  <2>5. r.op = "RMDIR" => VeDirectorio(r.ruta)
    BY <1>2 DEF Permite
  <2>6. QED
    BY <2>1, <2>2, <2>3, <2>4, <2>5 DEF DeArchivo, VeArchivo, VeDirectorio, Visto
<1>7. Atiende(c)'
  <2>1. Ruta(c)' = r.ruta
    BY <1>3 DEF Ruta
  <2>2. r.op \in Sirven("libre")
    BY <1>2, SirvenSon DEF SinRenombres
  <2>3. "libre" \notin {"con_nodo", "elegir", "marcar"} \cup DeEscribir \cup DeVaciar
    BY DEF DeEscribir, DeVaciar
  <2>4. EnDicc(c)' <=> r.ruta \in DOMAIN dicc
    BY <1>1, <2>1 DEF EnDicc
  <2>5. QED
    BY <1>1, <1>3, <1>6, <2>1, <2>2, <2>3, <2>4 DEF Atiende
<1>8. ArchivosInv'
  BY <1>0, <1>4, <1>5, <1>7 DEF ArchivosInv, Firme
<1>9. B!Pedir(c)
  BY <1>1, <1>2, <1>3, <1>4 DEF B!Pedir
<1>10. Fiel
  BY <1>9 DEF B!Next, Fiel
<1>11. QED
  BY <1>8, <1>10

LEMMA ArchivosSePreserva ==
  ASSUME Hipotesis, SinRenombres, BloquesInv, ArchivosInv, LeidoTipo, [Next]_vars
  PROVE  ArchivosInv' /\ Fiel
<1>1. CASE UNCHANGED vars
  BY <1>1, NadaPasa DEF BloquesInv, vars, discoVars, enMemoria
<1>2. CASE Next
  <2>1. ~Reiniciar
    BY DEF Hipotesis, UnMontaje, Reiniciar
  <2>2. PICK c \in Conexiones : Pedir(c) \/ AtenderCliente(c)
    BY <1>2, <2>1 DEF Next
  <2>3. CASE Pedir(c)
    BY <2>3, PedirFiel
  <2>4. CASE AtenderNodo(c)
    BY <2>4, NodosFiel
  <2>5. CASE AtenderArbol(c)
    BY <2>5, CrearFiel, DirectorioFiel, SinRenombrar DEF AtenderArbol
  <2>6. CASE AtenderDatos(c)
    BY <2>6, WriteFiel, UnlinkFiel, TruncateFiel DEF AtenderDatos
  <2>7. QED
    BY <2>2, <2>3, <2>4, <2>5, <2>6 DEF AtenderCliente
<1>3. QED
  BY <1>1, <1>2

(* For one mount that is not restarted and renames nothing, the server is that  *)
(* of files of bytes: each path holds a row of bytes of which a write changes    *)
(* those it was asked to, up to the end of their block, when it is answered; a   *)
(* read from the start of a block is answered the bytes that are there; a        *)
(* truncation and a removal wipe blocks of their file and of no other until      *)
(* they are answered, and a removed file holds nothing.                          *)
THEOREM ImplementaArchivosConUno == Hipotesis /\ SinRenombres => (Spec => ImplementaArchivos)
<1> SUFFICES ASSUME Hipotesis, SinRenombres PROVE Spec => ImplementaArchivos
  OBVIOUS
<1>1. Init => ArchivosInv /\ B!Init
  BY ArchivosInicial
<1>2. BloquesInv /\ ArchivosInv /\ LeidoTipo /\ [Next]_vars => ArchivosInv'
  BY ArchivosSePreserva
<1>3. BloquesInv /\ ArchivosInv /\ LeidoTipo /\ [Next]_vars => [B!Next]_<<Guardado, pedido, respuesta, leido>>
  BY ArchivosSePreserva DEF Fiel
<1>4. QED
  BY <1>1, <1>2, <1>3, BloquesInvariante, LeidoInvariante, PTL DEF Spec, ImplementaArchivos, B!Spec

-----------------------------------------------------------------------------
(* Paths.                                                                    *)

LEMMA RutaMasNombre ==
  ASSUME NEW S, NEW s \in Seq(S), NEW e \in S
  PROVE  /\ Append(s, e) \in Seq(S) /\ Append(s, e) # <<>> /\ Len(Append(s, e)) = Len(s) + 1
         /\ Front(Append(s, e)) = s /\ Last(Append(s, e)) = e
<1>1. Append(s, e) \in Seq(S) /\ Len(Append(s, e)) = Len(s) + 1 /\ Len(s) \in Nat
  BY AppendProperties
<1>2. Append(s, e) # <<>>
  BY <1>1
<1>3. Append(s, e)[Len(s) + 1] = e
  BY AppendProperties
<1>4. SubSeq(Append(s, e), 1, Len(s)) = s
  OBVIOUS
<1>5. QED
  BY <1>1, <1>2, <1>3, <1>4 DEF Front, Last

LEMMA PadreYNombre ==
  ASSUME NEW S, NEW p \in Seq(S), p # <<>>
  PROVE  /\ Front(p) \in Seq(S) /\ Last(p) \in S /\ p = Append(Front(p), Last(p))
         /\ Len(Front(p)) = Len(p) - 1
<1>1. PICK s \in Seq(S), e \in S : p = Append(s, e)
  BY SequenceEmptyOrAppend
<1>2. Front(p) = s /\ Last(p) = e /\ Len(p) = Len(s) + 1 /\ Len(s) \in Nat
  BY <1>1, RutaMasNombre
<1>3. QED
  BY <1>1, <1>2

LEMMA Prefijo ==
  ASSUME NEW S, NEW s \in Seq(S), NEW q \in Seq(S)
  PROVE  IsPrefix(s, q) <=> Len(s) <= Len(q) /\ \A k \in 1..Len(s) : s[k] = q[k]
<1>1. Len(s) \in Nat /\ Len(q) \in Nat /\ SubSeq(s, 1, Len(s)) = s
  OBVIOUS
<1>2. CASE Len(s) <= Len(q)
  <2>1. /\ SubSeq(q, 1, Len(s)) \in Seq(S) /\ Len(SubSeq(q, 1, Len(s))) = Len(s)
        /\ \A k \in 1..Len(s) : SubSeq(q, 1, Len(s))[k] = q[k]
    BY <1>1, <1>2
  <2>2. s = SubSeq(q, 1, Len(s)) <=> \A k \in 1..Len(s) : s[k] = SubSeq(q, 1, Len(s))[k]
    <3> DEFINE z == SubSeq(q, 1, Len(s))
    <3>1. z \in Seq(S) /\ Len(z) = Len(s)
      BY <2>1
    <3> HIDE DEF z
    <3>2. s = z <=> \A k \in 1..Len(s) : s[k] = z[k]
      BY <3>1, SeqEqual
    <3>3. QED
      BY <3>2 DEF z
  <2>3. QED
    BY <1>1, <1>2, <2>1, <2>2 DEF IsPrefix
<1>3. CASE ~(Len(s) <= Len(q))
  BY <1>3 DEF IsPrefix
<1>4. QED
  BY <1>2, <1>3

-----------------------------------------------------------------------------
(* dame_mi_path_entero_global.                                               *)

LEMMA Primero ==
  ASSUME NEW I \in SUBSET Nat, I # {}
  PROVE  \E x \in I : \A y \in I : x <= y
<1>1. PICK x \in I : \A y \in I : <<y, x>> \notin OpToRel(<, Nat)
  BY NatLessThanWellFounded, WFMin
<1>2. ASSUME NEW y \in I PROVE ~(y < x)
  BY <1>1 DEF OpToRel
<1>3. QED
  BY <1>2

LEMMA CaminosPaso ==
  ASSUME NEW t
  PROVE  \E d : /\ d = [k \in Nat |-> IF k = 0 THEN SoloRaiz ELSE ConHijos(t, d[k - 1])]
                /\ Caminos(t) = d[Nodos]
<1> DEFINE Hasta(n, m) == m = [k \in 0..n |-> IF k = 0 THEN SoloRaiz ELSE ConHijos(t, m[k - 1])]
           Faltan == {n \in Nat : ~\E m : Hasta(n, m)}
<1>1. Faltan = {}
  <2>1. SUFFICES ASSUME Faltan # {} PROVE FALSE
    OBVIOUS
  <2>2. PICK n \in Faltan : \A k \in Faltan : n <= k
    <3> HIDE DEF Hasta
    <3>1. Faltan \in SUBSET Nat
      OBVIOUS
    <3> HIDE DEF Faltan
    <3>2. QED
      BY <2>1, <3>1, Primero
  <2>3. \E m : Hasta(0, m)
    <3> DEFINE g == [k \in 0..0 |-> SoloRaiz]
    <3>1. ASSUME NEW k \in 0..0 PROVE g[k] = IF k = 0 THEN SoloRaiz ELSE ConHijos(t, g[k - 1])
      OBVIOUS
    <3>2. g = [k \in 0..0 |-> IF k = 0 THEN SoloRaiz ELSE ConHijos(t, g[k - 1])]
      BY <3>1, Zenon
    <3>3. QED
      BY <3>2
  <2>4. n \in Nat /\ n # 0 /\ n - 1 \in Nat /\ ~(n <= n - 1)
    <3> HIDE DEF Hasta
    <3>1. n \in Nat /\ n # 0
      BY <2>2, <2>3
    <3>2. QED
      BY <3>1
  <2>5. PICK m : Hasta(n - 1, m)
    <3> HIDE DEF Hasta
    <3>1. QED
      BY <2>2, <2>4
  <2> DEFINE g == [k \in 0..n |-> IF k = n THEN ConHijos(t, m[n - 1]) ELSE m[k]]
  <2>6. ASSUME NEW k \in 0..n PROVE g[k] = IF k = 0 THEN SoloRaiz ELSE ConHijos(t, g[k - 1])
    <3>1. CASE k = n
      <4>1. n - 1 \in 0..n /\ n - 1 # n
        BY <2>4
      <4>2. QED
        BY <2>4, <3>1, <4>1
    <3>2. CASE k # n
      <4>1. k \in 0..(n - 1) /\ (k # 0 => k - 1 \in 0..n /\ k - 1 # n)
        BY <2>4, <3>2
      <4>2. m[k] = IF k = 0 THEN SoloRaiz ELSE ConHijos(t, m[k - 1])
        BY <2>5, <4>1
      <4>3. QED
        BY <3>2, <4>1, <4>2
    <3>3. QED
      BY <3>1, <3>2
  <2>7. g = [k \in 0..n |-> IF k = 0 THEN SoloRaiz ELSE ConHijos(t, g[k - 1])]
    BY <2>6, Zenon
  <2>8. Hasta(n, g)
    BY <2>7
  <2>9. QED
    <3> HIDE DEF Hasta, g
    <3>1. QED
      BY <2>2, <2>8
<1>2. \A n \in Nat : \E m : Hasta(n, m)
  <2> HIDE DEF Hasta
  <2>1. QED
    BY <1>1
<1> DEFINE parte == [n \in Nat |-> CHOOSE m : Hasta(n, m)]
<1>3. \A n \in Nat : Hasta(n, parte[n])
  <2> HIDE DEF Hasta
  <2>1. QED
    BY <1>2
<1>4. \A n \in Nat : parte[n + 1][n] = parte[n][n]
  <2> HIDE DEF parte
  <2> SUFFICES ASSUME NEW n \in Nat PROVE parte[n + 1][n] = parte[n][n]
    OBVIOUS
  <2>1. Hasta(n, parte[n]) /\ Hasta(n + 1, parte[n + 1]) /\ n + 1 \in Nat
    BY <1>3
  <2> DEFINE x == parte[n]
             y == parte[n + 1]
             Malos == {k \in 0..n : x[k] # y[k]}
  <2>2. SUFFICES ASSUME Malos # {} PROVE FALSE
    OBVIOUS
  <2>3. PICK k \in Malos : \A h \in Malos : k <= h
    <3>1. Malos \in SUBSET Nat
      OBVIOUS
    <3> HIDE DEF Malos
    <3>2. QED
      BY <2>2, <3>1, Primero
  <2>4. k \in 0..n /\ k \in 0..(n + 1) /\ x[k] # y[k]
    BY <2>3
  <2>5. /\ x[k] = IF k = 0 THEN SoloRaiz ELSE ConHijos(t, x[k - 1])
        /\ y[k] = IF k = 0 THEN SoloRaiz ELSE ConHijos(t, y[k - 1])
    BY <2>1, <2>4
  <2>6. k # 0 /\ k - 1 \in 0..n /\ ~(k <= k - 1)
    BY <2>4, <2>5
  <2>7. x[k - 1] = y[k - 1]
    BY <2>3, <2>6
  <2>8. QED
    BY <2>4, <2>5, <2>6, <2>7
<1> DEFINE d == [n \in Nat |-> parte[n][n]]
<1>5. ASSUME NEW k \in Nat PROVE d[k] = IF k = 0 THEN SoloRaiz ELSE ConHijos(t, d[k - 1])
  <2>1. Hasta(k, parte[k]) /\ k \in 0..k
    BY <1>3
  <2>2. parte[k][k] = IF k = 0 THEN SoloRaiz ELSE ConHijos(t, parte[k][k - 1])
    <3> HIDE DEF parte
    <3>1. QED
      BY <2>1
  <2>3. CASE k = 0
    <3> HIDE DEF parte
    <3>1. QED
      BY <2>2, <2>3
  <2>4. CASE k # 0
    <3>1. k - 1 \in Nat /\ (k - 1) + 1 = k
      BY <2>4
    <3>2. parte[k][k - 1] = parte[k - 1][k - 1]
      <4> HIDE DEF parte
      <4>1. QED
        BY <1>4, <3>1
    <3> HIDE DEF parte
    <3>3. QED
      BY <2>2, <2>4, <3>1, <3>2
  <2>5. QED
    BY <2>3, <2>4
<1> HIDE DEF d
<1>6. d = [k \in Nat |-> IF k = 0 THEN SoloRaiz ELSE ConHijos(t, d[k - 1])]
  <2>1. d = [k \in Nat |-> d[k]]
    BY DEF d
  <2>2. QED
    BY <1>5, <2>1, Zenon
<1> DEFINE e == CHOOSE e : e = [k \in Nat |-> IF k = 0 THEN SoloRaiz ELSE ConHijos(t, e[k - 1])]
<1>7. e = [k \in Nat |-> IF k = 0 THEN SoloRaiz ELSE ConHijos(t, e[k - 1])]
  <2> DEFINE Q(f) == f = [k \in Nat |-> IF k = 0 THEN SoloRaiz ELSE ConHijos(t, f[k - 1])]
  <2>1. Q(d)
    BY <1>6
  <2>2. Q(CHOOSE f : Q(f))
    <3> HIDE DEF Q
    <3>1. QED
      BY <2>1
  <2>3. QED
    BY <2>2
<1>8. Caminos(t) = e[Nodos]
  BY DEF Caminos
<1>9. QED
  BY <1>7, <1>8

-----------------------------------------------------------------------------
(* A tree of paths.                                                          *)

UsadosDe(t) == {i \in Indices : t[i].estado # 0}

(* The names that requests bring and those of the disk the server is started on. *)
NombresDe(p) == {p[k] : k \in DOMAIN p}
LosNombres ==
  {n \in Seq(Nat) :
     \/ \E c \in Conexiones : \E r \in Pedibles[c] :
          \/ r.op \in {"MKNOD", "MKDIR", "OPEN"} /\ n \in NombresDe(r.ruta)
          \/ r.op = "RENAME" /\ n \in NombresDe(r.destino)
     \/ \E i \in UsadosDe(Formato.tabla) \ {0} : n = Formato.tabla[i].nombre}

(* The paths F of the used nodes of a table: no two are the same, and that of each *)
(* is in a directory and has the name that the table says.                        *)
Cuelga(F, t, i, k) == t[k].estado = 2 /\ t[i].padre = BloqueDe(k) /\ F[i] = Append(F[k], t[i].nombre)
Arbolado(F, t) ==
  /\ F \in [UsadosDe(t) -> Seq(LosNombres)]
  /\ \A i, j \in UsadosDe(t) : F[i] = F[j] => i = j
  /\ 0 \in UsadosDe(t) => F[0] = <<>> /\ t[0].estado = 2
  /\ \A i \in UsadosDe(t) \ {0} : t[i].nombre \in LosNombres /\ \E k \in UsadosDe(t) : Cuelga(F, t, i, k)

LEMMA PadreDelBloque ==
  ASSUME NEW k \in Indices
  PROVE  /\ PadreDe(BloqueDe(k)) = k
         /\ \A j \in Indices : BloqueDe(j) = BloqueDe(k) => j = k
<1>1. TamBitmap \in Nat \ {0} /\ Indices \subseteq Nat
  BY SacSupuesto DEF Indices
<1>2. QED
  BY <1>1 DEF PadreDe, BloqueDe

LEMMA RutaDeNodo ==
  ASSUME NEW t, NEW F, Arbolado(F, t), NEW i \in UsadosDe(t)
  PROVE  /\ F[i] \in Seq(LosNombres) /\ Len(F[i]) \in Nat
         /\ i = 0 => F[i] = <<>>
         /\ i # 0 => \E k \in UsadosDe(t) : /\ Cuelga(F, t, i, k) /\ t[i].nombre \in LosNombres
                                             /\ F[k] = Front(F[i]) /\ Last(F[i]) = t[i].nombre
                                             /\ F[i] # <<>> /\ Len(F[i]) = Len(F[k]) + 1
<1>1. F[i] \in Seq(LosNombres) /\ Len(F[i]) \in Nat
  BY DEF Arbolado
<1>2. i = 0 => F[i] = <<>>
  BY DEF Arbolado
<1>3. ASSUME i # 0
      PROVE  \E k \in UsadosDe(t) : /\ Cuelga(F, t, i, k) /\ t[i].nombre \in LosNombres
                                     /\ F[k] = Front(F[i]) /\ Last(F[i]) = t[i].nombre
                                     /\ F[i] # <<>> /\ Len(F[i]) = Len(F[k]) + 1
  <2>1. PICK k \in UsadosDe(t) : Cuelga(F, t, i, k)
    BY <1>3 DEF Arbolado
  <2>2. F[k] \in Seq(LosNombres) /\ t[i].nombre \in LosNombres
    BY <1>3 DEF Arbolado
  <2>3. QED
    BY <2>1, <2>2, RutaMasNombre DEF Cuelga
<1>4. QED
  BY <1>1, <1>2, <1>3

(* What leads to a node: from the root, a directory at each name. *)
LEMMA Ancestros ==
  ASSUME NEW t, NEW F, Arbolado(F, t), NEW i \in UsadosDe(t), NEW n \in 0..Len(F[i])
  PROVE  \E j \in UsadosDe(t) : F[j] = SubSeq(F[i], 1, n) /\ (n < Len(F[i]) => t[j].estado = 2)
<1> DEFINE l == Len(F[i])
           Hay(m) == \E j \in UsadosDe(t) : F[j] = SubSeq(F[i], 1, l - m) /\ (m > 0 => t[j].estado = 2)
           Malos == {m \in 0..l : ~Hay(m)}
<1>1. F[i] \in Seq(LosNombres) /\ l \in Nat
  BY RutaDeNodo
<1>2. Malos = {}
  <2>1. SUFFICES ASSUME Malos # {} PROVE FALSE
    OBVIOUS
  <2>2. PICK m \in Malos : \A h \in Malos : m <= h
    <3>1. Malos \in SUBSET Nat
      OBVIOUS
    <3> HIDE DEF Malos
    <3>2. QED
      BY <2>1, <3>1, Primero
  <2>3. Hay(0)
    BY <1>1
  <2>4. m \in 1..l /\ m - 1 \in 0..l /\ ~(m <= m - 1)
    BY <1>1, <2>2, <2>3
  <2>5. PICK j \in UsadosDe(t) : F[j] = SubSeq(F[i], 1, l - (m - 1))
    BY <2>2, <2>4
  <2>6. l - (m - 1) \in 1..l /\ l - m \in 0..l /\ l - (m - 1) = (l - m) + 1
    BY <1>1, <2>4
  <2> DEFINE n0 == l - m
  <2>7. n0 \in Nat /\ n0 = l - m
    BY <2>6
  <2>8. /\ SubSeq(F[i], 1, n0 + 1) \in Seq(LosNombres) /\ Len(SubSeq(F[i], 1, n0 + 1)) = n0 + 1
        /\ SubSeq(SubSeq(F[i], 1, n0 + 1), 1, n0) = SubSeq(F[i], 1, n0)
    <3>1. n0 + 1 \in 1..Len(F[i])
      BY <1>1, <2>6, <2>7
    <3> HIDE DEF l, n0
    <3>2. PICK s \in Seq(LosNombres) : s = F[i]
      BY <1>1
    <3>3. \A k \in 1..(n0 + 1) : s[k] \in LosNombres
      BY <3>1, <3>2
    <3>4. QED
      BY <1>1, <2>7, <3>1, <3>2
  <2>9. F[j] = SubSeq(F[i], 1, n0 + 1)
    BY <2>5, <2>6, <2>7
  <2>10. j # 0
    <3>1. Len(F[j]) = n0 + 1
      BY <2>8, <2>9
    <3>2. QED
      BY <3>1, RutaDeNodo
  <2>11. PICK k \in UsadosDe(t) : Cuelga(F, t, j, k) /\ F[k] = Front(F[j])
    BY <2>10, RutaDeNodo
  <2>12. Front(F[j]) = SubSeq(F[i], 1, n0)
    BY <2>8, <2>9 DEF Front
  <2>13. Hay(m)
    BY <2>7, <2>11, <2>12 DEF Cuelga
  <2>14. QED
    BY <2>2, <2>13
<1>3. l - n \in 0..l /\ l - (l - n) = n
  BY <1>1
<1>4. Hay(l - n)
  BY <1>2, <1>3
<1>5. QED
  BY <1>1, <1>3, <1>4

(* A path is not longer than the nodes are, for each name has its own. *)
LEMMA RutaCorta ==
  ASSUME NEW t, NEW F, Arbolado(F, t), NEW i \in UsadosDe(t)
  PROVE  Len(F[i]) < Nodos
<1> DEFINE l == Len(F[i])
           f == [n \in 0..l |-> CHOOSE j \in UsadosDe(t) : F[j] = SubSeq(F[i], 1, n)]
<1>1. l \in Nat /\ F[i] \in Seq(LosNombres) /\ Nodos \in Nat \ {0} /\ Indices = 0..(Nodos - 1) /\ UsadosDe(t) \subseteq Indices
  BY RutaDeNodo, Medidas DEF Indices, UsadosDe
<1>2. ASSUME NEW n \in 0..l PROVE f[n] \in UsadosDe(t) /\ F[f[n]] = SubSeq(F[i], 1, n)
  <2>1. \E j \in UsadosDe(t) : F[j] = SubSeq(F[i], 1, n)
    <3>1. n \in 0..Len(F[i])
      OBVIOUS
    <3> HIDE DEF l
    <3>2. \E j \in UsadosDe(t) : F[j] = SubSeq(F[i], 1, n) /\ (n < Len(F[i]) => t[j].estado = 2)
      BY <3>1, Ancestros
    <3>3. QED
      BY <3>2
  <2>2. QED
    BY <2>1
<1>3. \A n \in 0..l : Len(SubSeq(F[i], 1, n)) = n
  BY <1>1
<1>4. f \in [0..l -> Indices]
  BY <1>1, <1>2
<1>5. IsFiniteSet(0..l) /\ Cardinality(0..l) = l + 1 /\ IsFiniteSet(Indices) /\ Cardinality(Indices) = Nodos
  <2> HIDE DEF l
  <2>1. ASSUME NEW b \in Int, b >= 0 PROVE IsFiniteSet(0..b) /\ Cardinality(0..b) = b + 1
    BY <2>1, FS_Interval
  <2>2. l \in Int /\ l >= 0 /\ Nodos - 1 \in Int /\ Nodos - 1 >= 0 /\ (Nodos - 1) + 1 = Nodos
    BY <1>1
  <2>3. QED
    BY <1>1, <2>1, <2>2
<1> HIDE DEF f, l
<1>6. SUFFICES ASSUME Cardinality(Indices) < Cardinality(0..l) PROVE FALSE
  BY <1>1, <1>5 DEF l
<1>7. PICK x \in 0..l, y \in 0..l : x # y /\ f[x] = f[y]
  BY <1>4, <1>5, <1>6, FS_PigeonHole
<1>8. QED
  BY <1>2, <1>3, <1>7

(* The path that dame_mi_path_entero_global finds for each used node of a tree. *)
LEMMA CaminoDe ==
  ASSUME NEW t, DOMAIN t = Indices, NEW F, Arbolado(F, t), NEW i \in UsadosDe(t)
  PROVE  i \in DOMAIN Caminos(t) /\ Caminos(t)[i] = F[i]
<1>1. PICK d : /\ d = [k \in Nat |-> IF k = 0 THEN SoloRaiz ELSE ConHijos(t, d[k - 1])]
               /\ Caminos(t) = d[Nodos]
  BY CaminosPaso
<1>2. d[0] = SoloRaiz /\ \A k \in Nat \ {0} : d[k] = ConHijos(t, d[k - 1])
  <2>1. \A k \in Nat : d[k] = IF k = 0 THEN SoloRaiz ELSE ConHijos(t, d[k - 1])
    BY <1>1
  <2>2. QED
    BY <2>1
<1>3. UsadosDe(t) \subseteq Indices /\ 0 \in Indices
  BY Medidas DEF UsadosDe
<1> DEFINE Bien(k) ==
             /\ 0 \in DOMAIN d[k] /\ d[k][0] = <<>>
             /\ \A j \in UsadosDe(t) : Len(F[j]) <= k => j \in DOMAIN d[k]
             /\ \A j \in UsadosDe(t) \cap DOMAIN d[k] : d[k][j] = F[j]
           Malos == {k \in Nat : ~Bien(k)}
<1>4. Malos = {}
  <2>1. SUFFICES ASSUME Malos # {} PROVE FALSE
    OBVIOUS
  <2>2. PICK k \in Malos : \A h \in Malos : k <= h
    <3> HIDE DEF Bien
    <3>1. Malos \in SUBSET Nat
      OBVIOUS
    <3> HIDE DEF Malos
    <3>2. QED
      BY <2>1, <3>1, Primero
  <2>3. Bien(0)
    <3>1. DOMAIN d[0] = {0} /\ d[0][0] = <<>>
      BY <1>2 DEF SoloRaiz
    <3>2. ASSUME NEW j \in UsadosDe(t), Len(F[j]) <= 0 PROVE j = 0
      <4>1. SUFFICES ASSUME j # 0 PROVE FALSE
        OBVIOUS
      <4>2. PICK m \in UsadosDe(t) : Len(F[j]) = Len(F[m]) + 1
        BY <4>1, RutaDeNodo
      <4>3. Len(F[m]) \in Nat
        BY RutaDeNodo
      <4>4. QED
        BY <3>2, <4>2, <4>3
    <3>3. ASSUME NEW j \in UsadosDe(t) \cap {0} PROVE d[0][j] = F[j]
      BY <3>1, <3>3, RutaDeNodo
    <3>4. QED
      BY <3>1, <3>2, <3>3
  <2>4. k \in Nat \ {0} /\ k - 1 \in Nat /\ ~(k <= k - 1)
    <3> HIDE DEF Bien
    <3>1. k \in Nat \ {0}
      BY <2>2, <2>3
    <3>2. QED
      BY <3>1
  <2>5. Bien(k - 1)
    <3> HIDE DEF Bien
    <3>1. QED
      BY <2>2, <2>4
  <2>6. d[k] = ConHijos(t, d[k - 1])
    BY <1>2, <2>4
  <2> DEFINE a == d[k - 1]
             b == d[k]
  <2>7. /\ 0 \in DOMAIN a /\ a[0] = <<>>
        /\ \A j \in UsadosDe(t) : Len(F[j]) <= k - 1 => j \in DOMAIN a
        /\ \A j \in UsadosDe(t) \cap DOMAIN a : a[j] = F[j]
    BY <2>5
  <2>8. /\ DOMAIN b = DOMAIN a \cup {j \in Indices : PadreDe(t[j].padre) \in DOMAIN a}
        /\ \A j \in DOMAIN b : b[j] = IF j \in DOMAIN a THEN a[j] ELSE Append(a[PadreDe(t[j].padre)], t[j].nombre)
    BY <2>6 DEF ConHijos
  <2> HIDE DEF a, b
  <2>9. 0 \in DOMAIN b /\ b[0] = <<>>
    BY <2>7, <2>8
  <2>10. ASSUME NEW j \in UsadosDe(t), Len(F[j]) <= k PROVE j \in DOMAIN b
    <3>1. CASE j = 0
      BY <2>9, <3>1
    <3>2. CASE j # 0
      <4>1. PICK m \in UsadosDe(t) : Cuelga(F, t, j, m) /\ Len(F[j]) = Len(F[m]) + 1
        BY <3>2, RutaDeNodo
      <4>2. Len(F[m]) \in Nat /\ Len(F[m]) <= k - 1
        BY <2>4, <2>10, <4>1, RutaDeNodo
      <4>3. PadreDe(t[j].padre) = m /\ m \in DOMAIN a /\ j \in Indices
        BY <1>3, <2>7, <4>1, <4>2, PadreDelBloque DEF Cuelga
      <4>4. QED
        BY <2>8, <4>3
    <3>3. QED
      BY <3>1, <3>2
  <2>11. ASSUME NEW j \in UsadosDe(t) \cap DOMAIN b PROVE b[j] = F[j]
    <3>1. CASE j \in DOMAIN a
      BY <2>7, <2>8, <3>1
    <3>2. CASE j \notin DOMAIN a
      <4>1. j # 0
        BY <2>7, <3>2
      <4>2. PICK m \in UsadosDe(t) : Cuelga(F, t, j, m)
        BY <4>1, RutaDeNodo
      <4>3. PadreDe(t[j].padre) = m
        BY <1>3, <4>2, PadreDelBloque DEF Cuelga
      <4>4. m \in DOMAIN a /\ b[j] = Append(a[m], t[j].nombre)
        BY <2>8, <3>2, <4>3
      <4>5. QED
        BY <2>7, <4>2, <4>4 DEF Cuelga
    <3>3. QED
      BY <3>1, <3>2
  <2>12. Bien(k)
    BY <2>9, <2>10, <2>11 DEF a, b
  <2>13. QED
    BY <2>2, <2>12
<1>5. Nodos \in Nat /\ Len(F[i]) \in Nat /\ Len(F[i]) <= Nodos
  BY RutaCorta, RutaDeNodo, Medidas
<1>6. Bien(Nodos)
  BY <1>4, <1>5
<1>7. QED
  BY <1>1, <1>5, <1>6

-----------------------------------------------------------------------------
(* What a change of the table does to the tree.                              *)

Iguales(t, u, j) == u[j].estado = t[j].estado /\ (t[j].estado # 0 => u[j].nombre = t[j].nombre /\ u[j].padre = t[j].padre)

LEMMA MismoArbol ==
  ASSUME NEW t, NEW u, NEW F, Arbolado(F, t), \A j \in Indices : Iguales(t, u, j)
  PROVE  Arbolado(F, u) /\ UsadosDe(u) = UsadosDe(t)
<1>1. UsadosDe(u) = UsadosDe(t) /\ UsadosDe(t) \subseteq Indices
  BY DEF UsadosDe, Iguales
<1>2. ASSUME NEW j \in UsadosDe(t)
      PROVE  u[j].estado = t[j].estado /\ u[j].nombre = t[j].nombre /\ u[j].padre = t[j].padre
  BY DEF UsadosDe, Iguales
<1>3. F \in [UsadosDe(u) -> Seq(LosNombres)] /\ \A i, j \in UsadosDe(u) : F[i] = F[j] => i = j
  BY <1>1 DEF Arbolado
<1>4. 0 \in UsadosDe(u) => F[0] = <<>> /\ u[0].estado = 2
  BY <1>1, <1>2 DEF Arbolado
<1>5. ASSUME NEW i \in UsadosDe(u) \ {0}
      PROVE  u[i].nombre \in LosNombres /\ \E k \in UsadosDe(u) : Cuelga(F, u, i, k)
  <2>1. PICK k \in UsadosDe(t) : Cuelga(F, t, i, k)
    BY <1>1 DEF Arbolado
  <2>2. Cuelga(F, u, i, k)
    BY <1>1, <1>2, <2>1 DEF Cuelga
  <2>3. t[i].nombre \in LosNombres
    BY <1>1 DEF Arbolado
  <2>4. QED
    BY <1>1, <1>2, <2>1, <2>2, <2>3
<1>6. QED
  BY <1>1, <1>3, <1>4, <1>5 DEF Arbolado

(* A node is given a path under a directory. *)
LEMMA NaceArbol ==
  ASSUME NEW t, NEW u, NEW F, Arbolado(F, t), NEW i \in Indices \ {0}, t[i].estado = 0,
         NEW k \in UsadosDe(t), t[k].estado = 2, NEW n \in LosNombres,
         \A j \in UsadosDe(t) : F[j] # Append(F[k], n),
         \A j \in Indices : j # i => Iguales(t, u, j),
         u[i].estado # 0, u[i].nombre = n, u[i].padre = BloqueDe(k)
  PROVE  /\ Arbolado([j \in UsadosDe(u) |-> IF j = i THEN Append(F[k], n) ELSE F[j]], u)
         /\ UsadosDe(u) = UsadosDe(t) \cup {i} /\ i \notin UsadosDe(t)
<1> DEFINE G == [j \in UsadosDe(u) |-> IF j = i THEN Append(F[k], n) ELSE F[j]]
<1>1. UsadosDe(u) = UsadosDe(t) \cup {i} /\ i \notin UsadosDe(t) /\ UsadosDe(t) \subseteq Indices
  BY DEF UsadosDe, Iguales
<1>2. ASSUME NEW j \in UsadosDe(t)
      PROVE  u[j].estado = t[j].estado /\ u[j].nombre = t[j].nombre /\ u[j].padre = t[j].padre /\ j # i
  BY <1>1 DEF UsadosDe, Iguales
<1>3. G[i] = Append(F[k], n) /\ \A j \in UsadosDe(t) : G[j] = F[j] /\ F[j] \in Seq(LosNombres)
  BY <1>1, RutaDeNodo
<1>4. Append(F[k], n) \in Seq(LosNombres)
  BY <1>3, RutaMasNombre
<1>5. G \in [UsadosDe(u) -> Seq(LosNombres)]
  <2>1. ASSUME NEW j \in UsadosDe(u) PROVE (IF j = i THEN Append(F[k], n) ELSE F[j]) \in Seq(LosNombres)
    BY <1>1, <1>3, <1>4
  <2>2. QED
    BY <2>1
<1>6. \A x, y \in UsadosDe(u) : G[x] = G[y] => x = y
  <2>1. \A x, y \in UsadosDe(t) : F[x] = F[y] => x = y
    BY DEF Arbolado
  <2>2. \A j \in UsadosDe(t) : G[j] # G[i]
    BY <1>3
  <2> HIDE DEF G
  <2>3. QED
    BY <1>1, <1>3, <2>1, <2>2
<1>7. 0 \in UsadosDe(u) => G[0] = <<>> /\ u[0].estado = 2
  <2>1. 0 \in UsadosDe(t) => F[0] = <<>> /\ t[0].estado = 2
    BY DEF Arbolado
  <2> HIDE DEF G
  <2>2. QED
    BY <1>1, <1>2, <1>3, <2>1
<1> HIDE DEF G
<1>8. ASSUME NEW j \in UsadosDe(u) \ {0}
      PROVE  u[j].nombre \in LosNombres /\ \E m \in UsadosDe(u) : Cuelga(G, u, j, m)
  <2>1. CASE j = i
    <3>1. Cuelga(G, u, i, k)
      BY <1>2, <1>3 DEF Cuelga
    <3>2. QED
      BY <1>1, <2>1, <3>1
  <2>2. CASE j # i
    <3>1. PICK m \in UsadosDe(t) : Cuelga(F, t, j, m)
      BY <1>1, <2>2 DEF Arbolado
    <3>2. Cuelga(G, u, j, m)
      BY <1>1, <1>2, <1>3, <2>2, <3>1 DEF Cuelga
    <3>3. t[j].nombre \in LosNombres
      BY <1>1, <2>2 DEF Arbolado
    <3>4. QED
      BY <1>1, <1>2, <2>2, <3>1, <3>2, <3>3
  <2>3. QED
    BY <2>1, <2>2
<1>9. Arbolado(G, u)
  BY <1>5, <1>6, <1>7, <1>8 DEF Arbolado
<1>10. QED
  BY <1>1, <1>9 DEF G

Hoja(F, t, i) == \A j \in UsadosDe(t) : F[j] # <<>> => Front(F[j]) # F[i]

(* A node is given back, of a file or of a directory with nothing in it. *)
LEMMA MuereArbol ==
  ASSUME NEW t, NEW u, NEW F, Arbolado(F, t), NEW i \in UsadosDe(t),
         Hoja(F, t, i), \A j \in Indices : j # i => Iguales(t, u, j), u[i].estado = 0,
         NEW G, G = [j \in UsadosDe(u) |-> F[j]]
  PROVE  Arbolado(G, u) /\ UsadosDe(u) = UsadosDe(t) \ {i}
<1>1. UsadosDe(u) = UsadosDe(t) \ {i} /\ UsadosDe(t) \subseteq Indices
  BY DEF UsadosDe, Iguales
<1>2. ASSUME NEW j \in UsadosDe(u)
      PROVE  u[j].estado = t[j].estado /\ u[j].nombre = t[j].nombre /\ u[j].padre = t[j].padre /\ G[j] = F[j]
             /\ j \in UsadosDe(t)
  BY <1>1 DEF UsadosDe, Iguales
<1>3. G \in [UsadosDe(u) -> Seq(LosNombres)]
  <2>1. ASSUME NEW j \in UsadosDe(u) PROVE F[j] \in Seq(LosNombres)
    BY <1>1, RutaDeNodo
  <2>2. QED
    BY <2>1
<1>4. \A x, y \in UsadosDe(u) : G[x] = G[y] => x = y
  BY <1>2 DEF Arbolado
<1>5. 0 \in UsadosDe(u) => G[0] = <<>> /\ u[0].estado = 2
  BY <1>2 DEF Arbolado
<1>6. ASSUME NEW j \in UsadosDe(u) \ {0}
      PROVE  u[j].nombre \in LosNombres /\ \E m \in UsadosDe(u) : Cuelga(G, u, j, m)
  <2>1. PICK m \in UsadosDe(t) : Cuelga(F, t, j, m) /\ t[j].nombre \in LosNombres /\ F[m] = Front(F[j]) /\ F[j] # <<>>
    BY <1>2, RutaDeNodo
  <2>2. m # i
    BY <1>2, <2>1 DEF Hoja
  <2>3. m \in UsadosDe(u)
    BY <1>1, <2>2
  <2>4. Cuelga(G, u, j, m)
    BY <1>2, <2>1, <2>3 DEF Cuelga
  <2>5. QED
    BY <1>2, <2>1, <2>3, <2>4
<1>7. Arbolado(G, u)
  BY <1>3, <1>4, <1>5, <1>6 DEF Arbolado
<1>8. QED
  BY <1>1, <1>7

-----------------------------------------------------------------------------
(* A path that moves.                                                        *)

Traslada(q, v, n) == IF IsPrefix(v, q) THEN n \o SubSeq(q, Len(v) + 1, Len(q)) ELSE q

LEMMA Resto ==
  ASSUME NEW S, NEW q \in Seq(S), NEW v \in Seq(S), IsPrefix(v, q)
  PROVE  /\ SubSeq(q, Len(v) + 1, Len(q)) \in Seq(S)
         /\ Len(SubSeq(q, Len(v) + 1, Len(q))) = Len(q) - Len(v)
         /\ \A k \in 1..(Len(q) - Len(v)) : SubSeq(q, Len(v) + 1, Len(q))[k] = q[Len(v) + k]
         /\ q = v \o SubSeq(q, Len(v) + 1, Len(q))
<1> DEFINE l == Len(v)
           r == SubSeq(q, l + 1, Len(q))
<1>1. l \in Nat /\ Len(q) \in Nat /\ l <= Len(q) /\ \A k \in 1..l : v[k] = q[k]
  BY Prefijo
<1>2. r \in Seq(S) /\ Len(r) = Len(q) - l /\ \A k \in 1..(Len(q) - l) : r[k] = q[l + k]
  <2>1. r \in Seq(S)
    BY <1>1, RestoDe
  <2>2. Len(r) = Len(q) - l /\ \A k \in 1..(Len(q) - l) : r[k] = q[l + k]
    <3>1. PICK m \in Nat : m = l
      BY <1>1
    <3>2. Len(SubSeq(q, m + 1, Len(q))) = Len(q) - m
      BY <1>1, <3>1
    <3>3. \A k \in 1..(Len(q) - m) : SubSeq(q, m + 1, Len(q))[k] = q[m + k]
      BY <1>1, <3>1
    <3>4. QED
      BY <3>1, <3>2, <3>3
  <2>3. QED
    BY <2>1, <2>2
<1> HIDE DEF r
<1>3. v \o r \in Seq(S) /\ Len(v \o r) = Len(q)
  BY <1>1, <1>2
<1>4. \A k \in 1..Len(q) : (v \o r)[k] = q[k]
  <2> SUFFICES ASSUME NEW k \in 1..Len(q) PROVE (v \o r)[k] = q[k]
    OBVIOUS
  <2>1. CASE k <= l
    BY <1>1, <1>2, <2>1, ConcatProperties
  <2>2. CASE k > l
    <3>1. (v \o r)[k] = r[k - l] /\ k - l \in 1..(Len(q) - l) /\ l + (k - l) = k
      BY <1>1, <1>2, <2>2, ConcatProperties
    <3>2. QED
      BY <1>2, <3>1
  <2>3. k \in Nat /\ l \in Nat
    BY <1>1
  <2> HIDE DEF l
  <2>4. k <= l \/ k > l
    BY <2>3
  <2>5. QED
    BY <2>1, <2>2, <2>4
<1>5. q = v \o r
  BY <1>3, <1>4, SeqEqual
<1>6. QED
  BY <1>2, <1>5 DEF r

LEMMA TrasladaTipo ==
  ASSUME NEW S, NEW q \in Seq(S), NEW v \in Seq(S), NEW n \in Seq(S)
  PROVE  Traslada(q, v, n) \in Seq(S)
<1>1. CASE IsPrefix(v, q)
  <2>1. SubSeq(q, Len(v) + 1, Len(q)) \in Seq(S)
    BY <1>1, Resto
  <2>2. QED
    BY <1>1, <2>1 DEF Traslada
<1>2. CASE ~IsPrefix(v, q)
  BY <1>2 DEF Traslada
<1>3. QED
  BY <1>1, <1>2

LEMMA TrasladaElMismo ==
  ASSUME NEW S, NEW v \in Seq(S), NEW n \in Seq(S)
  PROVE  Traslada(v, v, n) = n
<1>1. IsPrefix(v, v)
  BY Prefijo
<1>2. SubSeq(v, Len(v) + 1, Len(v)) = <<>>
  OBVIOUS
<1>3. n \o <<>> = n
  BY ConcatEmptySeq
<1>4. QED
  BY <1>1, <1>2, <1>3 DEF Traslada

LEMMA TrasladaRuta ==
  ASSUME NEW S, NEW p \in Seq(S), NEW e \in S, NEW v \in Seq(S), NEW n \in Seq(S)
  PROVE  /\ Append(p, e) = v => Traslada(Append(p, e), v, n) = n
         /\ Append(p, e) # v => Traslada(Append(p, e), v, n) = Append(Traslada(p, v, n), e)
<1> DEFINE q == Append(p, e)
<1>1. /\ q \in Seq(S) /\ Len(q) = Len(p) + 1 /\ Len(p) \in Nat /\ Len(v) \in Nat
      /\ \A k \in 1..Len(p) : q[k] = p[k]
      /\ q[Len(p) + 1] = e
  BY AppendProperties
<1> HIDE DEF q
<1>2. CASE q = v
  <2>1. IsPrefix(v, q)
    BY <1>1, <1>2, Prefijo
  <2>2. n \o SubSeq(q, Len(v) + 1, Len(q)) = n
    <3>1. SubSeq(q, Len(v) + 1, Len(q)) = <<>>
      BY <1>1, <1>2
    <3>2. QED
      BY <3>1, ConcatEmptySeq
  <2>3. QED
    BY <1>2, <2>1, <2>2 DEF Traslada, q
<1>3. CASE q # v /\ IsPrefix(v, q)
  <2>1. Len(v) <= Len(q) /\ \A k \in 1..Len(v) : v[k] = q[k]
    BY <1>1, <1>3, Prefijo
  <2>2. Len(v) <= Len(p)
    <3>1. SUFFICES ASSUME Len(v) = Len(q) PROVE v = q
      BY <1>1, <1>3, <2>1
    <3>2. QED
      BY <1>1, <2>1, <3>1, SeqEqual
  <2>3. IsPrefix(v, p)
    BY <1>1, <2>1, <2>2, Prefijo
  <2> DEFINE a == SubSeq(q, Len(v) + 1, Len(q))
             b == SubSeq(p, Len(v) + 1, Len(p))
  <2>4. /\ a \in Seq(S) /\ Len(a) = Len(q) - Len(v) /\ \A k \in 1..(Len(q) - Len(v)) : a[k] = q[Len(v) + k]
        /\ b \in Seq(S) /\ Len(b) = Len(p) - Len(v) /\ \A k \in 1..(Len(p) - Len(v)) : b[k] = p[Len(v) + k]
    BY <1>1, <1>3, <2>3, Resto
  <2> HIDE DEF a, b
  <2>5. a = Append(b, e)
    <3>1. /\ Append(b, e) \in Seq(S) /\ Len(Append(b, e)) = Len(b) + 1 /\ Append(b, e)[Len(b) + 1] = e
          /\ \A k \in 1..Len(b) : Append(b, e)[k] = b[k]
      BY <2>4, AppendProperties
    <3>2. Len(a) = Len(b) + 1 /\ Len(b) \in Nat
      BY <1>1, <2>2, <2>4
    <3>3. ASSUME NEW k \in 1..Len(a) PROVE a[k] = Append(b, e)[k]
      <4>1. CASE k \in 1..Len(b)
        <5>1. Len(v) + k \in 1..Len(p) /\ k \in 1..(Len(q) - Len(v)) /\ k \in 1..(Len(p) - Len(v))
          BY <1>1, <2>2, <2>4, <4>1
        <5>2. a[k] = q[Len(v) + k] /\ b[k] = p[Len(v) + k] /\ q[Len(v) + k] = p[Len(v) + k]
          BY <1>1, <2>4, <5>1
        <5>3. QED
          BY <3>1, <4>1, <5>2
      <4>2. CASE k = Len(b) + 1
        <5>1. Len(v) + k = Len(p) + 1 /\ k \in 1..(Len(q) - Len(v))
          BY <1>1, <2>2, <2>4, <4>2
        <5>2. QED
          BY <1>1, <2>4, <3>1, <4>2, <5>1
      <4>3. QED
        BY <3>2, <4>1, <4>2
    <3>4. QED
      BY <2>4, <3>1, <3>2, <3>3, SeqEqual
  <2>6. n \o Append(b, e) = Append(n \o b, e)
    <3>1. Append(b, e) = b \o <<e>> /\ n \o b \in Seq(S) /\ <<e>> \in Seq(S)
      BY <2>4, AppendIsConcat
    <3>2. Append(n \o b, e) = (n \o b) \o <<e>>
      BY <3>1, AppendIsConcat
    <3>3. QED
      BY <2>4, <3>1, <3>2, ConcatAssociative
  <2>7. Traslada(q, v, n) = n \o a /\ Traslada(p, v, n) = n \o b
    BY <1>3, <2>3 DEF Traslada, a, b
  <2>8. QED
    BY <1>3, <2>5, <2>6, <2>7 DEF q
<1>4. CASE ~IsPrefix(v, q)
  <2>1. ~IsPrefix(v, p)
    <3>1. SUFFICES ASSUME IsPrefix(v, p) PROVE IsPrefix(v, q)
      BY <1>4
    <3>2. Len(v) <= Len(p) /\ \A k \in 1..Len(v) : v[k] = p[k]
      BY <3>1, Prefijo
    <3>3. Len(v) <= Len(q) /\ \A k \in 1..Len(v) : v[k] = q[k]
      BY <1>1, <3>2
    <3>4. QED
      BY <1>1, <3>3, Prefijo
  <2>2. q # v
    BY <1>1, <1>4, Prefijo
  <2>3. QED
    BY <1>4, <2>1, <2>2 DEF Traslada, q
<1>5. QED
  BY <1>2, <1>3, <1>4

LEMMA RutaQueNoSeMueve ==
  ASSUME NEW S, NEW q \in Seq(S), NEW v \in Seq(S), NEW n \in Seq(S), ~IsPrefix(v, n), ~IsPrefix(n, v)
  PROVE  /\ ~IsPrefix(v, Traslada(q, v, n))
         /\ Traslada(Traslada(q, v, n), v, n) = Traslada(q, v, n)
         /\ IsPrefix(v, q) => IsPrefix(n, Traslada(q, v, n))
<1> DEFINE m == Traslada(q, v, n)
<1>1. m \in Seq(S) /\ Len(m) \in Nat /\ Len(n) \in Nat /\ Len(v) \in Nat
  BY TrasladaTipo
<1>2. ASSUME IsPrefix(v, q) PROVE IsPrefix(n, m)
  <2> DEFINE r == SubSeq(q, Len(v) + 1, Len(q))
  <2>1. r \in Seq(S) /\ m = n \o r
    BY <1>2, Resto DEF Traslada
  <2> HIDE DEF r, m
  <2>2. Len(n) <= Len(m) /\ \A k \in 1..Len(n) : n[k] = m[k]
    BY <1>1, <2>1, ConcatProperties
  <2>3. QED
    BY <1>1, <2>2, Prefijo
<1>3. ~IsPrefix(v, m)
  <2>1. SUFFICES ASSUME IsPrefix(v, m) PROVE FALSE
    OBVIOUS
  <2>2. IsPrefix(v, q)
    BY <2>1 DEF Traslada
  <2>3. IsPrefix(n, m)
    BY <1>2, <2>2
  <2> HIDE DEF m
  <2>4. /\ Len(v) <= Len(m) /\ \A k \in 1..Len(v) : v[k] = m[k]
        /\ Len(n) <= Len(m) /\ \A k \in 1..Len(n) : n[k] = m[k]
    BY <1>1, <2>1, <2>3, Prefijo
  <2>5. CASE Len(v) <= Len(n)
    <3>1. \A k \in 1..Len(v) : v[k] = n[k]
      BY <1>1, <2>4, <2>5
    <3>2. QED
      BY <2>5, <3>1, Prefijo
  <2>6. CASE Len(n) <= Len(v)
    <3>1. \A k \in 1..Len(n) : n[k] = v[k]
      BY <1>1, <2>4, <2>6
    <3>2. QED
      BY <2>6, <3>1, Prefijo
  <2>7. QED
    BY <1>1, <2>5, <2>6
<1>4. QED
  BY <1>2, <1>3 DEF Traslada

LEMMA TrasladaInyectiva ==
  ASSUME NEW S, NEW p \in Seq(S), NEW q \in Seq(S), NEW v \in Seq(S), NEW n \in Seq(S),
         Traslada(p, v, n) = Traslada(q, v, n)
  PROVE  \/ p = q
         \/ IsPrefix(v, p) /\ ~IsPrefix(v, q) /\ IsPrefix(n, q)
         \/ IsPrefix(v, q) /\ ~IsPrefix(v, p) /\ IsPrefix(n, p)
<1>1. ASSUME NEW a \in Seq(S), IsPrefix(v, a)
      PROVE  \E r \in Seq(S) : a = v \o r /\ Traslada(a, v, n) = n \o r
  BY <1>1, Resto DEF Traslada
<1>2. ASSUME NEW r \in Seq(S) PROVE IsPrefix(n, n \o r)
  <2>1. n \o r \in Seq(S) /\ Len(n) <= Len(n \o r) /\ \A k \in 1..Len(n) : n[k] = (n \o r)[k]
    BY ConcatProperties
  <2>2. QED
    BY <2>1, Prefijo
<1>3. CASE IsPrefix(v, p) /\ IsPrefix(v, q)
  <2>1. PICK r \in Seq(S) : p = v \o r /\ Traslada(p, v, n) = n \o r
    BY <1>1, <1>3
  <2>2. PICK s \in Seq(S) : q = v \o s /\ Traslada(q, v, n) = n \o s
    BY <1>1, <1>3
  <2>3. n \o r = n \o s
    BY <2>1, <2>2
  <2>4. r = s
    BY <2>3, ConcatSimplifications
  <2>5. QED
    BY <2>1, <2>2, <2>4
<1>4. CASE IsPrefix(v, p) /\ ~IsPrefix(v, q)
  <2>1. Traslada(q, v, n) = q
    BY <1>4 DEF Traslada
  <2>2. PICK r \in Seq(S) : Traslada(p, v, n) = n \o r
    BY <1>1, <1>4
  <2>3. IsPrefix(n, n \o r)
    BY <1>2
  <2>4. q = n \o r
    BY <2>1, <2>2
  <2>5. QED
    BY <1>4, <2>3, <2>4
<1>5. CASE ~IsPrefix(v, p) /\ IsPrefix(v, q)
  <2>1. Traslada(p, v, n) = p
    BY <1>5 DEF Traslada
  <2>2. PICK r \in Seq(S) : Traslada(q, v, n) = n \o r
    BY <1>1, <1>5
  <2>3. IsPrefix(n, n \o r)
    BY <1>2
  <2>4. p = n \o r
    BY <2>1, <2>2
  <2>5. QED
    BY <1>5, <2>3, <2>4
<1>6. CASE ~IsPrefix(v, p) /\ ~IsPrefix(v, q)
  BY <1>6 DEF Traslada
<1>7. QED
  BY <1>3, <1>4, <1>5, <1>6

(* A node is renamed, and with it all that hangs from it. *)
LEMMA MudaArbol ==
  ASSUME NEW t, NEW u, NEW F, Arbolado(F, t), NEW i \in UsadosDe(t) \ {0}, NEW n \in Seq(LosNombres), n # <<>>,
         ~IsPrefix(F[i], n), \A j \in UsadosDe(t) : F[j] # n,
         NEW k \in UsadosDe(t), F[k] = Front(n), t[k].estado = 2,
         \A j \in Indices : j # i => Iguales(t, u, j),
         u[i].estado = t[i].estado, u[i].nombre = Last(n), u[i].padre = BloqueDe(k),
         NEW v, v = F[i], NEW M, M = [j \in UsadosDe(u) |-> Traslada(F[j], v, n)]
  PROVE  Arbolado(M, u) /\ UsadosDe(u) = UsadosDe(t) /\ M[i] = n
<1>1. UsadosDe(u) = UsadosDe(t) /\ UsadosDe(t) \subseteq Indices
  BY DEF UsadosDe, Iguales
<1>2. ASSUME NEW j \in UsadosDe(t)
      PROVE  u[j].estado = t[j].estado /\ (j # i => u[j].nombre = t[j].nombre /\ u[j].padre = t[j].padre)
  BY <1>1 DEF UsadosDe, Iguales
<1>3. v \in Seq(LosNombres) /\ v # <<>> /\ \A j \in UsadosDe(t) : F[j] \in Seq(LosNombres)
  BY RutaDeNodo
<1>4. ASSUME NEW j \in UsadosDe(t) PROVE M[j] = Traslada(F[j], v, n) /\ M[j] \in Seq(LosNombres)
  BY <1>1, <1>3, TrasladaTipo
<1>5. Front(n) \in Seq(LosNombres) /\ Last(n) \in LosNombres /\ n = Append(Front(n), Last(n))
  BY PadreYNombre
<1>6. M[i] = n
  <2>1. Traslada(v, v, n) = n
    BY <1>3, TrasladaElMismo
  <2>2. QED
    BY <1>4, <2>1
<1>7. M[k] = Front(n)
  <2>1. Traslada(n, v, n) = n
    BY DEF Traslada
  <2>2. n # v
    BY <1>3, Prefijo
  <2>3. PICK p \in Seq(LosNombres), e \in LosNombres : p = Front(n) /\ n = Append(p, e)
    BY <1>5
  <2>4. Front(n) = Traslada(Front(n), v, n)
    <3>1. Append(p, e) # v
      BY <2>2, <2>3
    <3>2. Traslada(Append(p, e), v, n) = Append(Traslada(p, v, n), e)
      BY <1>3, <3>1, TrasladaRuta
    <3>3. PICK z \in Seq(LosNombres) : z = Traslada(p, v, n)
      BY <1>3, TrasladaTipo
    <3>4. Front(Append(z, e)) = z
      BY RutaMasNombre
    <3>5. n = Append(z, e)
      BY <2>1, <2>3, <3>2, <3>3
    <3>6. QED
      BY <2>3, <3>3, <3>4, <3>5
  <2>5. QED
    BY <1>4, <2>4
<1>8. M \in [UsadosDe(u) -> Seq(LosNombres)]
  BY <1>1, <1>4
<1>9. ASSUME NEW j \in UsadosDe(t) PROVE ~IsPrefix(n, F[j])
  <2>1. SUFFICES ASSUME IsPrefix(n, F[j]) PROVE FALSE
    OBVIOUS
  <2>2. Len(n) <= Len(F[j]) /\ SubSeq(F[j], 1, Len(n)) = n /\ Len(n) \in Nat /\ Len(F[j]) \in Nat
    BY <1>3, <2>1 DEF IsPrefix
  <2>3. Len(n) \in 0..Len(F[j])
    BY <2>2
  <2>4. PICK h \in UsadosDe(t) : F[h] = SubSeq(F[j], 1, Len(n))
    BY <2>3, Ancestros
  <2>5. QED
    BY <2>2, <2>4
<1>10. \A x, y \in UsadosDe(u) : M[x] = M[y] => x = y
  <2> SUFFICES ASSUME NEW x \in UsadosDe(t), NEW y \in UsadosDe(t), M[x] = M[y] PROVE x = y
    BY <1>1
  <2>1. Traslada(F[x], v, n) = Traslada(F[y], v, n)
    BY <1>4
  <2>2. F[x] = F[y]
    BY <1>3, <1>9, <2>1, TrasladaInyectiva
  <2>3. QED
    BY <2>2 DEF Arbolado
<1>11. 0 \in UsadosDe(u) => M[0] = <<>> /\ u[0].estado = 2
  <2> SUFFICES ASSUME 0 \in UsadosDe(t) PROVE M[0] = <<>> /\ u[0].estado = 2
    BY <1>1
  <2>1. F[0] = <<>> /\ t[0].estado = 2
    BY DEF Arbolado
  <2>2. ~IsPrefix(v, <<>>)
    <3>1. Len(v) # 0 /\ Len(v) \in Nat
      BY <1>3
    <3>2. ~(Len(v) <= Len(<<>>))
      BY <3>1
    <3>3. QED
      BY <3>2 DEF IsPrefix
  <2>3. QED
    BY <1>2, <1>4, <2>1, <2>2 DEF Traslada
<1>12. ASSUME NEW j \in UsadosDe(u) \ {0}
       PROVE  u[j].nombre \in LosNombres /\ \E m \in UsadosDe(u) : Cuelga(M, u, j, m)
  <2>1. CASE j = i
    <3>1. Cuelga(M, u, i, k)
      BY <1>2, <1>5, <1>6, <1>7 DEF Cuelga
    <3>2. QED
      BY <1>1, <1>5, <2>1, <3>1
  <2>2. CASE j # i
    <3>1. PICK m \in UsadosDe(t) : Cuelga(F, t, j, m) /\ t[j].nombre \in LosNombres
      BY <1>1, RutaDeNodo
    <3>2. F[j] # v
      BY <1>1, <2>2 DEF Arbolado
    <3>3. F[j] = Append(F[m], t[j].nombre)
      BY <3>1 DEF Cuelga
    <3>4. Traslada(F[j], v, n) = Append(Traslada(F[m], v, n), t[j].nombre)
      <4>1. PICK p \in Seq(LosNombres), e \in LosNombres : p = F[m] /\ e = t[j].nombre
        BY <1>3, <3>1
      <4>2. Append(p, e) # v
        BY <3>2, <3>3, <4>1
      <4>3. Traslada(Append(p, e), v, n) = Append(Traslada(p, v, n), e)
        BY <1>3, <4>2, TrasladaRuta
      <4>4. QED
        BY <3>3, <4>1, <4>3
    <3>5. M[j] = Append(M[m], t[j].nombre)
      BY <1>1, <1>4, <3>4
    <3>6. Cuelga(M, u, j, m)
      BY <1>1, <1>2, <2>2, <3>1, <3>5 DEF Cuelga
    <3>7. QED
      BY <1>1, <1>2, <2>2, <3>1, <3>6
  <2>3. QED
    BY <2>1, <2>2
<1>13. Arbolado(M, u)
  BY <1>8, <1>10, <1>11, <1>12 DEF Arbolado
<1>14. QED
  BY <1>1, <1>6, <1>13

(* No name is the beginning of another: what string_starts_with tells of two    *)
(* paths is then what their names tell.                                       *)
SinPrefijos == \A n, m \in LosNombres : IsPrefix(n, m) => n = m

LEMMA EmpiezaEs ==
  ASSUME SinPrefijos, NEW r \in Seq(LosNombres), NEW v \in Seq(LosNombres), v # <<>>
  PROVE  EmpiezaCon(r, v) <=> IsPrefix(v, r)
<1> DEFINE l == Len(v)
<1>1. l \in Nat \ {0} /\ Len(r) \in Nat /\ Last(v) = v[l] /\ v[l] \in LosNombres
  BY EmptySeq DEF Last
<1>2. ASSUME NEW e \in LosNombres PROVE IsPrefix(v[l], e) <=> v[l] = e
  <2>1. e \in Seq(Nat) /\ v[l] \in Seq(Nat)
    BY <1>1 DEF LosNombres
  <2>2. IsPrefix(e, e)
    BY <2>1, Prefijo
  <2>3. QED
    BY <1>1, <2>2 DEF SinPrefijos
<1>3. CASE l <= Len(r)
  <2>1. r[l] \in LosNombres
    BY <1>1, <1>3
  <2>2. SubSeq(r, 1, l - 1) = Front(v) <=> \A k \in 1..(l - 1) : r[k] = v[k]
    <3> DEFINE a == SubSeq(r, 1, l - 1)
               b == SubSeq(v, 1, l - 1)
    <3>1. PICK m \in Nat : m = l - 1 /\ m <= Len(r) /\ m <= l
      <4>1. l - 1 \in Nat /\ l - 1 <= Len(r) /\ l - 1 <= l
        BY <1>1, <1>3
      <4>2. QED
        BY <4>1
    <3>2. /\ SubSeq(r, 1, m) \in Seq(LosNombres) /\ Len(SubSeq(r, 1, m)) = m
          /\ \A k \in 1..m : SubSeq(r, 1, m)[k] = r[k]
      <4>1. \A k \in 1..m : r[k] \in LosNombres
        BY <1>1, <3>1
      <4>2. QED
        BY <1>1, <3>1, <4>1
    <3>3. /\ SubSeq(v, 1, m) \in Seq(LosNombres) /\ Len(SubSeq(v, 1, m)) = m
          /\ \A k \in 1..m : SubSeq(v, 1, m)[k] = v[k]
      <4>1. \A k \in 1..m : v[k] \in LosNombres
        BY <1>1, <3>1
      <4>2. QED
        BY <1>1, <3>1, <4>1
    <3>4. a = b <=> \A k \in 1..m : a[k] = b[k]
      <4>1. a \in Seq(LosNombres) /\ b \in Seq(LosNombres) /\ Len(a) = m /\ Len(b) = m
        BY <3>1, <3>2, <3>3
      <4> HIDE DEF a, b
      <4>2. QED
        BY <4>1, SeqEqual
    <3>5. QED
      BY <3>1, <3>2, <3>3, <3>4 DEF Front
  <2>3. 1..l = 1..(l - 1) \cup {l}
    BY <1>1
  <2>4. EmpiezaCon(r, v) <=> (\A k \in 1..(l - 1) : r[k] = v[k]) /\ v[l] = r[l]
    BY <1>1, <1>2, <1>3, <2>1, <2>2 DEF EmpiezaCon
  <2>5. IsPrefix(v, r) <=> \A k \in 1..l : v[k] = r[k]
    BY <1>3, Prefijo
  <2> HIDE DEF l
  <2>6. QED
    BY <2>3, <2>4, <2>5
<1>4. CASE ~(l <= Len(r))
  BY <1>1, <1>4, Prefijo DEF EmpiezaCon
<1>5. QED
  BY <1>3, <1>4

LEMMA ReemplazarEs ==
  ASSUME NEW r \in Seq(LosNombres), NEW v \in Seq(LosNombres), v # <<>>, IsPrefix(v, r),
         NEW n \in Seq(LosNombres), n # <<>>
  PROVE  Reemplazar(r, v, n) = Traslada(r, v, n)
<1> DEFINE l == Len(v)
<1>1. l \in Nat \ {0} /\ Len(r) \in Nat /\ Last(v) = v[l] /\ v[l] \in LosNombres
  BY EmptySeq DEF Last
<1>2. v[l] = r[l]
  BY <1>1, Prefijo
<1>3. n = Append(Front(n), Last(n)) /\ Last(n) \in Seq(Nat) /\ v[l] \in Seq(Nat)
  BY <1>1, PadreYNombre DEF LosNombres
<1>4. SubSeq(r[l], Len(Last(v)) + 1, Len(r[l])) = <<>>
  <2>1. Len(v[l]) \in Nat
    BY <1>3
  <2>2. QED
    BY <1>1, <1>2, <1>3, <2>1
<1>5. Last(n) \o <<>> = Last(n)
  BY <1>3, ConcatEmptySeq
<1>6. QED
  BY <1>3, <1>4, <1>5 DEF Reemplazar, Traslada

-----------------------------------------------------------------------------
(* The dictionary, and what of the tree each point of the handler leaves       *)
(* half-done.                                                                 *)

(* The dictionary of a tree: the path of each node leads to it. *)
Da(F, t, d) ==
  /\ \A i \in UsadosDe(t) : F[i] \in DOMAIN d /\ d[F[i]] = i
  /\ \A p \in DOMAIN d : d[p] \in UsadosDe(t) /\ F[d[p]] = p
Plantado(d, t) == \E F : Arbolado(F, t) /\ Da(F, t, d)

EsDir(p) == p \in DOMAIN dicc /\ tabla[dicc[p]].estado = 2
SinHijos(p) == \A q \in DOMAIN dicc : q # <<>> => Front(q) # p
SinNodo(t, i) == [t EXCEPT ![i].estado = 0]

(* A path is in the dictionary and its node is not in the tree yet. *)
DeNacer == {"marcar", "buscar_padre", "nombrar", "apadrinar"}
Naciendo(c) ==
  LET r == Ruta(c)
      i == Nodo(c)
  IN
  /\ EnDicc(c) /\ dicc[r] = i /\ i \in Indices \ {0}
  /\ EsDir(Front(r)) /\ dicc[Front(r)] # i
  /\ Plantado(Sin(dicc, r), SinNodo(tabla, i))
  /\ tabla[i].estado = IF pc[c] = "marcar" THEN 0 ELSE Tipo(c)
  /\ pc[c] \in {"nombrar", "apadrinar"} => local[c].padre = dicc[Front(r)]
  /\ pc[c] = "apadrinar" => tabla[i].nombre = Last(r)

(* The node has its new name; M is the tree that there will be at the end, and  *)
(* a key is either where it was or where it goes.                             *)
Mudo(M, t, d, v, n) ==
  /\ DOMAIN d \subseteq Seq(LosNombres)
  /\ \A p \in DOMAIN d : d[p] \in UsadosDe(t) /\ M[d[p]] = Traslada(p, v, n)
  /\ \A j \in UsadosDe(t) : \E p \in DOMAIN d : d[p] = j
PadreNuevo(c) == IF pc[c] = "cambiar_clave" THEN dicc[Front(pedido[c].destino)] ELSE local[c].padre
Mudada(c) == [tabla EXCEPT ![Nodo(c)].padre = BloqueDe(PadreNuevo(c))]
Mudando(c) ==
  LET v == Ruta(c)
      n == pedido[c].destino
      i == Nodo(c)
  IN
  /\ i \in Indices /\ v \in Seq(LosNombres) /\ ~IsPrefix(v, n) /\ ~IsPrefix(n, v)
  /\ \E M : Arbolado(M, Mudada(c)) /\ i \in UsadosDe(Mudada(c)) /\ M[i] = n /\ Mudo(M, Mudada(c), dicc, v, n)
  /\ pc[c] = "cambiar_clave" => EnDicc(c) /\ dicc[v] = i /\ Front(n) \in DOMAIN dicc
  /\ pc[c] = "cambiar_nombres" => \A q \in DOMAIN dicc : IsPrefix(v, q) => q \in local[c].claves

(* What the kernel saw before it made the request is still so while it is served. *)
Vio(c) ==
  LET op == pedido[c].op
      n  == pedido[c].destino
  IN
  /\ op \in {"MKNOD", "MKDIR"} \/ (op = "OPEN" /\ pedido[c].crear) => EnDicc(c) \/ EsDir(Front(Ruta(c)))
  /\ op = "RMDIR" => EsDir(Ruta(c))
  /\ op = "UNLINK" => EnDicc(c) /\ tabla[dicc[Ruta(c)]].estado = 1
  /\ op = "RENAME" => EnDicc(c) /\ EsDir(Front(n)) /\ ~IsPrefix(Ruta(c), n) /\ ~IsPrefix(n, Ruta(c))

(* What is known at a point of the handler, i being its node. *)
Sabe(c, punto, i) ==
  LET op == pedido[c].op IN
  /\ punto \in {"crear", "elegir"} => ~EnDicc(c) /\ EsDir(Front(Ruta(c)))
  /\ punto = "listar" /\ op = "RMDIR" => i = dicc[Ruta(c)]
  /\ punto = "borrar_directorio" => op = "RMDIR" /\ SinHijos(Ruta(c))
  /\ punto = "tomar_unlink" => op = "UNLINK"
  /\ punto \in DeLimpiar => op = "UNLINK" /\ i = dicc[Ruta(c)]
  /\ punto = "con_nodo" /\ op = "RENAME" => i = dicc[Ruta(c)]

Mudables == DeNacer \cup DeRenombrar
ArbolInv ==
  /\ (\A c \in Conexiones : pc[c] \notin Mudables) => Plantado(dicc, tabla)
  /\ \A c \in Conexiones :
       /\ pc[c] \in DeNacer => Naciendo(c)
       /\ pc[c] \in DeRenombrar => Mudando(c)
       /\ pc[c] \notin Mudables /\ pedido[c] # Nada => Vio(c) /\ Sabe(c, pc[c], Nodo(c))

-----------------------------------------------------------------------------
(* What the steps share.                                                     *)

LEMMA PlantadoIgual ==
  ASSUME NEW d, NEW t, NEW u, Plantado(d, t), \A j \in Indices : Iguales(t, u, j)
  PROVE  Plantado(d, u)
<1>1. PICK F : Arbolado(F, t) /\ Da(F, t, d)
  BY DEF Plantado
<1>2. Arbolado(F, u) /\ UsadosDe(u) = UsadosDe(t)
  BY <1>1, MismoArbol
<1>3. Da(F, u, d)
  BY <1>1, <1>2 DEF Da
<1>4. QED
  BY <1>2, <1>3 DEF Plantado

(* What a dictionary of a tree says. *)
LEMMA DePlantado ==
  ASSUME NEW d, NEW t, Plantado(d, t)
  PROVE  /\ DOMAIN d \subseteq Seq(LosNombres)
         /\ \A p \in DOMAIN d : d[p] \in UsadosDe(t) /\ (d[p] = 0 <=> p = <<>>)
         /\ \A p, q \in DOMAIN d : d[p] = d[q] => p = q
         /\ \A p \in DOMAIN d : p # <<>> =>
              /\ Front(p) \in DOMAIN d /\ t[d[Front(p)]].estado = 2
              /\ t[d[p]].padre = BloqueDe(d[Front(p)]) /\ t[d[p]].nombre \in LosNombres
         /\ DOMAIN d # {} => 0 \in UsadosDe(t)
<1>1. PICK F : Arbolado(F, t) /\ Da(F, t, d)
  BY DEF Plantado
<1>2. \A p \in DOMAIN d : d[p] \in UsadosDe(t) /\ F[d[p]] = p
  BY <1>1 DEF Da
<1>3. DOMAIN d \subseteq Seq(LosNombres)
  BY <1>1, <1>2, RutaDeNodo
<1>4. ASSUME NEW p \in DOMAIN d
      PROVE  /\ d[p] = 0 <=> p = <<>>
             /\ p # <<>> => /\ Front(p) \in DOMAIN d /\ t[d[Front(p)]].estado = 2
                            /\ t[d[p]].padre = BloqueDe(d[Front(p)]) /\ t[d[p]].nombre \in LosNombres
  <2>1. PICK i \in UsadosDe(t) : i = d[p] /\ F[i] = p
    BY <1>2
  <2>2. CASE i = 0
    <3>1. F[i] = <<>>
      BY <1>1, <2>2, RutaDeNodo
    <3>2. QED
      BY <2>1, <2>2, <3>1
  <2>3. CASE i # 0
    <3>1. PICK k \in UsadosDe(t) : /\ Cuelga(F, t, i, k) /\ t[i].nombre \in LosNombres
                                   /\ F[k] = Front(F[i]) /\ F[i] # <<>>
      BY <1>1, <2>3, RutaDeNodo
    <3>2. F[k] \in DOMAIN d /\ d[F[k]] = k
      BY <1>1 DEF Da
    <3>3. QED
      BY <2>1, <2>3, <3>1, <3>2 DEF Cuelga
  <2>4. QED
    BY <2>2, <2>3
<1>5. ASSUME NEW p \in DOMAIN d PROVE 0 \in UsadosDe(t)
  <2>1. PICK i \in UsadosDe(t) : F[i] = p /\ F[i] \in Seq(LosNombres)
    BY <1>1, <1>2, RutaDeNodo
  <2>2. 0 \in 0..Len(F[i])
    BY <2>1
  <2>3. PICK j \in UsadosDe(t) : F[j] = SubSeq(F[i], 1, 0)
    BY <1>1, <2>2, Ancestros
  <2>4. F[j] = <<>>
    BY <2>1, <2>3
  <2>5. j = 0
    BY <1>1, <2>4, RutaDeNodo
  <2>6. QED
    BY <2>5
<1>6. QED
  BY <1>2, <1>3, <1>4, <1>5

(* The names of the paths of requests. *)
LEMMA NombresDePedido ==
  ASSUME Hipotesis, BloquesInv, NEW c \in Conexiones, pedido[c] # Nada
  PROVE  /\ pedido[c].op \in {"MKNOD", "MKDIR", "OPEN"} => Ruta(c) \in Seq(LosNombres) /\ Ruta(c) # <<>>
         /\ pedido[c].op = "RENAME" => /\ pedido[c].destino \in Seq(LosNombres) /\ pedido[c].destino # <<>>
                                       /\ Ruta(c) # <<>>
<1>1. pedido[c] \in Pedibles[c] /\ Ruta(c) = pedido[c].ruta /\ Ruta(c) \in Seq(Seq(Nat))
  BY RutasDePedido DEF Ruta
<1>2. ASSUME NEW p \in Seq(Seq(Nat)), \A n \in Seq(Nat) : n \in NombresDe(p) => n \in LosNombres
      PROVE  p \in Seq(LosNombres)
  <2>1. ASSUME NEW k \in 1..Len(p) PROVE p[k] \in LosNombres
    <3>1. p[k] \in Seq(Nat) /\ p[k] \in NombresDe(p)
      BY DEF NombresDe
    <3>2. QED
      BY <1>2, <3>1
  <2>2. QED
    BY <2>1
<1>3. ASSUME pedido[c].op \in {"MKNOD", "MKDIR", "OPEN"} PROVE Ruta(c) \in Seq(LosNombres) /\ Ruta(c) # <<>>
  <2>1. \A n \in Seq(Nat) : n \in NombresDe(Ruta(c)) => n \in LosNombres
    BY <1>1, <1>3 DEF LosNombres
  <2>2. Ruta(c) # <<>>
    BY <1>3, RutasDePedido DEF Nombran
  <2>3. QED
    BY <1>1, <1>2, <2>1, <2>2
<1>4. ASSUME pedido[c].op = "RENAME"
      PROVE  pedido[c].destino \in Seq(LosNombres) /\ pedido[c].destino # <<>> /\ Ruta(c) # <<>>
  <2>1. pedido[c].destino \in Seq(Seq(Nat)) /\ pedido[c].destino # <<>> /\ Ruta(c) # <<>>
    BY <1>4, RutasDePedido DEF Nombran
  <2>2. \A n \in Seq(Nat) : n \in NombresDe(pedido[c].destino) => n \in LosNombres
    BY <1>1, <1>4 DEF LosNombres
  <2>3. QED
    BY <1>2, <2>1, <2>2
<1>5. QED
  BY <1>3, <1>4

(* A step of the data, or of none: the tree is the same. *)
Mismo == dicc' = dicc /\ \A j \in Indices : Iguales(tabla, tabla', j)

LEMMA MismoDe ==
  /\ tabla' = tabla /\ dicc' = dicc => Mismo
  /\ \A i \in Indices : \A p, b : SacTipo /\ tabla' = [tabla EXCEPT ![i].punteros[p] = b] /\ dicc' = dicc => Mismo
  /\ \A i \in Indices : \A m : SacTipo /\ tabla' = [tabla EXCEPT ![i].tamanio = m] /\ dicc' = dicc => Mismo
<1>1. tabla' = tabla /\ dicc' = dicc => Mismo
  BY DEF Mismo, Iguales
<1>2. ASSUME NEW i \in Indices, NEW x, SacTipo, tabla' = [tabla EXCEPT ![i].punteros = x], dicc' = dicc PROVE Mismo
  <2>1. tabla \in [Indices -> NodoTipo]
    BY <1>2 DEF SacTipo
  <2>2. ASSUME NEW j \in Indices
        PROVE  tabla'[j].estado = tabla[j].estado /\ tabla'[j].nombre = tabla[j].nombre /\ tabla'[j].padre = tabla[j].padre
    BY <1>2, <2>1 DEF NodoTipo
  <2>3. QED
    BY <1>2, <2>2 DEF Mismo, Iguales
<1>3. ASSUME NEW i \in Indices, NEW m, SacTipo, tabla' = [tabla EXCEPT ![i].tamanio = m], dicc' = dicc PROVE Mismo
  <2>1. tabla \in [Indices -> NodoTipo]
    BY <1>3 DEF SacTipo
  <2>2. ASSUME NEW j \in Indices
        PROVE  tabla'[j].estado = tabla[j].estado /\ tabla'[j].nombre = tabla[j].nombre /\ tabla'[j].padre = tabla[j].padre
    BY <1>3, <2>1 DEF NodoTipo
  <2>3. QED
    BY <1>3, <2>2 DEF Mismo, Iguales
<1>4. ASSUME NEW i \in Indices, NEW p, NEW b
      PROVE  [tabla EXCEPT ![i].punteros[p] = b] = [tabla EXCEPT ![i].punteros = [tabla[i].punteros EXCEPT ![p] = b]]
  OBVIOUS
<1>5. QED
  BY <1>1, <1>2, <1>3, <1>4

LEMMA PuntosMudables ==
  /\ "libre" \notin Mudables /\ "colgado" \notin Mudables
  /\ \A punto \in DeListar \cup DeBuscar \cup DeEscribir \cup DeVaciar \cup {"crear", "elegir"} : punto \notin Mudables
  BY DEF Mudables, DeNacer, DeRenombrar, DeListar, DeBuscar, DeEscribir, DeVaciar

LEMMA ArbolDe ==
  ASSUME UnMontaje, ArbolInv, NEW c \in Conexiones, pc[c] \notin Mudables
  PROVE  Plantado(dicc, tabla) /\ (pedido[c] # Nada => Vio(c) /\ Sabe(c, pc[c], Nodo(c)))
  BY DEF UnMontaje, ArbolInv

(* The tree is whole after the step, and known to be. *)
LEMMA SigueArbol ==
  ASSUME UnMontaje, SacTipo, ArbolInv, NEW c \in Conexiones, pc[c] \notin Mudables, pedido[c] # Nada, Mismo,
         NEW punto, punto \notin Mudables, Ir(c, punto), Sabe(c, punto, local'[c].nodo)
  PROVE  ArbolInv'
<1>1. pc'[c] = punto /\ pedido' = pedido /\ dicc' = dicc /\ (\A d \in Conexiones : d = c)
      /\ \A j \in Indices : tabla'[j].estado = tabla[j].estado
  BY DEF SacTipo, Ir, Mismo, Iguales, UnMontaje
<1>2. Plantado(dicc, tabla)'
  <2>1. Plantado(dicc, tabla')
    BY ArbolDe, PlantadoIgual DEF Mismo
  <2>2. QED
    BY <1>1, <2>1
<1>3. \A p : EsDir(p)' <=> EsDir(p)
  BY <1>1 DEF EsDir, SacTipo
<1>4. Ruta(c)' = Ruta(c) /\ (EnDicc(c)' <=> EnDicc(c)) /\ \A p : SinHijos(p)' <=> SinHijos(p)
  BY <1>1 DEF Ruta, EnDicc, SinHijos
<1>5. PICK r : r = Ruta(c)
  OBVIOUS
<1>6. Vio(c)'
  <2>1. Vio(c)
    BY ArbolDe
  <2>2. EnDicc(c) => tabla'[dicc[r]].estado = tabla[dicc[r]].estado
    BY <1>1, <1>5 DEF EnDicc, SacTipo
  <2>3. QED
    BY <1>1, <1>3, <1>4, <1>5, <2>1, <2>2 DEF Vio
<1>7. Sabe(c, pc[c], Nodo(c))'
  BY <1>1, <1>3, <1>4, <1>5 DEF Sabe, Nodo
<1>8. QED
  BY <1>1, <1>2, <1>6, <1>7 DEF ArbolInv, Mudables

LEMMA TerminaArbol ==
  ASSUME UnMontaje, SacTipo, NEW c \in Conexiones, NEW punto \in {"libre", "colgado"}, NEW r,
         Terminar(c, punto, r), Plantado(dicc', tabla')
  PROVE  ArbolInv'
<1>1. pc'[c] = punto /\ pedido'[c] = Nada /\ (\A d \in Conexiones : d = c) /\ punto \notin Mudables
  BY PuntosMudables DEF SacTipo, Terminar, UnMontaje
<1>2. Plantado(dicc, tabla)'
  OBVIOUS
<1>3. QED
  BY <1>1, <1>2 DEF ArbolInv, Mudables

LEMMA RespondeArbol ==
  ASSUME UnMontaje, SacTipo, ArbolInv, NEW c \in Conexiones, pc[c] \notin Mudables, Mismo,
         NEW punto \in {"libre", "colgado"}, NEW r, Terminar(c, punto, r)
  PROVE  ArbolInv'
<1>1. Plantado(dicc', tabla')
  BY ArbolDe, PlantadoIgual DEF Mismo
<1>2. QED
  BY <1>1, TerminaArbol

(* The points at which nothing is known but what the kernel saw. *)
DeSaber == {"crear", "elegir", "listar", "borrar_directorio", "tomar_unlink", "con_nodo"} \cup DeLimpiar

LEMMA SabePoco ==
  ASSUME NEW c, NEW i, NEW punto, punto \notin DeSaber
  PROVE  Sabe(c, punto, i)
  BY DEF Sabe, DeSaber

LEMMA QuietoArbol ==
  ASSUME UnMontaje, SacTipo, ArbolInv, NEW c \in Conexiones, UNCHANGED discoVars,
         pc[c] \notin Mudables, pedido[c] # Nada,
         \/ \E punto : punto \notin Mudables /\ Ir(c, punto) /\ Sabe(c, punto, local'[c].nodo)
         \/ \E r : Responder(c, r)
         \/ \E r : Callar(c)
  PROVE  ArbolInv'
<1>1. Mismo
  BY MismoDe DEF discoVars, enDisco, enMemoria
<1>2. CASE \E punto : punto \notin Mudables /\ Ir(c, punto) /\ Sabe(c, punto, local'[c].nodo)
  BY <1>1, <1>2, SigueArbol
<1>3. CASE \E r : Responder(c, r)
  BY <1>1, <1>3, RespondeArbol DEF Responder
<1>4. CASE \E r : Callar(c)
  BY <1>1, <1>4, RespondeArbol DEF Callar
<1>5. QED
  BY <1>2, <1>3, <1>4

LEMMA ArbolQuieto ==
  ASSUME ArbolInv, UNCHANGED <<tabla, dicc, pedido, pc, local>>
  PROVE  ArbolInv'
<1>1. ASSUME NEW c \in Conexiones
      PROVE  /\ Naciendo(c) => Naciendo(c)'
             /\ Mudando(c) => Mudando(c)'
             /\ Vio(c) /\ Sabe(c, pc[c], Nodo(c)) => Vio(c)' /\ Sabe(c, pc[c], Nodo(c))'
  <2>1. Ruta(c)' = Ruta(c) /\ Nodo(c)' = Nodo(c) /\ Tipo(c)' = Tipo(c) /\ (EnDicc(c)' <=> EnDicc(c))
    BY DEF Ruta, Nodo, Tipo, EnDicc
  <2>2. \A p : (EsDir(p)' <=> EsDir(p)) /\ (SinHijos(p)' <=> SinHijos(p))
    BY DEF EsDir, SinHijos
  <2>3. PICK r : r = Ruta(c)
    OBVIOUS
  <2>4. Naciendo(c) => Naciendo(c)'
    BY <2>1, <2>2, <2>3 DEF Naciendo
  <2>5. Mudada(c)' = Mudada(c)
    BY DEF Mudada, PadreNuevo, Nodo
  <2>6. Mudando(c) => Mudando(c)'
    BY <2>1, <2>5 DEF Mudando
  <2>7. Vio(c) => Vio(c)'
    BY <2>1, <2>2, <2>3 DEF Vio
  <2>8. Sabe(c, pc[c], Nodo(c)) => Sabe(c, pc[c], Nodo(c))'
    BY <2>1, <2>2, <2>3 DEF Sabe
  <2>9. QED
    BY <2>4, <2>6, <2>7, <2>8
<1>2. Plantado(dicc, tabla)' <=> Plantado(dicc, tabla)
  OBVIOUS
<1>3. QED
  BY <1>1, <1>2 DEF ArbolInv

-----------------------------------------------------------------------------
(* The requests on nodes.                                                    *)

LEMMA NodosArbol ==
  ASSUME UnMontaje, BloquesInv, ArbolInv, NEW c \in Conexiones, AtenderNodo(c)
  PROVE  ArbolInv'
<1>0. SacTipo
  BY DEF BloquesInv
<1>1. CASE BuscarNodo(c)
  <2>1. UNCHANGED discoVars /\ UNCHANGED local
    BY <1>1 DEF BuscarNodo
  <2>2. CASE Llega(c, ConNodo) /\ Ir(c, "tomar_nodo")
    <3>1. pc[c] \notin Mudables /\ pedido[c] # Nada /\ "tomar_nodo" \notin Mudables \cup DeSaber
      BY <2>2, PuntosMudables DEF Llega, DeBuscar, DeSaber, DeLimpiar
    <3>2. QED
      BY <1>0, <2>1, <2>2, <3>1, SabePoco, QuietoArbol
  <2>3. CASE Esta(c, "desasignar") /\ Ir(c, "retomar_nodo")
    <3>1. pc[c] \notin Mudables /\ pedido[c] # Nada /\ "retomar_nodo" \notin Mudables \cup DeSaber
      BY <2>3, PuntosMudables, PedidoDe DEF Esta, DeBuscar, DeSaber, DeLimpiar
    <3>2. QED
      BY <1>0, <2>1, <2>3, <3>1, SabePoco, QuietoArbol
  <2>4. QED
    BY <1>1, <2>2, <2>3 DEF BuscarNodo
<1>2. CASE TomarNodo(c)
  <2>1. UNCHANGED discoVars /\ local'[c].nodo = Saca(Ruta(c))
    BY <1>0, <1>2 DEF TomarNodo, SacTipo, LocalTipo
  <2>2. CASE Esta(c, "tomar_nodo") /\ Ir(c, "con_nodo")
    <3>1. pc[c] \notin Mudables /\ pedido[c] # Nada /\ "con_nodo" \notin Mudables
      BY <2>2, PuntosMudables, PedidoDe DEF Esta, DeBuscar
    <3>2. Vio(c)
      BY <3>1, ArbolDe
    <3>3. Sabe(c, "con_nodo", local'[c].nodo)
      BY <2>1, <3>2 DEF Sabe, Vio, EnDicc, Saca, DeLimpiar
    <3>4. QED
      BY <1>0, <2>1, <2>2, <3>1, <3>3, QuietoArbol
  <2>3. CASE Esta(c, "retomar_nodo") /\ Ir(c, "vaciar")
    <3>1. pc[c] \notin Mudables /\ pedido[c] # Nada /\ "vaciar" \notin Mudables \cup DeSaber
      BY <2>3, PuntosMudables, PedidoDe DEF Esta, DeBuscar, DeVaciar, DeSaber, DeLimpiar
    <3>2. QED
      BY <1>0, <2>1, <2>3, <3>1, SabePoco, QuietoArbol
  <2>4. QED
    BY <1>2, <2>2, <2>3 DEF TomarNodo
<1>3. CASE NoHayNodo(c)
  <2>1. UNCHANGED discoVars /\ Responder(c, "error") /\ pc[c] \notin Mudables /\ pedido[c] # Nada
    BY <1>3, PuntosMudables DEF NoHayNodo, Llega
  <2>2. QED
    BY <1>0, <2>1, QuietoArbol
<1>4. CASE NodoInvalido(c)
  <2>1. UNCHANGED <<tabla, dicc, pedido, pc, local>>
    BY <1>4 DEF NodoInvalido, Caer, enDisco, enMemoria, atencionVars
  <2>2. QED
    BY <2>1, ArbolQuieto
<1>5. CASE Contestar(c)
  <2>1. UNCHANGED discoVars /\ Responder(c, "ok") /\ pc[c] \notin Mudables /\ pedido[c] # Nada
    BY <1>5, PuntosMudables, PedidoDe DEF Contestar, Esta, DeBuscar
  <2>2. QED
    BY <1>0, <2>1, QuietoArbol
<1>6. CASE Leer(c)
  <2>1. UNCHANGED discoVars /\ Terminar(c, "libre", "ok") /\ pc[c] \notin Mudables
    BY <1>6, PuntosMudables DEF Leer, Esta, DeBuscar
  <2>2. Mismo
    BY <1>0, <2>1, MismoDe DEF discoVars, enDisco, enMemoria
  <2>3. QED
    BY <1>0, <2>1, <2>2, RespondeArbol
<1>7. QED
  BY <1>1, <1>2, <1>3, <1>4, <1>5, <1>6 DEF AtenderNodo

-----------------------------------------------------------------------------
(* A node is created.                                                        *)

(* The handler goes on with a node that is not in the tree yet. *)
LEMMA SigueNaciendo ==
  ASSUME UnMontaje, SacTipo, NEW c \in Conexiones, NEW punto \in DeNacer, Ir(c, punto), Naciendo(c)'
  PROVE  ArbolInv'
<1>1. pc'[c] = punto /\ (\A d \in Conexiones : d = c) /\ punto \in Mudables /\ punto \notin DeRenombrar
  BY DEF SacTipo, Ir, UnMontaje, Mudables, DeNacer, DeRenombrar
<1>2. QED
  BY <1>1 DEF ArbolInv

LEMMA NaciendoDe ==
  ASSUME BloquesInv, ArbolInv, NEW c \in Conexiones, pc[c] \in DeNacer
  PROVE  /\ Naciendo(c) /\ SacTipo /\ pedido[c] # Nada /\ pedido[c].op \in {"MKNOD", "MKDIR", "OPEN"}
         /\ Nodo(c) \in Indices \ {0} /\ Ruta(c) \in DOMAIN dicc
<1>1. pc[c] \in DeCrear
  BY DEF DeNacer, DeCrear
<1>2. QED
  BY <1>1, PuntoDeCrear DEF ArbolInv, BloquesInv, Naciendo, EnDicc

LEMMA EmpezarArbol ==
  ASSUME UnMontaje, BloquesInv, ArbolInv, NEW c \in Conexiones,
         AbrirExistente(c) \/ AbrirAusente(c) \/ CrearExistente(c) \/ CrearAusente(c) \/ SinNodos(c)
  PROVE  ArbolInv'
<1>0. SacTipo
  BY DEF BloquesInv
<1>1. UNCHANGED discoVars /\ pc[c] \in {"libre", "crear", "elegir"}
  BY DEF AbrirExistente, AbrirAusente, CrearExistente, CrearAusente, SinNodos, EmpiezaACrear, Llega, Esta
<1>2. pc[c] \notin Mudables /\ "crear" \notin Mudables /\ "elegir" \notin Mudables
  BY <1>1, PuntosMudables
<1>3. pedido[c] # Nada
  <2>1. CASE pc[c] = "libre"
    BY <2>1 DEF AbrirExistente, AbrirAusente, CrearExistente, CrearAusente, SinNodos, EmpiezaACrear, Llega, Esta
  <2>2. CASE pc[c] # "libre"
    BY <1>1, <2>2, PedidoDe
  <2>3. QED
    BY <2>1, <2>2
<1>4. Vio(c) /\ Sabe(c, pc[c], Nodo(c))
  BY <1>2, <1>3, ArbolDe
<1>5. CASE \E r : Responder(c, r)
  BY <1>0, <1>1, <1>2, <1>3, <1>5, QuietoArbol
<1>6. CASE AbrirAusente(c) /\ Ir(c, "crear")
  <2>1. (pedido[c].op = "OPEN" /\ ~EnDicc(c) /\ pedido[c].crear) \/ \E r : Responder(c, r)
    BY <1>6 DEF AbrirAusente, Llega
  <2>2. CASE pedido[c].op = "OPEN" /\ ~EnDicc(c) /\ pedido[c].crear
    <3>1. EsDir(Front(Ruta(c)))
      BY <1>4, <2>2 DEF Vio
    <3>2. Sabe(c, "crear", local'[c].nodo)
      BY <2>2, <3>1 DEF Sabe, DeLimpiar
    <3>3. QED
      BY <1>0, <1>1, <1>2, <1>3, <1>6, <3>2, QuietoArbol
  <2>3. QED
    BY <1>5, <2>1, <2>2
<1>7. CASE CrearAusente(c)
  <2>1. EmpiezaACrear(c) /\ ~EnDicc(c) /\ Ir(c, "elegir")
    BY <1>7 DEF CrearAusente
  <2>2. EsDir(Front(Ruta(c)))
    <3>1. CASE Llega(c, {"MKNOD", "MKDIR"})
      BY <1>4, <2>1, <3>1 DEF Llega, Vio
    <3>2. CASE Esta(c, "crear")
      BY <1>4, <3>2 DEF Esta, Sabe
    <3>3. QED
      BY <2>1, <3>1, <3>2 DEF EmpiezaACrear
  <2>3. Sabe(c, "elegir", local'[c].nodo)
    BY <2>1, <2>2 DEF Sabe, DeLimpiar
  <2>4. QED
    BY <1>0, <1>1, <1>2, <1>3, <2>1, <2>3, QuietoArbol
<1>8. QED
  BY <1>5, <1>6, <1>7 DEF AbrirExistente, AbrirAusente, CrearExistente, SinNodos

LEMMA PlantadoMismo ==
  ASSUME NEW d, NEW e, NEW t, Plantado(d, t), DOMAIN e = DOMAIN d, \A p \in DOMAIN d : e[p] = d[p]
  PROVE  Plantado(e, t)
<1>1. PICK F : Arbolado(F, t) /\ Da(F, t, d)
  BY DEF Plantado
<1>2. Da(F, t, e)
  BY <1>1 DEF Da
<1>3. QED
  BY <1>1, <1>2 DEF Plantado

(* The table without a node is the same whatever is done to that node. *)
LEMMA SinNodoIgual ==
  ASSUME NEW t \in [Indices -> NodoTipo], NEW u \in [Indices -> NodoTipo], NEW i \in Indices,
         \A j \in Indices : j # i => u[j] = t[j]
  PROVE  /\ \A j \in Indices : Iguales(SinNodo(t, i), SinNodo(u, i), j)
         /\ SinNodo(t, i)[i].estado = 0
         /\ \A j \in Indices : j # i => SinNodo(t, i)[j] = t[j]
         /\ t[i].estado = 0 => \A j \in Indices : Iguales(t, SinNodo(t, i), j)
<1>1. ASSUME NEW w \in [Indices -> NodoTipo]
      PROVE  /\ SinNodo(w, i)[i].estado = 0
             /\ \A j \in Indices : j # i => SinNodo(w, i)[j] = w[j]
  BY DEF SinNodo, NodoTipo
<1>2. \A j \in Indices : Iguales(SinNodo(t, i), SinNodo(u, i), j)
  BY <1>1 DEF Iguales
<1>3. t[i].estado = 0 => \A j \in Indices : Iguales(t, SinNodo(t, i), j)
  BY <1>1 DEF Iguales
<1>4. QED
  BY <1>1, <1>2, <1>3

LEMMA ElegirArbol ==
  ASSUME Hipotesis, BloquesInv, ArbolInv, NEW c \in Conexiones, ElegirNodo(c)
  PROVE  ArbolInv'
<1>0. UnMontaje /\ SacTipo
  BY DEF Hipotesis, BloquesInv
<1>1. pc[c] = "elegir" /\ pc[c] \in DeCrear /\ pc[c] \notin Mudables
  BY PuntosMudables DEF ElegirNodo, Esta, DeCrear
<1>2. pedido[c] # Nada /\ Plantado(dicc, tabla) /\ Sabe(c, "elegir", Nodo(c))
  BY <1>0, <1>1, PuntoDeCrear, ArbolDe
<1>3. PICK r : r = Ruta(c) /\ r \notin DOMAIN dicc /\ EsDir(Front(r))
  BY <1>2 DEF Sabe, EnDicc
<1>4. PICK i \in Indices : i = Min(NodosLibres) /\ tabla[i].estado = 0
  <2>1. NodosLibres \in SUBSET Nat /\ NodosLibres # {} /\ NodosLibres \subseteq Indices
    BY Medidas DEF ElegirNodo, NodosLibres, Indices
  <2>2. Min(NodosLibres) \in NodosLibres
    BY <2>1, MinimoDe
  <2>3. QED
    BY <2>2 DEF NodosLibres
<1>5. /\ dicc' = Pone(dicc, r, i) /\ local' = [local EXCEPT ![c].nodo = i] /\ Ir(c, "marcar")
      /\ tabla' = tabla /\ pedido' = pedido /\ pc'[c] = "marcar"
  BY <1>0, <1>3, <1>4 DEF ElegirNodo, enDisco, Ir, SacTipo
<1>6. DOMAIN dicc' = DOMAIN dicc \cup {r} /\ dicc'[r] = i /\ \A q \in DOMAIN dicc : dicc'[q] = dicc[q]
  BY <1>3, <1>5 DEF Pone
<1>7. Front(r) \in DOMAIN dicc /\ tabla[dicc[Front(r)]].estado = 2
  BY <1>3 DEF EsDir
<1>8. dicc[Front(r)] # i /\ i # 0
  <2>1. 0 \in UsadosDe(tabla)
    BY <1>2, <1>7, DePlantado
  <2>2. tabla[0].estado # 0
    BY <2>1 DEF UsadosDe
  <2>3. QED
    BY <1>4, <1>7, <2>2
<1>9. Plantado(Sin(dicc', r), SinNodo(tabla', i))
  <2>1. Plantado(Sin(dicc', r), tabla)
    <3>1. DOMAIN Sin(dicc', r) = DOMAIN dicc /\ \A q \in DOMAIN dicc : Sin(dicc', r)[q] = dicc[q]
      BY <1>3, <1>6 DEF Sin
    <3>2. QED
      BY <1>2, <3>1, PlantadoMismo
  <2>2. tabla \in [Indices -> NodoTipo]
    BY <1>0 DEF SacTipo
  <2>3. \A j \in Indices : Iguales(tabla, SinNodo(tabla, i), j)
    BY <1>4, <2>2, SinNodoIgual
  <2>4. QED
    BY <1>5, <2>1, <2>3, PlantadoIgual
<1>10. Nodo(c)' = i /\ Ruta(c)' = r
  BY <1>0, <1>3, <1>5 DEF Nodo, Ruta, SacTipo, LocalTipo
<1>11. EsDir(Front(r))' /\ dicc'[Front(r)] # i /\ EnDicc(c)'
  <2>1. dicc'[Front(r)] = dicc[Front(r)] /\ Front(r) \in DOMAIN dicc'
    BY <1>6, <1>7
  <2>2. EsDir(Front(r))'
    BY <1>5, <1>7, <2>1 DEF EsDir
  <2>3. EnDicc(c)'
    BY <1>6, <1>10 DEF EnDicc
  <2>4. QED
    BY <1>8, <2>1, <2>2, <2>3
<1>12. Naciendo(c)'
  BY <1>4, <1>5, <1>6, <1>8, <1>9, <1>10, <1>11 DEF Naciendo
<1>13. "marcar" \in DeNacer
  BY DEF DeNacer
<1>14. QED
  BY <1>0, <1>5, <1>12, <1>13, SigueNaciendo

(* A step of the creation that writes to the node, or looks for its father. *)
LEMMA NaceArbolPaso ==
  ASSUME UnMontaje, BloquesInv, ArbolInv, NEW c \in Conexiones, pc[c] \in DeNacer,
         NEW punto \in DeNacer, punto # "marcar", Ir(c, punto), dicc' = dicc, tabla' \in [Indices -> NodoTipo],
         \A j \in Indices : j # Nodo(c) => tabla'[j] = tabla[j],
         local'[c].nodo = Nodo(c),
         tabla'[Nodo(c)].estado = Tipo(c),
         punto \in {"nombrar", "apadrinar"} => local'[c].padre = dicc[Front(Ruta(c))],
         punto = "apadrinar" => tabla'[Nodo(c)].nombre = Last(Ruta(c))
  PROVE  ArbolInv'
<1>0. SacTipo /\ Naciendo(c) /\ Nodo(c) \in Indices \ {0}
  BY NaciendoDe
<1>1. PICK r, i : r = Ruta(c) /\ i = Nodo(c) /\ i \in Indices
  BY <1>0
<1>2. pc'[c] = punto /\ pedido' = pedido
  BY <1>0 DEF Ir, SacTipo
<1>3. Nodo(c)' = i /\ Ruta(c)' = r /\ Tipo(c)' = Tipo(c)
  BY <1>1, <1>2 DEF Nodo, Ruta, Tipo
<1>4. /\ r \in DOMAIN dicc /\ dicc[r] = i /\ i # 0
      /\ EsDir(Front(r)) /\ dicc[Front(r)] # i
      /\ Plantado(Sin(dicc, r), SinNodo(tabla, i))
  BY <1>0, <1>1 DEF Naciendo, EnDicc
<1>5. EsDir(Front(r))'
  <2>1. Front(r) \in DOMAIN dicc /\ dicc[Front(r)] \in Indices /\ tabla[dicc[Front(r)]].estado = 2
    BY <1>0, <1>4 DEF EsDir, SacTipo
  <2>2. tabla'[dicc[Front(r)]] = tabla[dicc[Front(r)]]
    BY <1>1, <1>4, <2>1
  <2>3. QED
    BY <2>1, <2>2 DEF EsDir
<1>6. Plantado(Sin(dicc', r), SinNodo(tabla', i))
  <2>1. tabla \in [Indices -> NodoTipo]
    BY <1>0 DEF SacTipo
  <2>2. \A j \in Indices : Iguales(SinNodo(tabla, i), SinNodo(tabla', i), j)
    BY <1>1, <2>1, SinNodoIgual
  <2>3. QED
    BY <1>4, <2>2, PlantadoIgual
<1>7. EnDicc(c)'
  BY <1>3, <1>4 DEF EnDicc
<1>8. Naciendo(c)'
  BY <1>1, <1>2, <1>3, <1>4, <1>5, <1>6, <1>7 DEF Naciendo
<1>9. QED
  BY <1>0, <1>8, SigueNaciendo

LEMMA NacerArbol ==
  ASSUME Hipotesis, BloquesInv, ArbolInv, NEW c \in Conexiones,
         MarcarNodo(c) \/ BuscarPadre(c) \/ NombrarNodo(c)
  PROVE  ArbolInv'
<1>0. UnMontaje /\ pc[c] \in DeNacer
  BY DEF Hipotesis, MarcarNodo, BuscarPadre, NombrarNodo, Esta, DeNacer
<1>1. SacTipo /\ Naciendo(c) /\ Nodo(c) \in Indices \ {0} /\ tabla \in [Indices -> NodoTipo]
  BY <1>0, NaciendoDe DEF SacTipo
<1>2. CASE MarcarNodo(c)
  <2>1. PICK i \in Indices, e \in 0..2 : i = Nodo(c) /\ e = Tipo(c) /\ tabla' = [tabla EXCEPT ![i].estado = e]
    <3>1. Tipo(c) \in 0..2
      BY DEF Tipo
    <3>2. QED
      BY <1>1, <1>2, <3>1 DEF MarcarNodo
  <2>2. tabla' \in [Indices -> NodoTipo] /\ tabla'[i].estado = e /\ \A j \in Indices : j # i => tabla'[j] = tabla[j]
    BY <1>1, <2>1 DEF NodoTipo
  <2>3. Ir(c, "buscar_padre") /\ dicc' = dicc /\ local' = local
    BY <1>2 DEF MarcarNodo, enMemoria
  <2>4. "buscar_padre" \in DeNacer
    BY DEF DeNacer
  <2>5. local'[c].nodo = Nodo(c)
    BY <2>3 DEF Nodo
  <2>6. QED
    BY <1>0, <2>1, <2>2, <2>3, <2>4, <2>5, NaceArbolPaso
<1>3. CASE BuscarPadre(c)
  <2>1. pc[c] = "buscar_padre" /\ Ir(c, "nombrar") /\ dicc' = dicc /\ tabla' = tabla
        /\ local' = [local EXCEPT ![c].padre = Saca(Front(Ruta(c)))]
    BY <1>3 DEF BuscarPadre, Esta, PathPadre, discoVars, enDisco, enMemoria
  <2>2. Saca(Front(Ruta(c))) = dicc[Front(Ruta(c))]
    BY <1>1 DEF Naciendo, EsDir, Saca
  <2>3. local'[c].padre = dicc[Front(Ruta(c))] /\ local'[c].nodo = Nodo(c)
    BY <1>1, <2>1, <2>2 DEF SacTipo, LocalTipo, Nodo
  <2>4. tabla[Nodo(c)].estado = Tipo(c)
    BY <1>1, <2>1 DEF Naciendo
  <2>5. "nombrar" \in DeNacer
    BY DEF DeNacer
  <2>6. QED
    BY <1>0, <1>1, <2>1, <2>3, <2>4, <2>5, NaceArbolPaso
<1>4. CASE NombrarNodo(c)
  <2>1. pc[c] = "nombrar" /\ Ir(c, "apadrinar") /\ dicc' = dicc /\ local' = local
        /\ tabla' = [tabla EXCEPT ![Nodo(c)].nombre = Last(Ruta(c))]
    BY <1>4 DEF NombrarNodo, Esta, ElNombre, enMemoria
  <2>2. tabla' \in [Indices -> NodoTipo]
    BY <1>4, CrearNodoInv DEF BloquesInv, SacTipo
  <2>3. tabla[Nodo(c)].estado = Tipo(c) /\ local[c].padre = dicc[Front(Ruta(c))]
    BY <1>1, <2>1 DEF Naciendo
  <2>4. PICK i, n : i \in Indices /\ i = Nodo(c) /\ n = Last(Ruta(c))
    BY <1>1
  <2>5. tabla'[i].estado = tabla[i].estado /\ tabla'[i].nombre = n /\ \A j \in Indices : j # i => tabla'[j] = tabla[j]
    BY <1>1, <2>1, <2>4 DEF NodoTipo
  <2>6. local'[c].nodo = Nodo(c) /\ "apadrinar" \in DeNacer
    BY <2>1 DEF Nodo, DeNacer
  <2>7. QED
    BY <1>0, <2>1, <2>2, <2>3, <2>4, <2>5, <2>6, NaceArbolPaso
<1>5. QED
  BY <1>2, <1>3, <1>4

(* The father of the new node is written: it is in the tree. *)
LEMMA ApadrinarArbol ==
  ASSUME Hipotesis, BloquesInv, ArbolInv, NEW c \in Conexiones, pc[c] = "apadrinar", ApadrinarNodo(c)
  PROVE  ArbolInv'
<1>0. UnMontaje /\ pc[c] \in DeNacer
  BY DEF Hipotesis, DeNacer
<1>1. SacTipo /\ Naciendo(c) /\ pedido[c] # Nada /\ pedido[c].op \in {"MKNOD", "MKDIR", "OPEN"}
  BY <1>0, NaciendoDe
<1>2. PICK r \in Seq(LosNombres), i \in Indices \ {0} : r = Ruta(c) /\ i = Nodo(c) /\ r # <<>>
  BY <1>0, <1>1, NombresDePedido, NaciendoDe
<1>3. /\ r \in DOMAIN dicc /\ dicc[r] = i /\ EsDir(Front(r)) /\ dicc[Front(r)] # i
      /\ Plantado(Sin(dicc, r), SinNodo(tabla, i))
      /\ tabla[i].estado # 0 /\ local[c].padre = dicc[Front(r)] /\ tabla[i].nombre = Last(r)
  BY <1>1, <1>2 DEF Naciendo, EnDicc, Tipo
<1>4. PICK k \in Indices : k = dicc[Front(r)] /\ Front(r) \in DOMAIN dicc /\ tabla[k].estado = 2 /\ k # i /\ Front(r) # r
  BY <1>1, <1>3 DEF EsDir, SacTipo
<1>5. dicc' = dicc /\ Responder(c, "ok") /\ tabla' = [tabla EXCEPT ![i].padre = BloqueDe(k)]
  BY <1>2, <1>3, <1>4 DEF ApadrinarNodo, BloqueDelPadre, enMemoria
<1>6. /\ tabla \in [Indices -> NodoTipo] /\ \A j \in Indices : j # i => tabla'[j] = tabla[j]
      /\ tabla'[i].padre = BloqueDe(k) /\ tabla'[i].estado = tabla[i].estado /\ tabla'[i].nombre = Last(r)
  <2>1. tabla \in [Indices -> NodoTipo]
    BY <1>1 DEF SacTipo
  <2>2. QED
    BY <1>3, <1>5, <2>1 DEF NodoTipo
<1>7. PICK t : t = SinNodo(tabla, i)
  OBVIOUS
<1>8. t[i].estado = 0 /\ \A j \in Indices : j # i => t[j] = tabla[j]
  BY <1>6, <1>7, SinNodoIgual
<1>9. PICK F : Arbolado(F, t) /\ Da(F, t, Sin(dicc, r))
  BY <1>3, <1>7 DEF Plantado
<1>10. /\ DOMAIN Sin(dicc, r) = DOMAIN dicc \ {r}
       /\ \A q \in DOMAIN dicc \ {r} : Sin(dicc, r)[q] = dicc[q]
  BY DEF Sin
<1>11. k \in UsadosDe(t) /\ t[k].estado = 2 /\ F[k] = Front(r)
  BY <1>4, <1>8, <1>9, <1>10 DEF Da, UsadosDe
<1>12. PICK e \in LosNombres : e = Last(r) /\ r = Append(F[k], e)
  BY <1>2, <1>11, PadreYNombre
<1>13. \A j \in UsadosDe(t) : F[j] # Append(F[k], e)
  BY <1>9, <1>10, <1>12 DEF Da
<1>14. PICK u : u = tabla'
  OBVIOUS
<1>15. u[i].estado # 0 /\ u[i].nombre = e /\ u[i].padre = BloqueDe(k) /\ \A j \in Indices : j # i => Iguales(t, u, j)
  BY <1>3, <1>6, <1>8, <1>12, <1>14 DEF Iguales
<1> DEFINE G == [j \in UsadosDe(u) |-> IF j = i THEN Append(F[k], e) ELSE F[j]]
<1>16. Arbolado(G, u) /\ UsadosDe(u) = UsadosDe(t) \cup {i} /\ i \notin UsadosDe(t)
  BY <1>8, <1>9, <1>11, <1>13, <1>15, NaceArbol
<1>17. G[i] = r /\ \A j \in UsadosDe(t) : G[j] = F[j]
  BY <1>12, <1>16
<1> HIDE DEF G
<1>18. Da(G, u, dicc')
  <2>1. ASSUME NEW j \in UsadosDe(u) PROVE G[j] \in DOMAIN dicc /\ dicc[G[j]] = j
    <3>1. CASE j = i
      BY <1>3, <1>17, <3>1
    <3>2. CASE j # i
      BY <1>9, <1>10, <1>16, <1>17, <3>2 DEF Da
    <3>3. QED
      BY <3>1, <3>2
  <2>2. ASSUME NEW p \in DOMAIN dicc PROVE dicc[p] \in UsadosDe(u) /\ G[dicc[p]] = p
    <3>1. CASE p = r
      BY <1>3, <1>16, <1>17, <3>1
    <3>2. CASE p # r
      BY <1>9, <1>10, <1>16, <1>17, <3>2 DEF Da
    <3>3. QED
      BY <3>1, <3>2
  <2>3. QED
    BY <1>5, <2>1, <2>2 DEF Da
<1>19. Plantado(dicc', tabla')
  BY <1>14, <1>16, <1>18 DEF Plantado
<1>20. QED
  BY <1>0, <1>1, <1>5, <1>19, TerminaArbol DEF Responder

-----------------------------------------------------------------------------
(* A node is removed.                                                        *)

LEMMA NodoMuerto ==
  ASSUME NEW s \in [Indices -> NodoTipo], NEW i \in Indices, NEW w, w = [s EXCEPT ![i].estado = 0, ![i].tamanio = 0]
  PROVE  w[i].estado = 0 /\ \A j \in Indices : j # i => w[j] = s[j]
<1> DEFINE u == [s EXCEPT ![i].estado = 0]
<1>1. u[i].estado = 0 /\ DOMAIN u = Indices /\ DOMAIN u[i] = {"estado", "nombre", "padre", "tamanio", "punteros"}
      /\ \A j \in Indices : j # i => u[j] = s[j]
  BY DEF NodoTipo
<1>2. w = [u EXCEPT ![i] = [u[i] EXCEPT !.tamanio = 0]]
  OBVIOUS
<1> HIDE DEF u
<1>3. [u[i] EXCEPT !.tamanio = 0].estado = 0
  BY <1>1
<1>4. QED
  BY <1>1, <1>2, <1>3

LEMMA SacarArbol ==
  ASSUME UnMontaje, SacTipo, ArbolInv, NEW c \in Conexiones, pc[c] \notin Mudables,
         NEW r \in DOMAIN dicc, NEW i, i = dicc[r], SinHijos(r),
         tabla' = [tabla EXCEPT ![i].estado = 0, ![i].tamanio = 0], dicc' = Sin(dicc, r), Responder(c, "ok")
  PROVE  ArbolInv'
<1>1. tabla \in [Indices -> NodoTipo] /\ i \in Indices
  BY DEF SacTipo
<1>2. PICK u : u = tabla' /\ u[i].estado = 0 /\ \A j \in Indices : j # i => u[j] = tabla[j]
  <2>1. PICK u : u = tabla'
    OBVIOUS
  <2>2. u = [tabla EXCEPT ![i].estado = 0, ![i].tamanio = 0]
    BY <2>1
  <2>3. u[i].estado = 0 /\ \A j \in Indices : j # i => u[j] = tabla[j]
    BY <1>1, <2>2, NodoMuerto
  <2>4. QED
    BY <2>1, <2>3
<1>3. PICK F : Arbolado(F, tabla) /\ Da(F, tabla, dicc)
  BY ArbolDe DEF Plantado
<1>4. i \in UsadosDe(tabla) /\ F[i] = r
  BY <1>3 DEF Da
<1>5. Hoja(F, tabla, i)
  BY <1>3, <1>4 DEF Da, SinHijos, Hoja
<1>6. \A j \in Indices : j # i => Iguales(tabla, u, j)
  BY <1>2 DEF Iguales
<1>7. PICK G : G = [j \in UsadosDe(u) |-> F[j]]
  OBVIOUS
<1>8. Arbolado(G, u) /\ UsadosDe(u) = UsadosDe(tabla) \ {i}
  <2>1. u[i].estado = 0
    BY <1>2
  <2>2. QED
    BY <1>3, <1>4, <1>5, <1>6, <1>7, <2>1, MuereArbol
<1>9. DOMAIN dicc' = DOMAIN dicc \ {r} /\ \A q \in DOMAIN dicc' : dicc'[q] = dicc[q]
  BY DEF Sin
<1>10. Da(G, u, dicc')
  <2>1. ASSUME NEW j \in UsadosDe(u) PROVE G[j] \in DOMAIN dicc' /\ dicc'[G[j]] = j
    BY <1>3, <1>7, <1>8, <1>9 DEF Da
  <2>2. ASSUME NEW p \in DOMAIN dicc' PROVE dicc'[p] \in UsadosDe(u) /\ G[dicc'[p]] = p
    BY <1>3, <1>4, <1>7, <1>8, <1>9 DEF Da
  <2>3. QED
    BY <2>1, <2>2 DEF Da
<1>11. Plantado(dicc', tabla')
  BY <1>2, <1>8, <1>10 DEF Plantado
<1>12. QED
  BY <1>11, TerminaArbol DEF Responder

(* No name is the one that the listing skips. *)
NombresBien == Barra \notin LosNombres /\ ((\E c \in Conexiones : \E r \in Pedibles[c] : r.op = "RENAME") => SinPrefijos)

LEMMA SinEntradas ==
  ASSUME NombresBien, Plantado(dicc, tabla), SacTipo, NEW r \in DOMAIN dicc, Entradas(dicc[r]) = {}
  PROVE  SinHijos(r)
<1>1. SUFFICES ASSUME NEW q \in DOMAIN dicc, q # <<>>, Front(q) = r PROVE FALSE
  BY DEF SinHijos
<1>2. PICK j : j = dicc[q] /\ j \in UsadosDe(tabla) /\ tabla[j].padre = BloqueDe(dicc[r]) /\ tabla[j].nombre \in LosNombres
  BY <1>1, DePlantado
<1>3. tabla[j].nombre # Barra
  BY <1>2 DEF NombresBien
<1>4. j \in Indices /\ tabla[j].estado # 0
  BY <1>2 DEF UsadosDe
<1>5. j \in Entradas(dicc[r])
  BY <1>2, <1>3, <1>4 DEF Entradas
<1>6. QED
  BY <1>5

LEMMA DirectorioArbol ==
  ASSUME Hipotesis, NombresBien, BloquesInv, ArbolInv, NEW c \in Conexiones, Directorio(c)
  PROVE  ArbolInv'
<1>0. UnMontaje /\ SacTipo
  BY DEF Hipotesis, BloquesInv
<1>1. pc[c] \notin Mudables /\ pedido[c] # Nada
  <2>1. pc[c] \in {"libre"} \cup DeListar /\ (pc[c] = "libre" => pedido[c] # Nada)
    BY DEF Directorio, BuscarEntradas, NoHayDirectorio, TomarDirectorio, Listar, EmpezarRmdir, RevisarEntradas,
           BorrarDirectorio, EmpiezaEntradas, Llega, Esta, DeListar
  <2>2. pc[c] # "colgado" /\ (pc[c] # "libre" => pedido[c] # Nada)
    BY <2>1, PedidoDe DEF DeListar
  <2>3. QED
    BY <2>1, <2>2, PuntosMudables
<1>2. Vio(c) /\ Sabe(c, pc[c], Nodo(c)) /\ Plantado(dicc, tabla)
  BY <1>0, <1>1, ArbolDe
<1>3. CASE UNCHANGED discoVars /\ \E r : Responder(c, r)
  BY <1>0, <1>1, <1>3, QuietoArbol
<1>4. CASE UNCHANGED discoVars /\ \E punto \in {"entradas", "tomar_directorio"} : Ir(c, punto)
  <2>1. PICK punto \in {"entradas", "tomar_directorio"} : Ir(c, punto)
    BY <1>4
  <2>2. punto \notin Mudables /\ punto \notin DeSaber
    BY DEF Mudables, DeNacer, DeRenombrar, DeSaber, DeLimpiar
  <2>3. QED
    BY <1>0, <1>1, <1>4, <2>1, <2>2, SabePoco, QuietoArbol
<1>5. CASE TomarDirectorio(c)
  <2>1. UNCHANGED discoVars /\ Ir(c, "listar") /\ local'[c].nodo = Saca(Ruta(c)) /\ "listar" \notin Mudables
    BY <1>0, <1>5 DEF TomarDirectorio, SacTipo, LocalTipo, Mudables, DeNacer, DeRenombrar
  <2>2. Sabe(c, "listar", local'[c].nodo)
    BY <1>2, <2>1 DEF Sabe, Vio, EsDir, Saca, DeLimpiar
  <2>3. QED
    BY <1>0, <1>1, <2>1, <2>2, QuietoArbol
<1>6. CASE RevisarEntradas(c) /\ Ir(c, "borrar_directorio")
  <2>1. pc[c] = "listar" /\ pedido[c].op = "RMDIR" /\ UNCHANGED discoVars /\ "borrar_directorio" \notin Mudables
    BY <1>6 DEF RevisarEntradas, Esta, Mudables, DeNacer, DeRenombrar
  <2>2. Nodo(c) = dicc[Ruta(c)] /\ Ruta(c) \in DOMAIN dicc
    BY <1>2, <2>1 DEF Sabe, Vio, EsDir
  <2>3. CASE Entradas(Nodo(c)) = {}
    <3>1. SinHijos(Ruta(c))
      BY <1>0, <1>2, <2>2, <2>3, SinEntradas
    <3>2. Sabe(c, "borrar_directorio", local'[c].nodo)
      BY <2>1, <3>1 DEF Sabe, DeLimpiar
    <3>3. QED
      BY <1>0, <1>1, <1>6, <2>1, <3>2, QuietoArbol
  <2>4. QED
    BY <1>3, <1>6, <2>1, <2>3 DEF RevisarEntradas
<1>7. CASE BorrarDirectorio(c)
  <2>1. pc[c] = "borrar_directorio"
    BY <1>7 DEF BorrarDirectorio, Esta
  <2>2. PICK r : r = Ruta(c)
    OBVIOUS
  <2>3. SinHijos(r) /\ r \in DOMAIN dicc
    BY <1>2, <2>1, <2>2 DEF Sabe, Vio, EsDir
  <2>4. PICK i : i = dicc[r] /\ i = Saca(r)
    BY <2>3 DEF Saca
  <2>5. tabla' = [tabla EXCEPT ![i].estado = 0, ![i].tamanio = 0] /\ dicc' = Sin(dicc, r) /\ Responder(c, "ok")
    BY <1>7, <2>2, <2>4 DEF BorrarDirectorio
  <2>6. QED
    BY <1>0, <1>1, <2>3, <2>4, <2>5, SacarArbol
<1>8. NoHayDirectorio(c) => UNCHANGED discoVars /\ \E r : Responder(c, r)
  <2>1. pedido[c].op # "RMDIR" \/ EnDicc(c)
    BY <1>2 DEF Vio, EsDir, EnDicc
  <2>2. QED
    BY <2>1 DEF NoHayDirectorio
<1>9. QED
  BY <1>3, <1>4, <1>5, <1>6, <1>7, <1>8
     DEF Directorio, BuscarEntradas, Listar, EmpezarRmdir, RevisarEntradas

-----------------------------------------------------------------------------
(* The requests on the data leave the tree as it is, until a file is removed. *)

LEMMA PuntosDeDatos ==
  /\ \A punto \in DeEscribir \cup {"desasignar", "vaciar", "soltar", "desapuntar"} :
       punto \notin Mudables /\ punto \notin DeSaber
  /\ \A punto \in DeLimpiar \cup {"tomar_unlink"} : punto \notin Mudables
  /\ "tomar_unlink" \notin DeLimpiar
  BY DEF Mudables, DeNacer, DeRenombrar, DeSaber, DeLimpiar, DeEscribir

LEMMA DatosSirve ==
  ASSUME BloquesInv, ArbolInv, UnMontaje, NEW c \in Conexiones,
         pc[c] \in DeEscribir \cup DeVaciar \cup {"con_nodo", "tomar_unlink"}
  PROVE  /\ pc[c] \notin Mudables /\ pedido[c] # Nada /\ SacTipo
         /\ pc[c] # "tomar_unlink" => Nodo(c) \in Indices
         /\ Vio(c) /\ Sabe(c, pc[c], Nodo(c)) /\ Plantado(dicc, tabla)
<1>1. pc[c] \notin Mudables /\ pc[c] \notin {"libre", "colgado"}
  BY PuntosMudables DEF DeBuscar, DeEscribir, DeVaciar
<1>2. pedido[c] # Nada
  BY <1>1, PedidoDe
<1>3. SacTipo /\ (pc[c] # "tomar_unlink" => Nodo(c) \in Indices)
  BY DEF BloquesInv, Sirve
<1>4. QED
  BY <1>1, <1>2, <1>3, ArbolDe

LEMMA WriteArbol ==
  ASSUME UnMontaje, BloquesInv, ArbolInv, NEW c \in Conexiones, Write(c) \/ Truncate(c)
  PROVE  ArbolInv'
<1>1. pc[c] \in DeEscribir \cup DeVaciar \cup {"con_nodo"}
  BY DEF Write, Truncate, TomarBPD, ApuntarBPD, HayBPD, TomarDato, ApuntarDato, SinBloques, EscribirBytes,
         FaltaBPD, FaltaDato, EmpezarTruncate, NoTruncar, VaciarDato, VaciarPuntero, SoltarBloque, DesapuntarBloque,
         TerminarTruncate, Vaciando, Esta, DeEscribir, DeVaciar
<1>2. pc[c] \notin Mudables /\ pedido[c] # Nada /\ SacTipo /\ Nodo(c) \in Indices
  <2>1. pc[c] # "tomar_unlink"
    BY <1>1 DEF DeEscribir, DeVaciar
  <2>2. QED
    BY <1>1, <2>1, DatosSirve
<1>3. PICK i \in Indices : i = Nodo(c)
  BY <1>2
<1>4. Mismo
  <2>1. \/ tabla' = tabla
        \/ \E p, b : tabla' = [tabla EXCEPT ![i].punteros[p] = b]
        \/ \E m : tabla' = [tabla EXCEPT ![i].tamanio = m]
    BY <1>3 DEF Write, Truncate, TomarBPD, ApuntarBPD, HayBPD, TomarDato, ApuntarDato, SinBloques, EscribirBytes,
           EmpezarTruncate, NoTruncar, VaciarDato, VaciarPuntero, SoltarBloque, DesapuntarBloque, TerminarTruncate,
           Apuntar, discoVars, enDisco
  <2>2. dicc' = dicc
    BY DEF Write, Truncate, TomarBPD, ApuntarBPD, HayBPD, TomarDato, ApuntarDato, SinBloques, EscribirBytes,
           EmpezarTruncate, NoTruncar, VaciarDato, VaciarPuntero, SoltarBloque, DesapuntarBloque, TerminarTruncate,
           discoVars, enMemoria
  <2>3. QED
    BY <1>2, <2>1, <2>2, MismoDe
<1>5. CASE \E punto \in DeEscribir \cup {"desasignar", "vaciar", "soltar", "desapuntar"} : Ir(c, punto)
  <2>1. PICK punto \in DeEscribir \cup {"desasignar", "vaciar", "soltar", "desapuntar"} : Ir(c, punto)
    BY <1>5
  <2>2. QED
    BY <1>2, <1>4, <2>1, PuntosDeDatos, SabePoco, SigueArbol
<1>6. CASE \E r : Responder(c, r) \/ Callar(c)
  BY <1>2, <1>4, <1>6, RespondeArbol DEF Responder, Callar
<1>7. QED
  BY <1>5, <1>6
     DEF Write, Truncate, TomarBPD, ApuntarBPD, HayBPD, TomarDato, ApuntarDato, SinBloques, EscribirBytes,
         EmpezarTruncate, NoTruncar, VaciarDato, VaciarPuntero, SoltarBloque, DesapuntarBloque, TerminarTruncate,
         DeEscribir

LEMMA UnlinkArbol ==
  ASSUME UnMontaje, BloquesInv, ArbolInv, NEW c \in Conexiones, Unlink(c)
  PROVE  ArbolInv'
<1>0. SacTipo
  BY DEF BloquesInv
<1>1. CASE EmpezarUnlink(c)
  <2>1. pc[c] = "libre" /\ pedido[c] # Nada /\ pedido[c].op = "UNLINK" /\ UNCHANGED discoVars /\ pc[c] \notin Mudables
    BY <1>1, PuntosMudables DEF EmpezarUnlink, Llega
  <2>2. CASE Ir(c, "tomar_unlink")
    <3>1. Sabe(c, "tomar_unlink", local'[c].nodo)
      BY <2>1, PuntosDeDatos DEF Sabe
    <3>2. QED
      BY <1>0, <2>1, <2>2, <3>1, PuntosDeDatos, QuietoArbol
  <2>3. QED
    BY <1>0, <1>1, <2>1, <2>2, QuietoArbol DEF EmpezarUnlink
<1>2. CASE TomarUnlink(c)
  <2>1. pc[c] = "tomar_unlink" /\ Ir(c, "limpiar") /\ tabla' = tabla /\ dicc' = dicc
    BY <1>2 DEF TomarUnlink, Esta, enDisco
  <2>2. pc[c] \notin Mudables /\ pedido[c] # Nada /\ Vio(c) /\ Sabe(c, "tomar_unlink", Nodo(c))
    BY <2>1, DatosSirve
  <2>3. local'[c].nodo = Saca(Ruta(c))
    BY <1>0, <1>2 DEF TomarUnlink, SacTipo, LocalTipo
  <2>4. "limpiar" \in DeLimpiar
    BY DEF DeLimpiar
  <2>5. Sabe(c, "limpiar", local'[c].nodo)
    BY <2>2, <2>3 DEF Sabe, Vio, EnDicc, Saca
  <2>6. QED
    BY <1>0, <2>1, <2>2, <2>4, <2>5, PuntosDeDatos, MismoDe, SigueArbol
<1>3. ASSUME pc[c] \in DeLimpiar
      PROVE  /\ pc[c] \notin Mudables /\ pedido[c] # Nada /\ Nodo(c) \in Indices /\ Vio(c) /\ Plantado(dicc, tabla)
             /\ pedido[c].op = "UNLINK" /\ Nodo(c) = dicc[Ruta(c)]
  <2>1. pc[c] \in DeVaciar /\ pc[c] # "tomar_unlink"
    BY <1>3 DEF DeLimpiar, DeVaciar
  <2>2. QED
    BY <1>3, <2>1, DatosSirve DEF Sabe
<1>4. CASE LimpiarSuelta(c) \/ LimpiarDato(c) \/ LimpiarPuntero(c)
  <2>1. pc[c] \in DeLimpiar
    BY <1>4 DEF LimpiarSuelta, LimpiarDato, LimpiarPuntero, Vaciando, Esta, DeLimpiar
  <2>2. PICK punto \in DeLimpiar : Ir(c, punto)
    BY <1>4 DEF LimpiarSuelta, LimpiarDato, LimpiarPuntero, DeLimpiar
  <2>3. local'[c].nodo = Nodo(c)
    BY <1>0, <1>4 DEF LimpiarSuelta, LimpiarDato, LimpiarPuntero, Avanzar, SacTipo, LocalTipo, Nodo
  <2>4. PICK i \in Indices : i = Nodo(c)
    BY <1>3, <2>1
  <2>5. /\ tabla' = tabla \/ \E p, b : tabla' = [tabla EXCEPT ![i].punteros[p] = b]
        /\ dicc' = dicc
    BY <1>4, <2>4 DEF LimpiarSuelta, LimpiarDato, LimpiarPuntero, Apuntar, enDisco, enMemoria
  <2>6. Mismo
    BY <1>0, <2>5, MismoDe
  <2>7. Sabe(c, punto, local'[c].nodo)
    BY <1>3, <2>1, <2>3 DEF Sabe, DeLimpiar
  <2>8. QED
    BY <1>0, <1>3, <2>1, <2>2, <2>6, <2>7, PuntosDeDatos, SigueArbol
<1>5. CASE TerminarUnlink(c)
  <2>1. pc[c] \in DeLimpiar
    BY <1>5 DEF TerminarUnlink, Esta, DeLimpiar
  <2>2. PICK r, i : r = Ruta(c) /\ i = Nodo(c)
    OBVIOUS
  <2>3. r \in DOMAIN dicc /\ i = dicc[r] /\ tabla[i].estado = 1 /\ pc[c] \notin Mudables
    BY <1>3, <2>1, <2>2 DEF Vio, EnDicc
  <2>4. SinHijos(r)
    <3>1. ASSUME NEW q \in DOMAIN dicc, q # <<>>, Front(q) = r PROVE FALSE
      <4>1. tabla[dicc[r]].estado = 2
        BY <1>3, <2>1, <3>1, DePlantado
      <4>2. QED
        BY <2>3, <4>1
    <3>2. QED
      BY <3>1 DEF SinHijos
  <2>5. tabla' = [tabla EXCEPT ![i].estado = 0, ![i].tamanio = 0] /\ dicc' = Sin(dicc, r) /\ Responder(c, "ok")
    BY <1>5, <2>2 DEF TerminarUnlink
  <2>6. QED
    BY <1>0, <2>3, <2>4, <2>5, SacarArbol
<1>6. QED
  BY <1>1, <1>2, <1>4, <1>5 DEF Unlink

-----------------------------------------------------------------------------
(* A node is renamed.                                                        *)

LEMMA SigueMudando ==
  ASSUME UnMontaje, SacTipo, NEW c \in Conexiones, NEW punto \in DeRenombrar, Ir(c, punto), Mudando(c)'
  PROVE  ArbolInv'
<1>1. pc'[c] = punto /\ (\A d \in Conexiones : d = c) /\ punto \in Mudables /\ punto \notin DeNacer
  BY DEF SacTipo, Ir, UnMontaje, Mudables, DeNacer, DeRenombrar
<1>2. QED
  BY <1>1 DEF ArbolInv

(* The node gets the name that it will have. *)
LEMMA RenombrarArbol ==
  ASSUME Hipotesis, NombresBien, BloquesInv, ArbolInv, NEW c \in Conexiones, Renombrar(c)
  PROVE  ArbolInv'
<1>0. UnMontaje /\ SacTipo
  BY DEF Hipotesis, BloquesInv
<1>1. pc[c] = "con_nodo" /\ pedido[c].op = "RENAME"
  BY DEF Renombrar, Esta
<1>2. /\ pedido[c] # Nada /\ pc[c] \notin Mudables
      /\ Vio(c) /\ Sabe(c, "con_nodo", Nodo(c)) /\ Plantado(dicc, tabla)
  BY <1>0, <1>1, DatosSirve
<1>3. PICK v, n, i : /\ v = Ruta(c) /\ n = pedido[c].destino /\ i = Nodo(c)
                     /\ n \in Seq(LosNombres) /\ n # <<>> /\ v # <<>>
  BY <1>1, <1>2, NombresDePedido
<1>4. /\ v \in DOMAIN dicc /\ i = dicc[v] /\ Front(n) \in DOMAIN dicc /\ tabla[dicc[Front(n)]].estado = 2
      /\ ~IsPrefix(v, n) /\ ~IsPrefix(n, v)
  BY <1>1, <1>2, <1>3 DEF Vio, Sabe, EnDicc, EsDir
<1>5. /\ tabla' = [tabla EXCEPT ![i].nombre = Last(n)] /\ n \notin DOMAIN dicc
      /\ Ir(c, "cambiar_clave") /\ dicc' = dicc /\ local' = local /\ pedido' = pedido /\ pc'[c] = "cambiar_clave"
  BY <1>0, <1>3 DEF Renombrar, ElNombre, enMemoria, Ir, SacTipo
<1>6. v \in Seq(LosNombres) /\ i \in UsadosDe(tabla) \ {0} /\ i \in Indices /\ DOMAIN dicc \subseteq Seq(LosNombres)
  BY <1>2, <1>3, <1>4, DePlantado DEF UsadosDe
<1>7. PICK F : Arbolado(F, tabla) /\ Da(F, tabla, dicc)
  BY <1>2 DEF Plantado
<1>8. PICK k : k = dicc[Front(n)] /\ k \in UsadosDe(tabla) /\ F[k] = Front(n) /\ tabla[k].estado = 2
  BY <1>4, <1>7 DEF Da
<1>9. F[i] = v /\ \A j \in UsadosDe(tabla) : F[j] # n
  BY <1>4, <1>5, <1>7 DEF Da
<1>10. PICK w : w = tabla'
  OBVIOUS
<1>11. PICK u : u = [w EXCEPT ![i].padre = BloqueDe(k)]
  OBVIOUS
<1>12. /\ u[i].estado = tabla[i].estado /\ u[i].nombre = Last(n) /\ u[i].padre = BloqueDe(k)
       /\ \A j \in Indices : j # i => Iguales(tabla, u, j)
  <2>1. tabla \in [Indices -> NodoTipo]
    BY <1>0 DEF SacTipo
  <2>2. w = [tabla EXCEPT ![i].nombre = Last(n)]
    BY <1>5, <1>10
  <2>3. /\ w[i].estado = tabla[i].estado /\ w[i].nombre = Last(n) /\ \A j \in Indices : j # i => w[j] = tabla[j]
        /\ DOMAIN w = Indices /\ DOMAIN w[i] = {"estado", "nombre", "padre", "tamanio", "punteros"}
    BY <1>6, <2>1, <2>2 DEF NodoTipo
  <2>4. /\ u[i].estado = w[i].estado /\ u[i].nombre = w[i].nombre /\ u[i].padre = BloqueDe(k)
        /\ \A j \in Indices : j # i => u[j] = w[j]
    BY <1>6, <1>11, <2>3
  <2>5. QED
    BY <2>3, <2>4 DEF Iguales
<1>13. PICK M : M = [j \in UsadosDe(u) |-> Traslada(F[j], v, n)]
  OBVIOUS
<1>14. Arbolado(M, u) /\ UsadosDe(u) = UsadosDe(tabla) /\ M[i] = n
  <2>1. ~IsPrefix(F[i], n)
    BY <1>4, <1>9
  <2>2. QED
    BY <1>3, <1>6, <1>7, <1>8, <1>9, <1>12, <1>13, <2>1, MudaArbol
<1>15. Mudo(M, u, dicc, v, n)
  <2>1. ASSUME NEW p \in DOMAIN dicc PROVE dicc[p] \in UsadosDe(u) /\ M[dicc[p]] = Traslada(p, v, n)
    BY <1>7, <1>13, <1>14 DEF Da
  <2>2. ASSUME NEW j \in UsadosDe(u) PROVE \E p \in DOMAIN dicc : dicc[p] = j
    BY <1>7, <1>14 DEF Da
  <2>3. QED
    BY <1>6, <2>1, <2>2 DEF Mudo
<1>16. /\ Nodo(c)' = i /\ Ruta(c)' = v /\ pedido'[c].destino = n
  BY <1>3, <1>5 DEF Nodo, Ruta
<1>17. Mudada(c)' = u
  <2>1. PadreNuevo(c)' = k
    BY <1>5, <1>8, <1>16 DEF PadreNuevo
  <2>2. QED
    BY <1>10, <1>11, <1>16, <2>1 DEF Mudada
<1>18. EnDicc(c)' /\ dicc'[v] = i /\ Front(n) \in DOMAIN dicc'
  BY <1>4, <1>5, <1>16 DEF EnDicc
<1>19. i \in UsadosDe(u) /\ Mudo(M, u, dicc', v, n)
  BY <1>5, <1>6, <1>14, <1>15
<1>20. Mudando(c)'
  BY <1>4, <1>5, <1>6, <1>14, <1>16, <1>17, <1>18, <1>19 DEF Mudando
<1>21. "cambiar_clave" \in DeRenombrar
  BY DEF DeRenombrar
<1>22. QED
  BY <1>0, <1>5, <1>20, <1>21, SigueMudando

(* The key r, under the old path v, goes to its place m under the new one n. *)
Pasa(d, r, m, e, v, n) ==
  /\ r \in DOMAIN d /\ IsPrefix(v, r) /\ ~IsPrefix(v, n) /\ ~IsPrefix(n, v) /\ m = Traslada(r, v, n)
  /\ DOMAIN e = (DOMAIN d \ {r}) \cup {m} /\ e[m] = d[r]
  /\ \A q \in DOMAIN d \ {r} : q # m => e[q] = d[q]

LEMMA MudaClave ==
  ASSUME NEW M, NEW t, Arbolado(M, t), NEW d, NEW v \in Seq(LosNombres), NEW n \in Seq(LosNombres),
         Mudo(M, t, d, v, n), NEW r, NEW m, NEW e, Pasa(d, r, m, e, v, n)
  PROVE  Mudo(M, t, e, v, n)
<1>0. /\ r \in DOMAIN d /\ IsPrefix(v, r) /\ ~IsPrefix(v, n) /\ ~IsPrefix(n, v) /\ m = Traslada(r, v, n)
      /\ DOMAIN e = (DOMAIN d \ {r}) \cup {m} /\ e[m] = d[r]
      /\ \A q \in DOMAIN d \ {r} : q # m => e[q] = d[q]
  BY DEF Pasa
<1>1. r \in Seq(LosNombres) /\ DOMAIN d \subseteq Seq(LosNombres)
  BY <1>0 DEF Mudo
<1>2. m \in Seq(LosNombres)
  BY <1>0, <1>1, TrasladaTipo
<1>3. ~IsPrefix(v, m) /\ Traslada(m, v, n) = m
  BY <1>0, <1>1, RutaQueNoSeMueve
<1>4. M[d[r]] = m /\ d[r] \in UsadosDe(t)
  BY <1>0 DEF Mudo
<1>5. m \in DOMAIN d => d[m] = d[r]
  <2>1. ASSUME m \in DOMAIN d PROVE d[m] = d[r]
    <3>1. M[d[m]] = m /\ d[m] \in UsadosDe(t)
      BY <1>3, <2>1 DEF Mudo
    <3>2. QED
      BY <1>4, <3>1 DEF Arbolado
  <2>2. QED
    BY <2>1
<1>6. ASSUME NEW q \in DOMAIN e PROVE e[q] \in UsadosDe(t) /\ M[e[q]] = Traslada(q, v, n)
  <2>1. CASE q = m
    BY <1>0, <1>3, <1>4, <2>1
  <2>2. CASE q # m
    <3>1. q \in DOMAIN d /\ e[q] = d[q]
      BY <1>0, <2>2
    <3>2. QED
      BY <3>1 DEF Mudo
  <2>3. QED
    BY <2>1, <2>2
<1>7. ASSUME NEW j \in UsadosDe(t) PROVE \E q \in DOMAIN e : e[q] = j
  <2>1. PICK p \in DOMAIN d : d[p] = j
    BY DEF Mudo
  <2>2. CASE p \in {r, m}
    BY <1>0, <1>5, <2>1, <2>2
  <2>3. CASE p \notin {r, m}
    BY <1>0, <2>1, <2>3
  <2>4. QED
    BY <2>2, <2>3
<1>8. DOMAIN e \subseteq Seq(LosNombres)
  BY <1>0, <1>1, <1>2
<1>9. QED
  BY <1>6, <1>7, <1>8 DEF Mudo

LEMMA MudandoDe ==
  ASSUME Hipotesis, NombresBien, BloquesInv, ArbolInv, NEW c \in Conexiones, pc[c] \in DeRenombrar
  PROVE  /\ UnMontaje /\ SacTipo /\ Mudando(c) /\ SinPrefijos /\ pedido[c] # Nada
         /\ Ruta(c) \in Seq(LosNombres) /\ Ruta(c) # <<>>
         /\ pedido[c].destino \in Seq(LosNombres) /\ pedido[c].destino # <<>>
<1>1. pc[c] \notin {"libre", "colgado"}
  BY DEF DeRenombrar
<1>2. pedido[c].op = "RENAME" /\ pedido[c] # Nada /\ pedido[c] \in Pedibles[c]
  BY <1>1, PedidoDe DEF BloquesInv, Sirve
<1>3. SinPrefijos
  BY <1>2 DEF NombresBien
<1>4. QED
  BY <1>2, <1>3, NombresDePedido DEF Hipotesis, BloquesInv, ArbolInv, Mudando

(* A file has no keys under its own. *)
LEMMA ClavesDeArchivo ==
  ASSUME NEW M, NEW t, Arbolado(M, t), NEW d, NEW v \in Seq(LosNombres), NEW n \in Seq(LosNombres),
         Mudo(M, t, d, v, n), NEW i \in UsadosDe(t), M[i] = n, t[i].estado # 2, v \notin DOMAIN d
  PROVE  \A q \in DOMAIN d : ~IsPrefix(v, q)
<1> SUFFICES ASSUME NEW q \in DOMAIN d, IsPrefix(v, q) PROVE FALSE
  OBVIOUS
<1>1. q \in Seq(LosNombres) /\ q # v
  BY DEF Mudo
<1>2. PICK j \in UsadosDe(t) : M[j] = Traslada(q, v, n)
  BY DEF Mudo
<1>3. PICK s \in Seq(LosNombres) : s = SubSeq(q, Len(v) + 1, Len(q)) /\ q = v \o s /\ M[j] = n \o s
  BY <1>1, <1>2, Resto DEF Traslada
<1>4. s # <<>>
  <2>1. v \o <<>> = v
    BY ConcatEmptySeq
  <2>2. QED
    BY <1>1, <1>3, <2>1
<1>5. Len(s) \in Nat \ {0} /\ Len(n) \in Nat
  BY <1>4, EmptySeq
<1>6. Len(n \o s) = Len(n) + Len(s) /\ SubSeq(n \o s, 1, Len(n)) = n
  BY ConcatProperties, <1>5
<1>7. Len(n) \in 0..Len(M[j]) /\ Len(n) < Len(M[j])
  BY <1>3, <1>5, <1>6
<1>8. PICK h \in UsadosDe(t) : M[h] = SubSeq(M[j], 1, Len(n)) /\ t[h].estado = 2
  BY <1>7, Ancestros
<1>9. h = i
  BY <1>3, <1>6, <1>8 DEF Arbolado
<1>10. QED
  BY <1>8, <1>9

LEMMA CambiarClaveArbol ==
  ASSUME Hipotesis, NombresBien, BloquesInv, ArbolInv, NEW c \in Conexiones, CambiarClave(c)
  PROVE  ArbolInv'
<1>0. pc[c] = "cambiar_clave" /\ pc[c] \in DeRenombrar
  BY DEF CambiarClave, Esta, DeRenombrar
<1>1. UnMontaje /\ SacTipo /\ Mudando(c) /\ SinPrefijos
  BY <1>0, MudandoDe
<1>2. PICK v, n, i : /\ v = Ruta(c) /\ n = pedido[c].destino /\ i = Nodo(c)
                     /\ v \in Seq(LosNombres) /\ v # <<>> /\ n \in Seq(LosNombres) /\ n # <<>>
  BY <1>0, MudandoDe
<1>3. PICK u : u = Mudada(c)
  OBVIOUS
<1>4. PICK M : Arbolado(M, u) /\ i \in UsadosDe(u) /\ M[i] = n /\ Mudo(M, u, dicc, v, n)
  BY <1>1, <1>2, <1>3 DEF Mudando
<1>5. /\ i \in Indices /\ ~IsPrefix(v, n) /\ ~IsPrefix(n, v)
      /\ v \in DOMAIN dicc /\ dicc[v] = i /\ Front(n) \in DOMAIN dicc
  BY <1>0, <1>1, <1>2 DEF Mudando, EnDicc
<1>6. PICK d : d = Pone(Sin(dicc, v), n, Saca(v))
  OBVIOUS
<1>7. PICK k, rs : /\ k = dicc[Front(n)] /\ k = Saca(Front(n))
                   /\ rs = IF tabla[i].estado = 2 THEN {q \in DOMAIN d : EmpiezaCon(q, v)} ELSE {}
  BY <1>5 DEF Saca
<1>8. /\ dicc' = d /\ local' = [local EXCEPT ![c].padre = k, ![c].claves = rs]
      /\ Ir(c, "cambiar_nombres") /\ tabla' = tabla
  BY <1>2, <1>6, <1>7 DEF CambiarClave, PathPadre, enDisco
<1>9. /\ pc'[c] = "cambiar_nombres" /\ pedido' = pedido
      /\ local'[c].nodo = i /\ local'[c].padre = k /\ local'[c].claves = rs
  <2>1. local \in [Conexiones -> LocalTipo]
    BY <1>1 DEF SacTipo
  <2>2. local'[c].nodo = i /\ local'[c].padre = k /\ local'[c].claves = rs
    BY <1>2, <1>8, <2>1 DEF LocalTipo, Nodo
  <2>3. QED
    BY <1>1, <1>8, <2>2 DEF Ir, SacTipo
<1>10. /\ DOMAIN d = (DOMAIN dicc \ {v}) \cup {n} /\ d[n] = dicc[v]
       /\ \A q \in DOMAIN dicc \ {v} : q # n => d[q] = dicc[q]
  BY <1>5, <1>6 DEF Pone, Sin, Saca
<1>11. IsPrefix(v, v) /\ n = Traslada(v, v, n) /\ n # v
  <2>1. IsPrefix(v, v)
    BY <1>2, Prefijo
  <2>2. QED
    BY <1>2, <1>5, <2>1, TrasladaElMismo
<1>12. Mudo(M, u, d, v, n)
  <2>1. Pasa(dicc, v, n, d, v, n)
    BY <1>5, <1>10, <1>11 DEF Pasa
  <2>2. QED
    BY <1>2, <1>4, <2>1, MudaClave
<1>13. \A q \in DOMAIN d : IsPrefix(v, q) => q \in rs
  <2>1. CASE tabla[i].estado = 2
    <3>1. \A q \in DOMAIN d : q \in Seq(LosNombres)
      BY <1>12 DEF Mudo
    <3>2. \A q \in DOMAIN d : IsPrefix(v, q) => EmpiezaCon(q, v)
      BY <1>1, <1>2, <3>1, EmpiezaEs
    <3>3. QED
      BY <1>7, <2>1, <3>2
  <2>2. CASE tabla[i].estado # 2
    <3>1. v \notin DOMAIN d
      BY <1>10, <1>11
    <3>2. u[i].estado # 2
      BY <1>1, <1>2, <1>3, <1>5, <2>2 DEF Mudada, SacTipo, NodoTipo
    <3>3. QED
      BY <1>2, <1>4, <1>12, <3>1, <3>2, ClavesDeArchivo
  <2>3. QED
    BY <2>1, <2>2
<1>14. Nodo(c)' = i /\ Ruta(c)' = v /\ pedido'[c].destino = n
  BY <1>2, <1>9 DEF Nodo, Ruta
<1>15. Mudada(c)' = u
  <2>1. PadreNuevo(c) = k /\ PadreNuevo(c)' = k
    BY <1>0, <1>2, <1>7, <1>9, <1>14 DEF PadreNuevo
  <2>2. QED
    BY <1>2, <1>3, <1>8, <1>14, <2>1 DEF Mudada
<1>16. Mudando(c)'
  BY <1>2, <1>4, <1>5, <1>8, <1>9, <1>12, <1>13, <1>14, <1>15 DEF Mudando
<1>17. "cambiar_nombres" \in DeRenombrar
  BY DEF DeRenombrar
<1>18. QED
  BY <1>1, <1>8, <1>16, <1>17, SigueMudando

LEMMA CambiarNombreArbol ==
  ASSUME Hipotesis, NombresBien, BloquesInv, ArbolInv, NEW c \in Conexiones, CambiarNombre(c)
  PROVE  ArbolInv'
<1>0. pc[c] = "cambiar_nombres" /\ pc[c] \in DeRenombrar
  BY DEF CambiarNombre, Esta, DeRenombrar
<1>1. UnMontaje /\ SacTipo /\ Mudando(c) /\ SinPrefijos
  BY <1>0, MudandoDe
<1>2. PICK v, n, i : /\ v = Ruta(c) /\ n = pedido[c].destino /\ i = Nodo(c)
                     /\ v \in Seq(LosNombres) /\ v # <<>> /\ n \in Seq(LosNombres) /\ n # <<>>
  BY <1>0, MudandoDe
<1>3. PICK u : u = Mudada(c)
  OBVIOUS
<1>4. PICK M : Arbolado(M, u) /\ i \in UsadosDe(u) /\ M[i] = n /\ Mudo(M, u, dicc, v, n)
  BY <1>1, <1>2, <1>3 DEF Mudando
<1>5. /\ i \in Indices /\ ~IsPrefix(v, n) /\ ~IsPrefix(n, v)
      /\ \A q \in DOMAIN dicc : IsPrefix(v, q) => q \in local[c].claves
  BY <1>0, <1>1, <1>2 DEF Mudando
<1>6. PICK r \in DOMAIN dicc : /\ EmpiezaCon(r, v) /\ dicc' = Sin(Pone(dicc, Reemplazar(r, v, n), Saca(r)), r)
                               /\ local' = [local EXCEPT ![c].claves = @ \ {r}]
  BY <1>2 DEF CambiarNombre
<1>7. Ir(c, "cambiar_nombres") /\ tabla' = tabla
  BY DEF CambiarNombre, enDisco
<1>8. /\ pc'[c] = "cambiar_nombres" /\ pedido' = pedido /\ local'[c].nodo = i
      /\ local'[c].padre = local[c].padre /\ local'[c].claves = local[c].claves \ {r}
  <2>1. local \in [Conexiones -> LocalTipo]
    BY <1>1 DEF SacTipo
  <2>2. local'[c].nodo = i /\ local'[c].padre = local[c].padre /\ local'[c].claves = local[c].claves \ {r}
    BY <1>2, <1>6, <2>1 DEF LocalTipo, Nodo
  <2>3. QED
    BY <1>1, <1>7, <2>2 DEF Ir, SacTipo
<1>9. r \in Seq(LosNombres) /\ IsPrefix(v, r)
  <2>1. r \in Seq(LosNombres)
    BY <1>4 DEF Mudo
  <2>2. QED
    BY <1>1, <1>2, <1>6, <2>1, EmpiezaEs
<1>10. PICK m : m = Traslada(r, v, n) /\ m = Reemplazar(r, v, n) /\ m # r
  <2>1. Traslada(r, v, n) # r
    BY <1>2, <1>5, <1>9, RutaQueNoSeMueve
  <2>2. QED
    BY <1>2, <1>9, <2>1, ReemplazarEs
<1>11. PICK d : d = dicc' /\ d = Sin(Pone(dicc, m, Saca(r)), r)
  BY <1>6, <1>10
<1>12. /\ DOMAIN d = (DOMAIN dicc \ {r}) \cup {m} /\ d[m] = dicc[r]
       /\ \A q \in DOMAIN dicc \ {r} : q # m => d[q] = dicc[q]
  BY <1>10, <1>11 DEF Pone, Sin, Saca
<1>13. Mudo(M, u, d, v, n) /\ \A q \in DOMAIN d : IsPrefix(v, q) => q \in DOMAIN dicc /\ q # r
  <2>1. Pasa(dicc, r, m, d, v, n)
    BY <1>5, <1>9, <1>10, <1>12 DEF Pasa
  <2>2. Mudo(M, u, d, v, n)
    BY <1>2, <1>4, <2>1, MudaClave
  <2>3. ~IsPrefix(v, m)
    <3>1. v \in Seq(LosNombres) /\ n \in Seq(LosNombres) /\ r \in Seq(LosNombres) /\ ~IsPrefix(v, n) /\ ~IsPrefix(n, v)
      BY <1>2, <1>5, <1>9
    <3>2. ~IsPrefix(v, Traslada(r, v, n))
      BY <3>1, RutaQueNoSeMueve
    <3>3. QED
      BY <1>10, <3>2
  <2>4. QED
    BY <1>10, <1>12, <2>2, <2>3
<1>14. Nodo(c)' = i /\ Ruta(c)' = v /\ pedido'[c].destino = n
  BY <1>2, <1>8 DEF Nodo, Ruta
<1>15. Mudada(c)' = u
  <2>1. PadreNuevo(c)' = PadreNuevo(c)
    BY <1>0, <1>8 DEF PadreNuevo
  <2>2. QED
    BY <1>2, <1>3, <1>7, <1>14, <2>1 DEF Mudada
<1>16. \A q \in DOMAIN d : IsPrefix(v, q) => q \in local'[c].claves
  BY <1>5, <1>8, <1>13
<1>17. Mudando(c)'
  BY <1>2, <1>4, <1>5, <1>8, <1>11, <1>13, <1>14, <1>15, <1>16 DEF Mudando
<1>18. "cambiar_nombres" \in DeRenombrar
  BY DEF DeRenombrar
<1>19. QED
  BY <1>1, <1>7, <1>17, <1>18, SigueMudando

(* Every key is where it goes: the table gets the father that was missing. *)
LEMMA MudarArbol ==
  ASSUME Hipotesis, NombresBien, BloquesInv, ArbolInv, NEW c \in Conexiones,
         pc[c] = "cambiar_nombres", ApadrinarNodo(c)
  PROVE  ArbolInv'
<1>0. pc[c] \in DeRenombrar
  BY DEF DeRenombrar
<1>1. UnMontaje /\ SacTipo /\ Mudando(c)
  BY <1>0, MudandoDe
<1>2. PICK v, n : /\ v = Ruta(c) /\ n = pedido[c].destino
                  /\ \A q \in DOMAIN dicc : IsPrefix(v, q) => q \in local[c].claves
  BY <1>1 DEF Mudando
<1>3. PICK u : u = Mudada(c)
  OBVIOUS
<1>4. PICK M : Arbolado(M, u) /\ Mudo(M, u, dicc, v, n)
  BY <1>1, <1>2, <1>3 DEF Mudando
<1>5. local[c].claves \cap DOMAIN dicc = {} /\ tabla' = u /\ dicc' = dicc /\ Responder(c, "ok")
  BY <1>3 DEF ApadrinarNodo, Esta, ClavesPendientes, Mudada, PadreNuevo, BloqueDelPadre, enMemoria
<1>6. ASSUME NEW p \in DOMAIN dicc PROVE M[dicc[p]] = p /\ dicc[p] \in UsadosDe(u)
  <2>1. ~IsPrefix(v, p)
    BY <1>2, <1>5
  <2>2. QED
    BY <1>4, <2>1 DEF Mudo, Traslada
<1>7. Da(M, u, dicc)
  <2>1. ASSUME NEW j \in UsadosDe(u) PROVE M[j] \in DOMAIN dicc /\ dicc[M[j]] = j
    <3>1. PICK p \in DOMAIN dicc : dicc[p] = j
      BY <1>4 DEF Mudo
    <3>2. QED
      BY <1>6, <3>1
  <2>2. QED
    BY <1>6, <2>1 DEF Da
<1>8. Plantado(dicc', tabla')
  BY <1>4, <1>5, <1>7 DEF Plantado
<1>9. QED
  BY <1>1, <1>5, <1>8, TerminaArbol DEF Responder

LEMMA RenameArbol ==
  ASSUME Hipotesis, NombresBien, BloquesInv, ArbolInv, NEW c \in Conexiones, Rename(c)
  PROVE  ArbolInv'
<1>1. CASE RenombrarExistente(c)
  <2>1. pc[c] = "con_nodo" /\ UNCHANGED discoVars /\ Responder(c, "error")
    BY <1>1 DEF RenombrarExistente, Esta
  <2>2. UnMontaje /\ pc[c] \notin Mudables /\ pedido[c] # Nada /\ SacTipo
    BY <2>1, DatosSirve DEF Hipotesis
  <2>3. QED
    BY <2>1, <2>2, QuietoArbol
<1>2. QED
  BY <1>1, RenombrarArbol, CambiarClaveArbol, CambiarNombreArbol DEF Rename

LEMMA CrearArbol ==
  ASSUME Hipotesis, NombresBien, BloquesInv, ArbolInv, NEW c \in Conexiones, Crear(c)
  PROVE  ArbolInv'
<1>1. UnMontaje
  BY DEF Hipotesis
<1>2. CASE ApadrinarNodo(c)
  <2>1. pc[c] = "apadrinar" \/ pc[c] = "cambiar_nombres"
    BY <1>2 DEF ApadrinarNodo, Esta
  <2>2. QED
    BY <1>2, <2>1, ApadrinarArbol, MudarArbol
<1>3. QED
  BY <1>1, <1>2, EmpezarArbol, ElegirArbol, NacerArbol DEF Crear

(* A request is only made of what the kernel has seen. *)
LEMMA PedirArbol ==
  ASSUME Hipotesis, BloquesInv, ArbolInv, NEW c \in Conexiones, Pedir(c)
  PROVE  ArbolInv'
<1>0. UnMontaje /\ SacTipo
  BY DEF Hipotesis, BloquesInv
<1>1. PICK r \in Pedibles[c] : Permite(r) /\ pedido' = [pedido EXCEPT ![c] = r]
  BY DEF Pedir
<1>2. /\ pc[c] = "libre" /\ tabla' = tabla /\ dicc' = dicc /\ pc' = pc /\ local' = local
      /\ pedido'[c] = r /\ \A d \in Conexiones : d = c
  BY <1>0, <1>1 DEF Pedir, discoVars, enDisco, enMemoria, SacTipo, UnMontaje
<1>3. "libre" \notin Mudables
  BY PuntosMudables
<1>4. Plantado(dicc, tabla)
  BY <1>0, <1>2, <1>3, ArbolDe
<1>5. ASSUME NEW p, VeDirectorio(p) PROVE EsDir(p)
  <2>1. p \in DOMAIN dicc /\ dicc[p] \in UsadosDe(tabla) /\ tabla[dicc[p]].estado # 1
    BY <1>4, <1>5, DePlantado DEF VeDirectorio, Visto
  <2>2. tabla[dicc[p]].estado \in 0..2 /\ tabla[dicc[p]].estado # 0
    BY <1>0, <2>1 DEF SacTipo, NodoTipo, UsadosDe
  <2>3. QED
    BY <2>1, <2>2 DEF EsDir
<1>6. /\ Ruta(c)' = r.ruta /\ pedido'[c].op = r.op /\ (EnDicc(c)' <=> Visto(r.ruta))
      /\ \A p : EsDir(p)' <=> EsDir(p)
  BY <1>2 DEF Ruta, EnDicc, Visto, EsDir
<1>7. Vio(c)'
  <2>1. r.op \in {"MKNOD", "MKDIR"} => EsDir(Front(r.ruta))
    BY <1>1, <1>5 DEF Permite, Falta
  <2>2. r.op = "OPEN" /\ r.crear => Visto(r.ruta) \/ EsDir(Front(r.ruta))
    BY <1>1, <1>5 DEF Permite, Falta, VeArchivo
  <2>3. r.op = "RMDIR" => EsDir(r.ruta)
    BY <1>1, <1>5 DEF Permite
  <2>4. r.op = "UNLINK" => Visto(r.ruta) /\ tabla[dicc[r.ruta]].estado = 1
    BY <1>1 DEF Permite, VeArchivo
  <2>5. r.op = "RENAME" => /\ Visto(r.ruta) /\ EsDir(Front(r.destino))
                           /\ ~IsPrefix(r.ruta, r.destino) /\ ~IsPrefix(r.destino, r.ruta)
    BY <1>1, <1>5 DEF Permite
  <2>6. QED
    BY <1>2, <1>6, <2>1, <2>2, <2>3, <2>4, <2>5 DEF Vio
<1>8. Sabe(c, pc[c], Nodo(c))'
  BY <1>2 DEF Sabe, DeLimpiar
<1>9. Plantado(dicc, tabla)'
  BY <1>2, <1>4
<1>10. pc'[c] \notin Mudables
  BY <1>2, <1>3
<1>11. QED
  BY <1>2, <1>7, <1>8, <1>9, <1>10 DEF ArbolInv, Mudables

-----------------------------------------------------------------------------
(* The disk the server is started on.                                        *)

(* The nodes in use are a tree whose paths levantar_diccionario finds: it only  *)
(* looks at the fathers whose block is below the number of nodes.              *)
FormatoArbolado ==
  /\ \E F : Arbolado(F, Formato.tabla)
  /\ \A i \in UsadosDe(Formato.tabla) : Formato.tabla[i].padre \in 0..(Nodos - 1)

(* So is the disk that has just been formatted. *)
LEMMA RecienFormateado ==
  ASSUME Formato.tabla = TablaVacia
  PROVE  FormatoArbolado
<1>1. PICK t : t = Formato.tabla
  OBVIOUS
<1>2. /\ 0 \in Indices /\ t[0] = Raiz /\ (\A i \in Indices \ {0} : t[i] = NodoVacio)
      /\ Nodos \in Nat \ {0}
  BY <1>1, Medidas DEF TablaVacia
<1>3. UsadosDe(t) = {0} /\ t[0].estado = 2 /\ t[0].padre = 0
  <2>1. Raiz.estado = 2 /\ Raiz.padre = 0 /\ NodoVacio.estado = 0
    BY DEF Raiz, NodoVacio
  <2>2. QED
    BY <1>2, <2>1 DEF UsadosDe
<1>4. PICK F : F = [i \in {0} |-> <<>>]
  OBVIOUS
<1>5. Arbolado(F, t)
  BY <1>3, <1>4 DEF Arbolado
<1>6. QED
  BY <1>1, <1>2, <1>3, <1>5 DEF FormatoArbolado

LEMMA ArbolInicial ==
  ASSUME FormatoBien, FormatoArbolado, Init
  PROVE  ArbolInv
<1>1. PICK t, d : t = tabla /\ d = dicc /\ t = Formato.tabla /\ d = Diccionario(t)
  BY DEF Init, DiscoInit
<1>2. PICK F : Arbolado(F, t)
  BY <1>1 DEF FormatoArbolado
<1>3. DOMAIN t = Indices
  BY <1>1 DEF FormatoBien
<1>4. PICK q : q = Caminos(t)
  OBVIOUS
<1>5. \A i \in UsadosDe(t) : i \in DOMAIN q /\ q[i] = F[i]
  BY <1>2, <1>3, <1>4, CaminoDe
<1>6. Levantados(t) = UsadosDe(t)
  BY <1>1, <1>3 DEF Levantados, UsadosDe, FormatoArbolado
<1>7. DOMAIN d = {q[j] : j \in UsadosDe(t)}
  BY <1>1, <1>4, <1>6 DEF Diccionario
<1>8. ASSUME NEW j \in UsadosDe(t) PROVE F[j] \in DOMAIN d /\ d[F[j]] = j
  <2>1. \A k \in UsadosDe(t) : q[k] = F[j] <=> k = j
    BY <1>2, <1>5 DEF Arbolado
  <2>2. F[j] \in DOMAIN d
    BY <1>5, <1>7
  <2>3. d[F[j]] \in UsadosDe(t) /\ q[d[F[j]]] = F[j]
    BY <1>1, <1>3, <1>4, <2>2, DiccionarioDeNodos DEF UsadosDe
  <2>4. QED
    BY <2>1, <2>2, <2>3
<1>9. ASSUME NEW p \in DOMAIN d PROVE d[p] \in UsadosDe(t) /\ F[d[p]] = p
  <2>1. PICK j \in UsadosDe(t) : p = F[j]
    BY <1>5, <1>7
  <2>2. QED
    BY <1>8, <2>1
<1>10. Plantado(d, t)
  BY <1>2, <1>8, <1>9 DEF Plantado, Da
<1>11. \A c \in Conexiones : pc[c] = "libre" /\ pedido[c] = Nada
  BY DEF Init, AtencionInit
<1>12. "libre" \notin Mudables
  BY PuntosMudables
<1>13. QED
  BY <1>1, <1>10, <1>11, <1>12 DEF ArbolInv, Mudables

-----------------------------------------------------------------------------
(* The invariant, and what it says of the tree.                              *)

LEMMA ArbolSePreserva ==
  ASSUME Hipotesis, NombresBien, BloquesInv, ArbolInv, [Next]_vars
  PROVE  ArbolInv'
<1>0. UnMontaje /\ SacTipo /\ ~Reiniciar
  BY DEF Hipotesis, UnMontaje, BloquesInv, Reiniciar
<1>1. CASE UNCHANGED vars
  BY <1>1, ArbolQuieto DEF vars, discoVars, enDisco, atencionVars, enMemoria
<1>2. ASSUME NEW c \in Conexiones, AtenderDatos(c) PROVE ArbolInv'
  BY <1>0, <1>2, WriteArbol, UnlinkArbol DEF AtenderDatos
<1>3. ASSUME NEW c \in Conexiones, AtenderArbol(c) PROVE ArbolInv'
  BY <1>3, CrearArbol, DirectorioArbol, RenameArbol DEF AtenderArbol
<1>4. QED
  BY <1>0, <1>1, <1>2, <1>3, PedirArbol, NodosArbol DEF Next, AtenderCliente

LEMMA ArbolInvariante == Hipotesis /\ NombresBien /\ FormatoArbolado => (Spec => []ArbolInv)
<1> SUFFICES ASSUME Hipotesis, NombresBien, FormatoArbolado PROVE Spec => []ArbolInv
  OBVIOUS
<1>1. Init => ArbolInv
  BY ArbolInicial DEF Hipotesis
<1>2. BloquesInv /\ ArbolInv /\ [Next]_vars => ArbolInv'
  BY ArbolSePreserva
<1>3. Spec => []BloquesInv
  BY BloquesInvariante
<1>4. QED
  BY <1>1, <1>2, <1>3, PTL DEF Spec

(* With nothing being served the tree is whole. *)
LEMMA ArbolEnReposo ==
  ASSUME UnMontaje, BloquesInv, ArbolInv, Reposo
  PROVE  \E F : /\ Arbolado(F, tabla) /\ Da(F, tabla, dicc) /\ Usados = UsadosDe(tabla)
                /\ \A i \in Usados : i \in DOMAIN Camino /\ Camino[i] = F[i]
<1>1. Plantado(dicc, tabla)
  <2>1. \A c \in Conexiones : pc[c] \in {"libre", "colgado"}
    BY DEF BloquesInv, Sirve, Reposo
  <2>2. QED
    BY <2>1, PuntosMudables DEF ArbolInv
<1>2. PICK F : Arbolado(F, tabla) /\ Da(F, tabla, dicc)
  BY <1>1 DEF Plantado
<1>3. Usados = UsadosDe(tabla)
  BY DEF Usados, UsadosDe
<1>4. PICK t : t = tabla /\ DOMAIN t = Indices
  BY DEF BloquesInv, SacTipo
<1>5. \A i \in UsadosDe(t) : i \in DOMAIN Caminos(t) /\ Caminos(t)[i] = F[i]
  BY <1>2, <1>4, CaminoDe
<1>6. QED
  BY <1>2, <1>3, <1>4, <1>5 DEF Camino

(* For one mount that is not restarted, whatever the requests that were served: *)
(* once they are answered, the path of every used node by the names and fathers *)
(* of the table is in the dictionary and leads to that node.  The four writes   *)
(* of _mknod and _mkdir, the removals of _rmdir and _unlink and the loop of      *)
(* _rename over the keys leave none behind.                                     *)
THEOREM EncuentraConUno == Hipotesis /\ NombresBien /\ FormatoArbolado => (Spec => []Encuentra)
<1> SUFFICES ASSUME Hipotesis, NombresBien, FormatoArbolado PROVE Spec => []Encuentra
  OBVIOUS
<1>1. BloquesInv /\ ArbolInv => Encuentra
  <2> SUFFICES ASSUME BloquesInv, ArbolInv, Reposo, NEW i \in Usados
               PROVE  i \in DOMAIN Camino /\ Visto(Camino[i]) /\ dicc[Camino[i]] = i
    BY DEF Encuentra
  <2>1. PICK F : /\ Da(F, tabla, dicc) /\ Usados = UsadosDe(tabla)
                 /\ i \in DOMAIN Camino /\ Camino[i] = F[i]
    BY ArbolEnReposo DEF Hipotesis
  <2>2. QED
    BY <2>1 DEF Da, Visto
<1>2. Spec => []BloquesInv
  BY BloquesInvariante
<1>3. Spec => []ArbolInv
  BY ArbolInvariante
<1>4. QED
  BY <1>1, <1>2, <1>3, PTL

(* And the other way round: once the requests are answered, every path of the   *)
(* dictionary leads to a used node whose path in the table is that one, and     *)
(* what is before it in the path are directories in use: _rmdir removes none    *)
(* with entries, _unlink and _rename leave no key of what is no longer there.   *)
THEOREM RutasVivasConUno == Hipotesis /\ NombresBien /\ FormatoArbolado => (Spec => []RutasVivas)
<1> SUFFICES ASSUME Hipotesis, NombresBien, FormatoArbolado PROVE Spec => []RutasVivas
  OBVIOUS
<1>1. BloquesInv /\ ArbolInv => RutasVivas
  <2> SUFFICES ASSUME BloquesInv, ArbolInv, Reposo, NEW p \in DOMAIN dicc
               PROVE  /\ dicc[p] \in Usados \cap DOMAIN Camino /\ Camino[dicc[p]] = p
                      /\ EnDirectorios(p)
    BY DEF RutasVivas
  <2>1. PICK F : /\ Arbolado(F, tabla) /\ Da(F, tabla, dicc) /\ Usados = UsadosDe(tabla)
                 /\ \A i \in Usados : i \in DOMAIN Camino /\ Camino[i] = F[i]
    BY ArbolEnReposo DEF Hipotesis
  <2>2. dicc[p] \in Usados /\ F[dicc[p]] = p
    BY <2>1 DEF Da
  <2>3. Len(p) \in Nat
    BY <2>1, <2>2, RutaDeNodo
  <2>4. ASSUME NEW n \in 0..(Len(p) - 1)
        PROVE  VeDirectorio(SubSeq(p, 1, n)) /\ dicc[SubSeq(p, 1, n)] \in Usados
    <3>1. PICK i \in UsadosDe(tabla) : i = dicc[p] /\ F[i] = p /\ n \in 0..Len(F[i]) /\ n < Len(F[i])
      BY <2>1, <2>2, <2>3
    <3>2. PICK j \in UsadosDe(tabla) : F[j] = SubSeq(F[i], 1, n) /\ tabla[j].estado = 2
      BY <2>1, <3>1, Ancestros
    <3>3. F[j] \in DOMAIN dicc /\ dicc[F[j]] = j
      BY <2>1 DEF Da
    <3>4. QED
      BY <2>1, <3>1, <3>2, <3>3 DEF VeDirectorio, Visto
  <2>5. QED
    BY <2>1, <2>2, <2>4 DEF EnDirectorios
<1>2. Spec => []BloquesInv
  BY BloquesInvariante
<1>3. Spec => []ArbolInv
  BY ArbolInvariante
<1>4. QED
  BY <1>1, <1>2, <1>3, PTL

-----------------------------------------------------------------------------
(* A tree of paths.  While a request is served the tree of ArbolDeRutas is the *)
(* one there was when it was made, and then the one that was left.             *)

(* Nothing is asked of what files hold: a write or a truncation that is refused *)
(* for want of blocks, or by what a register holds, is not refused by the tree. *)
SoloArbol == \A c \in Conexiones : \A r \in Pedibles[c] : r.op \notin {"WRITE", "TRUNCATE"}

Refleja == A!Next \/ UNCHANGED <<IF Reposo THEN Arbol ELSE antes, pedido, respuesta>>

RaizBien == tabla[0].estado # 0 => tabla[0].nombre = Barra

(* A path is in the dictionary and not in the tree yet. *)
Brota(c) ==
  /\ Ruta(c) \notin DOMAIN antes /\ DOMAIN dicc = DOMAIN antes \cup {Ruta(c)}
  /\ \A p \in DOMAIN antes : antes[p] = tabla[dicc[p]].estado

(* The keys are those of the tree, each where it was or where it goes. *)
Viaja(a, d, t, v, n) ==
  /\ \A p, q \in DOMAIN a : Traslada(p, v, n) = Traslada(q, v, n) => p = q
  /\ \A p \in DOMAIN d : \E q \in DOMAIN a : Traslada(q, v, n) = Traslada(p, v, n) /\ a[q] = t[d[p]].estado
  /\ \A q \in DOMAIN a : \E p \in DOMAIN d : Traslada(p, v, n) = Traslada(q, v, n)
Parte(a, v, n) == v \in DOMAIN a /\ n \notin DOMAIN a /\ Front(n) \in DOMAIN a /\ a[Front(n)] = 2

Mirada == {"tomar_nodo", "con_nodo", "tomar_directorio", "listar"}
Espeja(c) ==
  LET op == pedido[c].op IN
  /\ pc[c] \notin Mudables => antes = Arbol
  /\ pc[c] \in DeNacer => Brota(c)
  /\ pc[c] \in DeRenombrar => /\ Parte(antes, Ruta(c), pedido[c].destino)
                              /\ Viaja(antes, dicc, tabla, Ruta(c), pedido[c].destino)
  /\ pc[c] \notin {"desasignar", "retomar_nodo"} \cup DeTruncar
  /\ pc[c] \in DeCrear /\ op = "OPEN" => pedido[c].crear
  /\ pc[c] = "libre" /\ op \in {"MKNOD", "MKDIR"} => ~EnDicc(c)
  /\ pc[c] \in Mirada => EnDicc(c)
EspejoInv == RaizBien /\ \A c \in Conexiones : pedido[c] # Nada => Espeja(c)

(* What ArbolDeRutas says, of the tree there was. *)
Cabe(p) ==
  p \notin DOMAIN antes /\ Front(p) \in DOMAIN antes /\ antes[Front(p)] = 2 /\ Cardinality(DOMAIN antes) < Nodos

LEMMA LasDeRutas ==
  /\ \A S : A!Cardinality(S) = Cardinality(S)
  /\ \A p : A!Front(p) = Front(p)
  /\ \A p, q : A!IsStrictPrefix(p, q) <=> IsStrictPrefix(p, q)
  /\ \A q, v, n : A!Trasladada(q, v, n) = Traslada(q, v, n)
<1>1. \A S : A!Cardinality(S) = Cardinality(S)
  BY DEF A!Cardinality, Cardinality
<1>2. \A p : A!Front(p) = Front(p)
  BY DEF A!Front, Front
<1>3. \A p, q : A!IsStrictPrefix(p, q) <=> IsStrictPrefix(p, q)
  BY DEF A!IsStrictPrefix, IsStrictPrefix, A!IsPrefix, IsPrefix
<1>4. \A q, v, n : A!Trasladada(q, v, n) = Traslada(q, v, n)
  BY DEF A!Trasladada, Traslada, A!IsPrefix, IsPrefix
<1>5. QED
  BY <1>1, <1>2, <1>3, <1>4

LEMMA LoQuePuede ==
  ASSUME ~Reposo, NEW r
  PROVE  /\ r.op \in {"MKNOD", "MKDIR"} => (A!Puede(r) <=> Cabe(r.ruta))
         /\ r.op = "OPEN" /\ r.crear =>
              (A!Puede(r) <=> Cabe(r.ruta) \/ (r.ruta \in DOMAIN antes /\ ~r.asegurar))
         /\ r.op = "OPEN" /\ ~r.crear => (A!Puede(r) <=> r.ruta \in DOMAIN antes)
         /\ r.op = "RMDIR" =>
              (A!Puede(r) <=> /\ r.ruta \in DOMAIN antes /\ antes[r.ruta] = 2
                              /\ \A q \in DOMAIN antes : ~IsStrictPrefix(r.ruta, q))
         /\ r.op = "UNLINK" => (A!Puede(r) <=> r.ruta \in DOMAIN antes /\ antes[r.ruta] = 1)
         /\ r.op = "RENAME" => (A!Puede(r) <=> Parte(antes, r.ruta, r.destino))
         /\ r.op \in {"READDIR", "GETATTR", "UTIMES", "READ"} => (A!Puede(r) <=> r.ruta \in DOMAIN antes)
<1>10. /\ \A p : A!EsDirectorio(p) <=> p \in DOMAIN antes /\ antes[p] = 2
      /\ \A p : A!EsArchivo(p) <=> p \in DOMAIN antes /\ antes[p] = 1
  BY DEF A!EsDirectorio, A!EsArchivo
<1>11. A!HayLugar <=> Cardinality(DOMAIN antes) < Nodos
  BY LasDeRutas DEF A!HayLugar
<1>12. \A p : A!PuedeCrear(p) <=> Cabe(p)
  BY <1>10, <1>11, LasDeRutas DEF A!PuedeCrear, Cabe
<1>1. r.op \in {"MKNOD", "MKDIR"} => (A!Puede(r) <=> Cabe(r.ruta))
  BY <1>12 DEF A!Puede
<1>2. r.op = "OPEN" /\ r.crear =>
        (A!Puede(r) <=> Cabe(r.ruta) \/ (r.ruta \in DOMAIN antes /\ ~r.asegurar))
  BY <1>12 DEF A!Puede
<1>3. r.op = "OPEN" /\ ~r.crear => (A!Puede(r) <=> r.ruta \in DOMAIN antes)
  BY DEF A!Puede
<1>4. r.op = "RMDIR" => (A!Puede(r) <=> /\ r.ruta \in DOMAIN antes /\ antes[r.ruta] = 2
                                        /\ \A q \in DOMAIN antes : ~IsStrictPrefix(r.ruta, q))
  BY <1>10, LasDeRutas DEF A!Puede, A!SinEntradas
<1>5. r.op = "UNLINK" => (A!Puede(r) <=> r.ruta \in DOMAIN antes /\ antes[r.ruta] = 1)
  BY <1>10 DEF A!Puede
<1>6. r.op = "RENAME" => (A!Puede(r) <=> Parte(antes, r.ruta, r.destino))
  BY <1>10, LasDeRutas DEF A!Puede, Parte
<1>7. r.op \in {"READDIR", "GETATTR", "UTIMES", "READ"} => (A!Puede(r) <=> r.ruta \in DOMAIN antes)
  BY DEF A!Puede
<1>8. QED
  BY <1>1, <1>2, <1>3, <1>4, <1>5, <1>6, <1>7

LEMMA LoQueResulta ==
  ASSUME ~Reposo, NEW r
  PROVE  /\ r.op = "MKDIR" => A!Resultado(r) = Pone(antes, r.ruta, 2)
         /\ r.op = "MKNOD" \/ (r.op = "OPEN" /\ r.ruta \notin DOMAIN antes) =>
              A!Resultado(r) = Pone(antes, r.ruta, 1)
         /\ r.op \in {"RMDIR", "UNLINK"} => A!Resultado(r) = Sin(antes, r.ruta)
         /\ r.op = "RENAME" => A!Resultado(r) = A!Mudado(r.ruta, r.destino)
         /\ r.op \in {"READDIR", "GETATTR", "UTIMES", "READ"} \/ (r.op = "OPEN" /\ r.ruta \in DOMAIN antes) =>
              A!Resultado(r) = antes
<1>1. \A p, t : A!Con(p, t) = Pone(antes, p, t)
  BY DEF A!Con, Pone
<1>2. \A p : A!Sin(p) = Sin(antes, p)
  BY DEF A!Sin, Sin
<1>3. r.op = "MKDIR" => A!Resultado(r) = A!Con(r.ruta, 2)
  BY DEF A!Resultado
<1>4. r.op = "MKNOD" \/ (r.op = "OPEN" /\ r.ruta \notin DOMAIN antes) => A!Resultado(r) = A!Con(r.ruta, 1)
  BY DEF A!Resultado
<1>5. r.op \in {"RMDIR", "UNLINK"} => A!Resultado(r) = A!Sin(r.ruta)
  BY DEF A!Resultado
<1>6. r.op = "RENAME" => A!Resultado(r) = A!Mudado(r.ruta, r.destino)
  BY DEF A!Resultado
<1>7. r.op \in {"READDIR", "GETATTR", "UTIMES", "READ"} \/ (r.op = "OPEN" /\ r.ruta \in DOMAIN antes) =>
        A!Resultado(r) = antes
  BY DEF A!Resultado
<1>8. QED
  BY <1>1, <1>2, <1>3, <1>4, <1>5, <1>6, <1>7

(* How many paths there are: each has a node. *)
LEMMA Sobra ==
  ASSUME NEW a, NEW d, NEW i \in Indices,
         \A p \in DOMAIN a : d[p] \in Indices \ {i},
         \A p, q \in DOMAIN a : d[p] = d[q] => p = q
  PROVE  Cardinality(DOMAIN a) < Nodos
<1> DEFINE D == DOMAIN a
           f == [p \in D |-> d[p]]
<1>0. Nodos \in Nat \ {0} /\ 0 \in Int /\ Nodos - 1 \in Int
  BY SacSupuesto
<1>1. IsFiniteSet(Indices) /\ Cardinality(Indices) = Nodos /\ Nodos \in Nat \ {0}
  BY <1>0, FS_Interval DEF Indices
<1>2. IsFiniteSet(Indices \ {i}) /\ Cardinality(Indices \ {i}) = Nodos - 1
  BY <1>1, FS_RemoveElement
<1>3. f \in Injection(D, Indices \ {i})
  BY DEF Injection, IsInjective
<1> HIDE DEF f
<1>4. IsFiniteSet(D) /\ Cardinality(D) <= Cardinality(Indices \ {i})
  BY <1>2, <1>3, FS_Injection
<1>5. Cardinality(D) \in Nat
  BY <1>4, FS_CardinalityType
<1>6. QED
  BY <1>1, <1>2, <1>4, <1>5

LEMMA NoSobra ==
  ASSUME NEW a, NEW d,
         \A p \in DOMAIN a : d[p] \in Indices,
         \A p, q \in DOMAIN a : d[p] = d[q] => p = q,
         \A i \in Indices : \E p \in DOMAIN a : d[p] = i
  PROVE  Cardinality(DOMAIN a) = Nodos
<1> DEFINE D == DOMAIN a
           f == [p \in D |-> d[p]]
<1>0. Nodos \in Nat \ {0} /\ 0 \in Int /\ Nodos - 1 \in Int
  BY SacSupuesto
<1>1. IsFiniteSet(Indices) /\ Cardinality(Indices) = Nodos
  BY <1>0, FS_Interval DEF Indices
<1>2. f \in Injection(D, Indices) /\ f \in Surjection(D, Indices)
  BY DEF Injection, IsInjective, Surjection
<1> HIDE DEF f
<1>3. Cardinality(D) = Cardinality(Indices)
  BY <1>1, <1>2, FS_Injection
<1>4. QED
  BY <1>1, <1>3

-----------------------------------------------------------------------------
(* What the steps share.                                                     *)

LEMMA EspejoDe ==
  ASSUME UnMontaje, BloquesInv, ArbolInv, EspejoInv, NEW c \in Conexiones,
         pc[c] # "colgado", pc[c] # "libre" \/ pedido[c] # Nada
  PROVE  /\ pedido[c] # Nada /\ ~Reposo /\ Espeja(c) /\ SacTipo /\ \A d \in Conexiones : d = c
         /\ pedido[c] \in Pedibles[c] /\ pedido[c].ruta = Ruta(c)
         /\ pc[c] \notin Mudables =>
              /\ antes = Arbol /\ DOMAIN antes = DOMAIN dicc /\ \A p \in DOMAIN dicc : antes[p] = tabla[dicc[p]].estado
              /\ Plantado(dicc, tabla) /\ Vio(c) /\ Sabe(c, pc[c], Nodo(c))
<1>1. pedido[c] # Nada /\ pedido[c] \in Pedibles[c] /\ pedido[c].ruta = Ruta(c) /\ ~Reposo
  BY PedidoDe DEF Ruta, Reposo
<1>2. Espeja(c) /\ SacTipo /\ \A d \in Conexiones : d = c
  BY <1>1 DEF EspejoInv, BloquesInv, UnMontaje
<1>3. ASSUME pc[c] \notin Mudables
      PROVE  /\ antes = Arbol /\ DOMAIN antes = DOMAIN dicc /\ \A p \in DOMAIN dicc : antes[p] = tabla[dicc[p]].estado
             /\ Plantado(dicc, tabla) /\ Vio(c) /\ Sabe(c, pc[c], Nodo(c))
  <2>1. antes = Arbol
    BY <1>2, <1>3 DEF Espeja
  <2>2. Plantado(dicc, tabla) /\ Vio(c) /\ Sabe(c, pc[c], Nodo(c))
    BY <1>1, <1>3, ArbolDe
  <2>3. QED
    BY <2>1, <2>2 DEF Arbol
<1>4. QED
  BY <1>1, <1>2, <1>3

LEMMA SigueEspejo ==
  ASSUME UnMontaje, NEW c \in Conexiones, pedido[c] # Nada, NEW punto, Ir(c, punto), RaizBien', Espeja(c)'
  PROVE  EspejoInv' /\ Refleja
<1>1. pedido' = pedido /\ respuesta' = respuesta /\ antes' = antes /\ \A d \in Conexiones : d = c
  BY DEF Ir, UnMontaje
<1>2. EspejoInv'
  BY <1>1 DEF EspejoInv
<1>3. ~Reposo /\ ~Reposo'
  BY <1>1 DEF Reposo
<1>4. QED
  BY <1>1, <1>2, <1>3 DEF Refleja

LEMMA ContestaEspejo ==
  ASSUME UnMontaje, SacTipo, NEW c \in Conexiones, pedido[c] # Nada, RaizBien', NEW r, Terminar(c, "libre", r),
         \/ r = "ok" /\ A!Puede(pedido[c]) /\ Arbol' = A!Resultado(pedido[c])
         \/ r = "error" /\ ~A!Puede(pedido[c]) /\ Arbol' = antes
  PROVE  EspejoInv' /\ Refleja
<1>1. /\ pedido' = [pedido EXCEPT ![c] = Nada] /\ respuesta' = [respuesta EXCEPT ![c] = r]
      /\ (\A d \in Conexiones : d = c) /\ pedido'[c] = Nada
  BY DEF Terminar, SacTipo, UnMontaje
<1>2. EspejoInv'
  BY <1>1 DEF EspejoInv
<1>3. ~Reposo /\ Reposo'
  BY <1>1 DEF Reposo
<1>4. A!Contesta(c, r)
  BY <1>1 DEF A!Contesta
<1>5. CASE r = "ok" /\ A!Puede(pedido[c]) /\ Arbol' = A!Resultado(pedido[c])
  <2>1. A!Servir(c)
    BY <1>3, <1>4, <1>5 DEF A!Servir
  <2>2. QED
    BY <1>2, <2>1 DEF A!Next, Refleja
<1>6. CASE r = "error" /\ ~A!Puede(pedido[c]) /\ Arbol' = antes
  <2>1. A!Negar(c)
    BY <1>3, <1>4, <1>6 DEF A!Negar
  <2>2. QED
    BY <1>2, <2>1 DEF A!Next, Refleja
<1>7. QED
  BY <1>5, <1>6

LEMMA MismoEspejo ==
  ASSUME SacTipo, RaizBien, Mismo
  PROVE  RaizBien' /\ Arbol' = Arbol
<1>1. /\ dicc' = dicc /\ 0 \in Indices /\ \A r \in DOMAIN dicc : dicc[r] \in Indices
      /\ \A j \in Indices : Iguales(tabla, tabla', j)
  BY Medidas DEF Mismo, SacTipo
<1>2. RaizBien'
  BY <1>1 DEF RaizBien, Iguales
<1>3. \A p \in DOMAIN dicc : tabla'[dicc[p]].estado = tabla[dicc[p]].estado
  BY <1>1 DEF Iguales
<1>4. QED
  BY <1>1, <1>2, <1>3 DEF Arbol

(* A step that leaves the tree as it is. *)
LEMMA PasaEspejo ==
  ASSUME UnMontaje, BloquesInv, ArbolInv, EspejoInv, NEW c \in Conexiones,
         pedido[c] # Nada, pc[c] \notin Mudables \cup {"colgado"}, Mismo, NEW punto, Ir(c, punto),
         punto \notin Mudables \cup {"libre", "desasignar", "retomar_nodo"} \cup DeTruncar,
         punto \in DeCrear /\ pedido[c].op = "OPEN" => pedido[c].crear,
         punto \in Mirada => EnDicc(c)
  PROVE  EspejoInv' /\ Refleja
<1>1. SacTipo /\ antes = Arbol
  BY EspejoDe
<1>2. RaizBien' /\ Arbol' = Arbol
  BY <1>1, MismoEspejo DEF EspejoInv
<1>3. pc'[c] = punto /\ pedido' = pedido /\ antes' = antes /\ dicc' = dicc
  BY <1>1 DEF Ir, SacTipo, Mismo
<1>4. Espeja(c)'
  BY <1>1, <1>2, <1>3 DEF Espeja, EnDicc, Ruta, Mudables
<1>5. QED
  BY <1>2, <1>4, SigueEspejo

LEMMA RespondeEspejo ==
  ASSUME UnMontaje, BloquesInv, ArbolInv, EspejoInv, NEW c \in Conexiones,
         pedido[c] # Nada, pc[c] \notin Mudables \cup {"colgado"}, Mismo, NEW r, Terminar(c, "libre", r),
         \/ r = "ok" /\ A!Puede(pedido[c]) /\ A!Resultado(pedido[c]) = antes
         \/ r = "error" /\ ~A!Puede(pedido[c])
  PROVE  EspejoInv' /\ Refleja
<1>1. SacTipo /\ antes = Arbol
  BY EspejoDe
<1>2. RaizBien' /\ Arbol' = Arbol
  BY <1>1, MismoEspejo DEF EspejoInv
<1>3. QED
  BY <1>1, <1>2, ContestaEspejo

LEMMA NadaEspejo ==
  ASSUME EspejoInv, UNCHANGED <<tabla, dicc, atencionVars>>
  PROVE  EspejoInv' /\ Refleja
<1>1. UNCHANGED <<tabla, dicc, pedido, respuesta, pc, local, antes>>
  BY DEF atencionVars
<1>2. ASSUME NEW c \in Conexiones, Espeja(c) PROVE Espeja(c)'
  <2>1. Ruta(c)' = Ruta(c) /\ (EnDicc(c)' <=> EnDicc(c)) /\ Arbol' = Arbol /\ (Brota(c)' <=> Brota(c))
    BY <1>1 DEF Ruta, EnDicc, Arbol, Brota
  <2>2. PICK v, n : v = Ruta(c) /\ n = pedido[c].destino
    OBVIOUS
  <2>3. Ruta(c)' = v /\ pedido'[c].destino = n
    BY <1>1, <2>1, <2>2
  <2>4. /\ Parte(antes, v, n)' <=> Parte(antes, v, n)
        /\ Viaja(antes, dicc, tabla, v, n)' <=> Viaja(antes, dicc, tabla, v, n)
    BY <1>1
  <2>5. QED
    BY <1>1, <1>2, <2>1, <2>2, <2>3, <2>4 DEF Espeja
<1>3. RaizBien' <=> RaizBien
  BY <1>1 DEF RaizBien
<1>4. EspejoInv'
  BY <1>1, <1>2, <1>3 DEF EspejoInv
<1>5. UNCHANGED <<IF Reposo THEN Arbol ELSE antes, pedido, respuesta>>
  BY <1>1 DEF Reposo, Arbol
<1>6. QED
  BY <1>4, <1>5 DEF Refleja

LEMMA NodosEspejo ==
  ASSUME UnMontaje, BloquesInv, ArbolInv, EspejoInv, NEW c \in Conexiones, AtenderNodo(c)
  PROVE  EspejoInv' /\ Refleja
<1>0. UNCHANGED <<tabla, dicc>> => Mismo
  BY MismoDe
<1>1. CASE BuscarNodo(c)
  <2>1. pc[c] \in {"libre", "desasignar"} /\ (pc[c] = "libre" => pedido[c] # Nada)
    BY <1>1 DEF BuscarNodo, Llega, Esta
  <2>2. pedido[c] # Nada /\ Espeja(c) /\ pc[c] \notin Mudables
    BY <2>1, EspejoDe, PuntosMudables DEF DeBuscar
  <2>3. Ir(c, "tomar_nodo") /\ EnDicc(c) /\ Mismo
    BY <1>0, <1>1, <2>2 DEF BuscarNodo, Esta, Espeja, discoVars, enDisco, enMemoria
  <2>4. "tomar_nodo" \notin Mudables \cup {"libre", "desasignar", "retomar_nodo"} \cup DeTruncar \cup DeCrear
    BY DEF Mudables, DeNacer, DeRenombrar, DeTruncar, DeCrear
  <2>5. QED
    BY <2>1, <2>2, <2>3, <2>4, PasaEspejo
<1>2. CASE TomarNodo(c)
  <2>1. pc[c] \in {"tomar_nodo", "retomar_nodo"}
    BY <1>2 DEF TomarNodo, Esta
  <2>2. pedido[c] # Nada /\ Espeja(c) /\ pc[c] \notin Mudables
    BY <2>1, EspejoDe, PuntosMudables DEF DeBuscar
  <2>3. pc[c] = "tomar_nodo" /\ Ir(c, "con_nodo") /\ EnDicc(c) /\ Mismo
    BY <1>0, <1>2, <2>1, <2>2 DEF TomarNodo, Esta, Espeja, Mirada, discoVars, enDisco, enMemoria
  <2>4. "con_nodo" \notin Mudables \cup {"libre", "desasignar", "retomar_nodo"} \cup DeTruncar \cup DeCrear
    BY DEF Mudables, DeNacer, DeRenombrar, DeTruncar, DeCrear
  <2>5. QED
    BY <2>1, <2>2, <2>3, <2>4, PasaEspejo
<1>3. CASE NoHayNodo(c)
  <2>1. /\ pc[c] = "libre" /\ pedido[c] # Nada /\ pedido[c].op \in {"GETATTR", "RENAME"} /\ ~EnDicc(c)
        /\ Responder(c, "error") /\ Mismo
    BY <1>0, <1>3 DEF NoHayNodo, Llega, discoVars, enDisco, enMemoria
  <2>2. ~Reposo /\ pc[c] \notin Mudables /\ pedido[c].ruta = Ruta(c) /\ DOMAIN antes = DOMAIN dicc
    BY <2>1, EspejoDe, PuntosMudables
  <2>3. ~A!Puede(pedido[c])
    BY <2>1, <2>2, LoQuePuede DEF EnDicc, Parte
  <2>4. QED
    BY <2>1, <2>2, <2>3, RespondeEspejo DEF Responder
<1>4. CASE NodoInvalido(c)
  BY <1>4, NadaEspejo DEF NodoInvalido, Caer, enDisco, enMemoria
<1>5. CASE Contestar(c) \/ Leer(c)
  <2>1. /\ pc[c] = "con_nodo" /\ pedido[c].op \in {"GETATTR", "UTIMES", "READ"} /\ Terminar(c, "libre", "ok") /\ Mismo
    BY <1>0, <1>5 DEF Contestar, Leer, Responder, Esta, discoVars, enDisco, enMemoria
  <2>2. pc[c] \notin Mudables
    BY <2>1, PuntosMudables DEF DeBuscar
  <2>3. /\ pedido[c] # Nada /\ ~Reposo /\ pedido[c].ruta = Ruta(c) /\ DOMAIN antes = DOMAIN dicc /\ Espeja(c)
    BY <2>1, <2>2, EspejoDe
  <2>4. Ruta(c) \in DOMAIN antes
    BY <2>1, <2>3 DEF Espeja, Mirada, EnDicc
  <2>5. A!Puede(pedido[c]) /\ A!Resultado(pedido[c]) = antes
    BY <2>1, <2>3, <2>4, LoQuePuede, LoQueResulta
  <2>6. QED
    BY <2>1, <2>2, <2>3, <2>5, RespondeEspejo
<1>6. QED
  BY <1>1, <1>2, <1>3, <1>4, <1>5 DEF AtenderNodo

-----------------------------------------------------------------------------
(* A path is created.                                                        *)

LEMMA EmpezarEspejo ==
  ASSUME UnMontaje, BloquesInv, ArbolInv, EspejoInv, NEW c \in Conexiones,
         AbrirExistente(c) \/ AbrirAusente(c) \/ CrearExistente(c) \/ CrearAusente(c)
  PROVE  EspejoInv' /\ Refleja
<1>0. Mismo
  <2>1. UNCHANGED <<tabla, dicc>>
    BY DEF AbrirExistente, AbrirAusente, CrearExistente, CrearAusente, discoVars, enDisco, enMemoria
  <2>2. QED
    BY <2>1, MismoDe
<1>1. pc[c] \in {"libre", "crear"} /\ (pc[c] = "libre" => pedido[c] # Nada)
  BY DEF AbrirExistente, AbrirAusente, CrearExistente, CrearAusente, EmpiezaACrear, Llega, Esta
<1>2. pc[c] \notin Mudables
  BY <1>1, PuntosMudables
<1>3. /\ pedido[c] # Nada /\ ~Reposo /\ pedido[c].ruta = Ruta(c) /\ DOMAIN antes = DOMAIN dicc /\ Espeja(c)
      /\ Sabe(c, pc[c], Nodo(c)) /\ (EnDicc(c) <=> pedido[c].ruta \in DOMAIN antes)
  <2>1. /\ pedido[c] # Nada /\ ~Reposo /\ pedido[c].ruta = Ruta(c) /\ DOMAIN antes = DOMAIN dicc /\ Espeja(c)
        /\ Sabe(c, pc[c], Nodo(c))
    BY <1>1, <1>2, EspejoDe
  <2>2. QED
    BY <2>1 DEF EnDicc
<1>4. \A punto \in {"crear", "elegir"} :
        /\ punto \notin Mudables \cup {"libre", "desasignar", "retomar_nodo"} \cup DeTruncar
        /\ punto \notin Mirada
  BY DEF Mudables, DeNacer, DeRenombrar, DeTruncar, Mirada
<1>5. CASE AbrirExistente(c)
  <2>1. pedido[c].op = "OPEN" /\ EnDicc(c)
    BY <1>5 DEF AbrirExistente, Llega
  <2>2. A!Resultado(pedido[c]) = antes
    BY <1>3, <2>1, LoQueResulta
  <2>3. CASE pedido[c].crear /\ pedido[c].asegurar
    <3>1. Responder(c, "error")
      BY <1>5, <2>3 DEF AbrirExistente
    <3>2. ~A!Puede(pedido[c])
      BY <1>3, <2>1, <2>3, LoQuePuede DEF Cabe
    <3>3. QED
      BY <1>0, <1>1, <1>2, <1>3, <3>1, <3>2, RespondeEspejo DEF Responder
  <2>4. CASE ~(pedido[c].crear /\ pedido[c].asegurar)
    <3>1. Responder(c, "ok")
      BY <1>5, <2>4 DEF AbrirExistente
    <3>2. A!Puede(pedido[c])
      <4>1. CASE pedido[c].crear
        BY <1>3, <2>1, <2>4, <4>1, LoQuePuede
      <4>2. CASE ~pedido[c].crear
        BY <1>3, <2>1, <4>2, LoQuePuede
      <4>3. QED
        BY <4>1, <4>2
    <3>3. QED
      BY <1>0, <1>1, <1>2, <1>3, <2>2, <3>1, <3>2, RespondeEspejo DEF Responder
  <2>5. QED
    BY <2>3, <2>4
<1>6. CASE AbrirAusente(c)
  <2>1. pedido[c].op = "OPEN" /\ ~EnDicc(c)
    BY <1>6 DEF AbrirAusente, Llega
  <2>2. CASE ~pedido[c].crear /\ Responder(c, "error")
    <3>1. ~A!Puede(pedido[c])
      BY <1>3, <2>1, <2>2, LoQuePuede
    <3>2. QED
      BY <1>0, <1>1, <1>2, <1>3, <2>2, <3>1, RespondeEspejo DEF Responder
  <2>3. CASE pedido[c].crear /\ Ir(c, "crear")
    BY <1>0, <1>1, <1>2, <1>3, <1>4, <2>3, PasaEspejo
  <2>4. QED
    BY <1>6, <2>2, <2>3 DEF AbrirAusente
<1>7. CASE CrearExistente(c)
  <2>1. EnDicc(c) /\ (pc[c] = "libre" => pedido[c].op \in {"MKNOD", "MKDIR"})
    BY <1>7 DEF CrearExistente, EmpiezaACrear, Llega, Esta
  <2>2. pc[c] = "libre" => ~EnDicc(c)
    BY <1>3, <2>1 DEF Espeja
  <2>3. pc[c] = "crear" => ~EnDicc(c)
    BY <1>3 DEF Sabe
  <2>4. QED
    BY <1>1, <2>1, <2>2, <2>3
<1>8. CASE CrearAusente(c)
  <2>1. Ir(c, "elegir") /\ (pc[c] = "libre" => pedido[c].op \in {"MKNOD", "MKDIR"})
    BY <1>8 DEF CrearAusente, EmpiezaACrear, Llega, Esta
  <2>2. pedido[c].op = "OPEN" => pedido[c].crear
    BY <1>1, <1>3, <2>1 DEF Espeja, DeCrear
  <2>3. QED
    BY <1>0, <1>1, <1>2, <1>3, <1>4, <2>1, <2>2, PasaEspejo
<1>9. QED
  BY <1>5, <1>6, <1>7, <1>8

(* The table is full: so is the tree. *)
LEMMA SinNodosEspejo ==
  ASSUME UnMontaje, BloquesInv, ArbolInv, EspejoInv, NEW c \in Conexiones, SinNodos(c)
  PROVE  EspejoInv' /\ Refleja
<1>1. pc[c] = "elegir" /\ pc[c] \in DeCrear /\ pc[c] \notin Mudables /\ NodosLibres = {} /\ Responder(c, "error") /\ Mismo
  BY PuntosMudables, MismoDe DEF SinNodos, Esta, DeCrear, discoVars, enDisco, enMemoria
<1>2. /\ pedido[c] # Nada /\ ~Reposo /\ pedido[c].ruta = Ruta(c) /\ DOMAIN antes = DOMAIN dicc /\ Espeja(c) /\ SacTipo
      /\ Plantado(dicc, tabla) /\ Sabe(c, "elegir", Nodo(c)) /\ pedido[c].op \in {"MKNOD", "MKDIR", "OPEN"}
  BY <1>1, EspejoDe, PuntoDeCrear
<1>3. UsadosDe(tabla) = Indices
  BY <1>1 DEF UsadosDe, NodosLibres
<1>4. PICK F : Da(F, tabla, dicc)
  BY <1>2 DEF Plantado
<1>5. Cardinality(DOMAIN dicc) = Nodos
  <2>1. \A p \in DOMAIN dicc : dicc[p] \in Indices /\ F[dicc[p]] = p
    BY <1>2, <1>4 DEF Da, SacTipo
  <2>2. \A i \in Indices : \E p \in DOMAIN dicc : dicc[p] = i
    BY <1>3, <1>4 DEF Da
  <2>3. \A p, q \in DOMAIN dicc : dicc[p] = dicc[q] => p = q
    BY <2>1
  <2>4. QED
    BY <2>1, <2>2, <2>3, NoSobra
<1>6. ~Cabe(pedido[c].ruta)
  <2>1. Nodos \in Nat
    BY Medidas
  <2>2. QED
    BY <1>2, <1>5, <2>1 DEF Cabe
<1>7. pedido[c].ruta \notin DOMAIN antes
  BY <1>2 DEF Sabe, EnDicc
<1>8. ~A!Puede(pedido[c])
  BY <1>2, <1>6, <1>7, LoQuePuede
<1>9. QED
  BY <1>1, <1>2, <1>8, RespondeEspejo DEF Responder

LEMMA ElegirEspejo ==
  ASSUME UnMontaje, BloquesInv, ArbolInv, EspejoInv, NEW c \in Conexiones, ElegirNodo(c)
  PROVE  EspejoInv' /\ Refleja
<1>1. pc[c] = "elegir" /\ pc[c] \in DeCrear /\ pc[c] \notin Mudables /\ pc[c] \notin DeNacer
  BY PuntosMudables DEF ElegirNodo, Esta, DeCrear, DeNacer
<1>2. /\ pedido[c] # Nada /\ DOMAIN antes = DOMAIN dicc /\ (\A p \in DOMAIN dicc : antes[p] = tabla[dicc[p]].estado)
      /\ Espeja(c) /\ SacTipo /\ Sabe(c, "elegir", Nodo(c))
  BY <1>1, EspejoDe
<1>3. PICK r, i : r = Ruta(c) /\ i = Min(NodosLibres) /\ r \notin DOMAIN dicc
  BY <1>2 DEF Sabe, EnDicc
<1>4. /\ dicc' = Pone(dicc, r, i) /\ Ir(c, "marcar") /\ tabla' = tabla /\ pedido' = pedido /\ pc'[c] = "marcar"
      /\ antes' = antes
  BY <1>2, <1>3 DEF ElegirNodo, enDisco, Ir, SacTipo
<1>5. DOMAIN dicc' = DOMAIN dicc \cup {r} /\ \A q \in DOMAIN dicc : dicc'[q] = dicc[q]
  BY <1>3, <1>4 DEF Pone
<1>6. Ruta(c)' = r
  BY <1>3, <1>4 DEF Ruta
<1>7. Brota(c)'
  BY <1>2, <1>3, <1>4, <1>5, <1>6 DEF Brota
<1>8. "marcar" \in DeNacer /\ "marcar" \notin DeRenombrar \cup {"desasignar", "retomar_nodo"} \cup DeTruncar \cup Mirada
  BY DEF DeNacer, DeRenombrar, DeTruncar, Mirada
<1>9. pedido[c].op = "OPEN" => pedido[c].crear
  BY <1>1, <1>2 DEF Espeja
<1>10. Espeja(c)'
  BY <1>4, <1>7, <1>8, <1>9 DEF Espeja, Mudables
<1>11. RaizBien'
  BY <1>4 DEF EspejoInv, RaizBien
<1>12. QED
  BY <1>2, <1>4, <1>10, <1>11, SigueEspejo

(* The nodes of the tree are not the one that is being created. *)
LEMMA Ajenos ==
  ASSUME UnMontaje, BloquesInv, ArbolInv, EspejoInv, NEW c \in Conexiones, pc[c] \in DeNacer
  PROVE  /\ \A p \in DOMAIN antes : p \in DOMAIN dicc /\ dicc[p] \in Indices \ {Nodo(c)}
         /\ \A p, q \in DOMAIN antes : dicc[p] = dicc[q] => p = q
         /\ Brota(c) /\ Naciendo(c) /\ Nodo(c) \in Indices \ {0} /\ SacTipo
         /\ pedido[c] # Nada /\ Espeja(c)
<1>1. Naciendo(c) /\ SacTipo /\ pedido[c] # Nada /\ Nodo(c) \in Indices \ {0} /\ Ruta(c) \in DOMAIN dicc
  BY NaciendoDe
<1>2. Espeja(c) /\ Brota(c)
  BY <1>1 DEF EspejoInv, Espeja
<1>3. PICK r, i, t, e : /\ r = Ruta(c) /\ i = Nodo(c) /\ i \in Indices /\ t = SinNodo(tabla, i) /\ e = Sin(dicc, r)
  BY <1>1
<1>4. Plantado(e, t) /\ tabla \in [Indices -> NodoTipo]
  BY <1>1, <1>3 DEF Naciendo, SacTipo
<1>5. DOMAIN e = DOMAIN dicc \ {r} /\ \A p \in DOMAIN e : e[p] = dicc[p]
  BY <1>3 DEF Sin
<1>6. DOMAIN antes = DOMAIN e
  BY <1>2, <1>3, <1>5 DEF Brota
<1>7. t[i].estado = 0
  BY <1>3, <1>4, SinNodoIgual
<1>8. \A p \in DOMAIN e : e[p] \in UsadosDe(t)
  BY <1>4, DePlantado
<1>9. \A p, q \in DOMAIN e : e[p] = e[q] => p = q
  BY <1>4, DePlantado
<1>10. \A p \in DOMAIN antes : p \in DOMAIN dicc /\ dicc[p] \in Indices \ {i}
  BY <1>5, <1>6, <1>7, <1>8 DEF UsadosDe
<1>11. \A p, q \in DOMAIN antes : dicc[p] = dicc[q] => p = q
  BY <1>5, <1>6, <1>9
<1>12. QED
  BY <1>1, <1>2, <1>3, <1>10, <1>11

LEMMA NacerEspejo ==
  ASSUME UnMontaje, BloquesInv, ArbolInv, EspejoInv, NEW c \in Conexiones,
         MarcarNodo(c) \/ BuscarPadre(c) \/ NombrarNodo(c)
  PROVE  EspejoInv' /\ Refleja
<1>1. pc[c] \in DeNacer /\ pc[c] \in DeCrear /\ dicc' = dicc
  BY DEF MarcarNodo, BuscarPadre, NombrarNodo, Esta, DeNacer, DeCrear, discoVars, enMemoria
<1>2. /\ \A p \in DOMAIN antes : dicc[p] \in Indices \ {Nodo(c)}
      /\ Brota(c) /\ Nodo(c) \in Indices \ {0} /\ SacTipo /\ pedido[c] # Nada /\ Espeja(c)
  BY <1>1, Ajenos
<1>3. PICK punto : punto \in DeNacer /\ Ir(c, punto)
  BY DEF MarcarNodo, BuscarPadre, NombrarNodo, DeNacer
<1>4. pc'[c] = punto /\ pedido' = pedido /\ antes' = antes /\ Ruta(c)' = Ruta(c)
  BY <1>2, <1>3 DEF Ir, SacTipo, Ruta
<1>5. PICK i : i = Nodo(c)
  OBVIOUS
<1>6. \A j \in Indices : j # i => tabla'[j] = tabla[j]
  <2>1. \/ tabla' = tabla
        \/ tabla' = [tabla EXCEPT ![i].estado = Tipo(c)]
        \/ tabla' = [tabla EXCEPT ![i].nombre = ElNombre(Ruta(c))]
    BY <1>5 DEF MarcarNodo, BuscarPadre, NombrarNodo, discoVars, enDisco
  <2>2. DOMAIN tabla = Indices
    BY <1>2 DEF SacTipo
  <2>3. QED
    BY <2>1, <2>2
<1>7. Brota(c)'
  BY <1>1, <1>2, <1>4, <1>5, <1>6 DEF Brota
<1>8. punto \in Mudables /\ punto \notin DeRenombrar \cup {"desasignar", "retomar_nodo", "libre"} \cup DeTruncar \cup Mirada
  BY <1>3 DEF DeNacer, DeRenombrar, DeTruncar, Mirada, Mudables
<1>9. pedido[c].op = "OPEN" => pedido[c].crear
  BY <1>1, <1>2 DEF Espeja
<1>10. Espeja(c)'
  BY <1>3, <1>4, <1>7, <1>8, <1>9 DEF Espeja
<1>11. RaizBien'
  <2>1. tabla'[0] = tabla[0]
    BY <1>2, <1>5, <1>6, Medidas
  <2>2. QED
    BY <2>1 DEF EspejoInv, RaizBien
<1>12. QED
  BY <1>2, <1>3, <1>10, <1>11, SigueEspejo

LEMMA PadreAjeno ==
  ASSUME NEW s \in [Indices -> NodoTipo], NEW i, NEW b, NEW w, w = [s EXCEPT ![i].padre = b]
  PROVE  \A j \in Indices : w[j].estado = s[j].estado /\ w[j].nombre = s[j].nombre
BY DEF NodoTipo

LEMMA ApadrinarEspejo ==
  ASSUME UnMontaje, BloquesInv, ArbolInv, EspejoInv, NEW c \in Conexiones, pc[c] = "apadrinar", ApadrinarNodo(c)
  PROVE  EspejoInv' /\ Refleja
<1>1. pc[c] \in DeNacer /\ pc[c] \in DeCrear
  BY DEF DeNacer, DeCrear
<1>2. /\ \A p \in DOMAIN antes : p \in DOMAIN dicc /\ dicc[p] \in Indices \ {Nodo(c)}
      /\ \A p, q \in DOMAIN antes : dicc[p] = dicc[q] => p = q
      /\ Brota(c) /\ Naciendo(c) /\ Nodo(c) \in Indices \ {0} /\ SacTipo /\ pedido[c] # Nada /\ Espeja(c)
  BY <1>1, Ajenos
<1>3. ~Reposo /\ pedido[c].op \in {"MKNOD", "MKDIR", "OPEN"} /\ pedido[c].ruta = Ruta(c)
  BY <1>1, <1>2, PuntoDeCrear DEF Reposo, Ruta
<1>4. PICK r, i, e : r = Ruta(c) /\ i = Nodo(c) /\ e = Tipo(c) /\ i \in Indices \ {0}
  BY <1>2
<1>5. /\ r \in DOMAIN dicc /\ dicc[r] = i /\ EsDir(Front(r)) /\ dicc[Front(r)] # i /\ tabla[i].estado = e
  BY <1>2, <1>4 DEF Naciendo, EnDicc
<1>6. /\ r \notin DOMAIN antes /\ DOMAIN dicc = DOMAIN antes \cup {r}
      /\ \A p \in DOMAIN antes : antes[p] = tabla[dicc[p]].estado
  BY <1>2, <1>4 DEF Brota
<1>7. dicc' = dicc /\ Responder(c, "ok") /\ tabla' = [tabla EXCEPT ![i].padre = BloqueDelPadre(c)]
  BY <1>4 DEF ApadrinarNodo, enMemoria
<1>8. \A j \in Indices : tabla'[j].estado = tabla[j].estado /\ tabla'[j].nombre = tabla[j].nombre
  <2>1. PICK b : tabla' = [tabla EXCEPT ![i].padre = b]
    BY <1>7
  <2>2. tabla \in [Indices -> NodoTipo]
    BY <1>2 DEF SacTipo
  <2>3. QED
    BY <2>1, <2>2, PadreAjeno
<1>9. Arbol' = Pone(antes, r, e)
  <2>1. DOMAIN Arbol' = DOMAIN antes \cup {r} /\ DOMAIN Pone(antes, r, e) = DOMAIN antes \cup {r}
    BY <1>6, <1>7 DEF Arbol, Pone
  <2>2. \A p \in DOMAIN antes \cup {r} : Arbol'[p] = tabla[dicc[p]].estado
    BY <1>2, <1>4, <1>5, <1>6, <1>7, <1>8 DEF Arbol
  <2>3. \A p \in DOMAIN antes \cup {r} : Arbol'[p] = Pone(antes, r, e)[p]
    BY <1>5, <1>6, <2>2 DEF Pone
  <2>4. QED
    BY <1>6, <1>7, <2>1, <2>3 DEF Arbol, Pone
<1>10. Cabe(r)
  <2>1. Front(r) \in DOMAIN antes /\ antes[Front(r)] = 2
    BY <1>5, <1>6 DEF EsDir
  <2>2. Cardinality(DOMAIN antes) < Nodos
    BY <1>2, <1>4, Sobra
  <2>3. QED
    BY <1>6, <2>1, <2>2 DEF Cabe
<1>11. A!Puede(pedido[c])
  <2>1. pedido[c].op = "OPEN" => pedido[c].crear
    BY <1>1, <1>2 DEF Espeja
  <2>2. QED
    BY <1>3, <1>4, <1>10, <2>1, LoQuePuede
<1>12. A!Resultado(pedido[c]) = Pone(antes, r, e)
  BY <1>3, <1>4, <1>6, LoQueResulta DEF Tipo
<1>13. RaizBien'
  BY <1>8, Medidas DEF EspejoInv, RaizBien
<1>14. QED
  BY <1>2, <1>7, <1>9, <1>11, <1>12, <1>13, ContestaEspejo DEF Responder

-----------------------------------------------------------------------------
(* A path is removed.                                                        *)

LEMMA SacarEspejo ==
  ASSUME UnMontaje, BloquesInv, ArbolInv, EspejoInv, NEW c \in Conexiones,
         pc[c] \notin Mudables \cup {"libre", "colgado"}, NEW r, r = Ruta(c), r \in DOMAIN dicc, NEW i, i = dicc[r],
         tabla' = [tabla EXCEPT ![i].estado = 0, ![i].tamanio = 0], dicc' = Sin(dicc, r), Responder(c, "ok"),
         pedido[c].op \in {"RMDIR", "UNLINK"}, A!Puede(pedido[c])
  PROVE  EspejoInv' /\ Refleja
<1>1. /\ pedido[c] # Nada /\ ~Reposo /\ SacTipo /\ pedido[c].ruta = r /\ Plantado(dicc, tabla)
      /\ DOMAIN antes = DOMAIN dicc /\ \A p \in DOMAIN dicc : antes[p] = tabla[dicc[p]].estado
  BY EspejoDe
<1>2. tabla \in [Indices -> NodoTipo] /\ i \in Indices
  BY <1>1 DEF SacTipo
<1>3. PICK u : u = tabla' /\ u[i].estado = 0 /\ \A j \in Indices : j # i => u[j] = tabla[j]
  <2>1. PICK u : u = tabla'
    OBVIOUS
  <2>2. u = [tabla EXCEPT ![i].estado = 0, ![i].tamanio = 0]
    BY <2>1
  <2>3. u[i].estado = 0 /\ \A j \in Indices : j # i => u[j] = tabla[j]
    BY <1>2, <2>2, NodoMuerto
  <2>4. QED
    BY <2>1, <2>3
<1>4. \A p \in DOMAIN dicc \ {r} : dicc[p] \in Indices \ {i}
  BY <1>1, DePlantado DEF SacTipo
<1>5. DOMAIN dicc' = DOMAIN dicc \ {r} /\ \A p \in DOMAIN dicc' : dicc'[p] = dicc[p]
  BY DEF Sin
<1>6. Arbol' = Sin(antes, r)
  <2>1. PICK d, a : d = dicc' /\ a = Sin(antes, r)
    OBVIOUS
  <2>2. DOMAIN d = DOMAIN dicc \ {r} /\ DOMAIN a = DOMAIN dicc \ {r} /\ a = [p \in DOMAIN dicc \ {r} |-> antes[p]]
    BY <1>1, <1>5, <2>1 DEF Sin
  <2>3. ASSUME NEW p \in DOMAIN dicc \ {r} PROVE u[d[p]].estado = antes[p]
    <3>1. d[p] = dicc[p] /\ dicc[p] \in Indices \ {i}
      BY <1>4, <1>5, <2>1, <2>2
    <3>2. u[dicc[p]] = tabla[dicc[p]]
      BY <1>3, <3>1
    <3>3. QED
      BY <1>1, <3>1, <3>2
  <2>4. Arbol' = [p \in DOMAIN dicc \ {r} |-> u[d[p]].estado]
    BY <1>3, <2>1, <2>2 DEF Arbol
  <2>5. QED
    BY <2>1, <2>2, <2>3, <2>4
<1>7. A!Resultado(pedido[c]) = Sin(antes, r)
  BY <1>1, LoQueResulta
<1>8. RaizBien'
  <2>1. tabla'[0].estado # 0 => tabla'[0] = tabla[0]
    BY <1>3, Medidas
  <2>2. QED
    BY <2>1 DEF EspejoInv, RaizBien
<1>9. QED
  BY <1>1, <1>6, <1>7, <1>8, ContestaEspejo DEF Responder

-----------------------------------------------------------------------------
(* The directories.                                                          *)

LEMMA PrefijoEnDicc ==
  ASSUME NEW d, NEW t, Plantado(d, t), NEW q \in DOMAIN d, NEW p \in Seq(LosNombres), IsPrefix(p, q)
  PROVE  p \in DOMAIN d
<1>1. PICK F : Arbolado(F, t) /\ Da(F, t, d)
  BY DEF Plantado
<1>2. PICK i \in UsadosDe(t) : F[i] = q /\ F[i] \in Seq(LosNombres)
  BY <1>1, RutaDeNodo DEF Da
<1>3. Len(p) \in 0..Len(F[i]) /\ p = SubSeq(q, 1, Len(p))
  BY <1>2, Prefijo DEF IsPrefix
<1>4. PICK j \in UsadosDe(t) : F[j] = SubSeq(F[i], 1, Len(p))
  BY <1>1, <1>3, Ancestros
<1>5. QED
  BY <1>1, <1>2, <1>3, <1>4 DEF Da

LEMMA PadreEsPrefijo ==
  ASSUME NEW S, NEW p \in Seq(S), p # <<>>
  PROVE  IsStrictPrefix(Front(p), p)
<1>1. PICK s \in Seq(S), e \in S : p = Append(s, e)
  BY SequenceEmptyOrAppend
<1>2. Front(p) = s /\ Len(p) = Len(s) + 1 /\ Len(s) \in Nat
  BY <1>1, RutaMasNombre
<1>3. \A k \in 1..Len(s) : s[k] = p[k]
  BY <1>1, AppendProperties
<1>4. IsPrefix(s, p)
  BY <1>2, <1>3, Prefijo
<1>5. s # p
  BY <1>2
<1>6. QED
  BY <1>2, <1>4, <1>5 DEF IsStrictPrefix

LEMMA SinDescendientes ==
  ASSUME Plantado(dicc, tabla), NEW r \in DOMAIN dicc, SinHijos(r), NEW q \in DOMAIN dicc
  PROVE  ~IsStrictPrefix(r, q)
<1>1. SUFFICES ASSUME IsPrefix(r, q), r # q PROVE FALSE
  BY DEF IsStrictPrefix
<1>2. r \in Seq(LosNombres) /\ q \in Seq(LosNombres)
  BY DePlantado
<1>3. Len(r) \in Nat /\ Len(q) \in Nat /\ Len(r) <= Len(q) /\ \A k \in 1..Len(r) : r[k] = q[k]
  BY <1>1, <1>2, Prefijo
<1>4. Len(r) # Len(q)
  BY <1>1, <1>2, <1>3, SeqEqual
<1>5. PICK e \in LosNombres : e = q[Len(r) + 1]
  BY <1>2, <1>3, <1>4
<1>6. PICK p \in Seq(LosNombres) : p = Append(r, e) /\ p # <<>> /\ Len(p) = Len(r) + 1 /\ Front(p) = r
  BY <1>2, RutaMasNombre
<1>7. \A k \in 1..Len(p) : p[k] = q[k]
  <2>1. p[Len(r) + 1] = e /\ \A k \in 1..Len(r) : p[k] = r[k]
    BY <1>2, <1>6, AppendProperties
  <2>2. QED
    BY <1>3, <1>5, <1>6, <2>1
<1>8. IsPrefix(p, q)
  <2>1. Len(p) <= Len(q)
    BY <1>3, <1>4, <1>6
  <2>2. QED
    BY <1>2, <1>7, <2>1, Prefijo
<1>9. p \in DOMAIN dicc
  BY <1>8, PrefijoEnDicc
<1>10. QED
  BY <1>6, <1>9 DEF SinHijos

(* What the listing of a directory shows is under it in the tree. *)
LEMMA EntradaEsHijo ==
  ASSUME SacTipo, RaizBien, Plantado(dicc, tabla), NEW r \in DOMAIN dicc, Entradas(dicc[r]) # {}
  PROVE  \E q \in DOMAIN dicc : IsStrictPrefix(r, q)
<1>1. PICK j : j \in Indices /\ tabla[j].nombre # Barra /\ tabla[j].estado # 0 /\ tabla[j].padre = BloqueDe(dicc[r])
  BY DEF Entradas
<1>2. j # 0
  BY <1>1 DEF RaizBien
<1>3. PICK F : Arbolado(F, tabla) /\ Da(F, tabla, dicc)
  BY DEF Plantado
<1>4. PICK q : q = F[j] /\ q \in DOMAIN dicc /\ dicc[q] = j
  BY <1>1, <1>3 DEF Da, UsadosDe
<1>5. /\ q # <<>> /\ q \in Seq(LosNombres) /\ Front(q) \in DOMAIN dicc
      /\ tabla[j].padre = BloqueDe(dicc[Front(q)])
  BY <1>2, <1>4, DePlantado
<1>6. dicc[r] \in Indices /\ dicc[Front(q)] \in Indices
  BY <1>5 DEF SacTipo
<1>7. dicc[Front(q)] = dicc[r]
  BY <1>1, <1>5, <1>6, PadreDelBloque
<1>8. Front(q) = r
  BY <1>5, <1>7, DePlantado
<1>9. QED
  BY <1>4, <1>5, <1>8, PadreEsPrefijo

LEMMA DirectorioEspejo ==
  ASSUME UnMontaje, BloquesInv, ArbolInv, EspejoInv, NEW c \in Conexiones, Directorio(c)
  PROVE  EspejoInv' /\ Refleja
<1>1. /\ pc[c] \in {"libre"} \cup DeListar /\ (pc[c] = "libre" => pedido[c] # Nada)
      /\ pedido[c].op \in {"READDIR", "RMDIR"} \/ pc[c] \in DeListar
  BY DEF Directorio, BuscarEntradas, NoHayDirectorio, TomarDirectorio, Listar, EmpezarRmdir, RevisarEntradas,
         BorrarDirectorio, EmpiezaEntradas, Llega, Esta, DeListar
<1>2. pc[c] # "colgado" /\ pc[c] \notin Mudables
  BY <1>1, PuntosMudables DEF DeListar
<1>3. /\ pedido[c] # Nada /\ ~Reposo /\ Espeja(c) /\ SacTipo /\ pedido[c].ruta = Ruta(c)
      /\ DOMAIN antes = DOMAIN dicc /\ (\A p \in DOMAIN dicc : antes[p] = tabla[dicc[p]].estado)
      /\ Plantado(dicc, tabla) /\ Vio(c) /\ Sabe(c, pc[c], Nodo(c))
  BY <1>1, <1>2, EspejoDe DEF DeListar
<1>4. PICK r : r = Ruta(c) /\ (EnDicc(c) <=> r \in DOMAIN dicc) /\ (EnDicc(c) <=> pedido[c].ruta \in DOMAIN antes)
  BY <1>3 DEF EnDicc
<1>5. UNCHANGED discoVars => Mismo
  BY MismoDe DEF discoVars, enDisco, enMemoria
<1>6. \A punto \in DeListar :
        /\ punto \notin Mudables \cup {"libre", "desasignar", "retomar_nodo"} \cup DeTruncar
        /\ punto \notin DeCrear
  BY DEF DeListar, Mudables, DeNacer, DeRenombrar, DeTruncar, DeCrear
<1>7. pedido[c].op = "RMDIR" => r \in DOMAIN dicc /\ EnDicc(c)
  BY <1>3, <1>4 DEF Vio, EsDir
<1>8. pc[c] \in {"tomar_directorio", "listar"} => EnDicc(c)
  BY <1>3 DEF Espeja, Mirada
<1>9. ASSUME NEW punto \in DeListar, Ir(c, punto), UNCHANGED discoVars, punto \in Mirada => EnDicc(c)
      PROVE  EspejoInv' /\ Refleja
  BY <1>2, <1>3, <1>5, <1>6, <1>9, PasaEspejo
<1>10. ASSUME UNCHANGED discoVars, Responder(c, "error"), ~A!Puede(pedido[c])
       PROVE  EspejoInv' /\ Refleja
  BY <1>2, <1>3, <1>5, <1>10, RespondeEspejo DEF Responder
<1>11. "entradas" \in DeListar \ Mirada /\ "borrar_directorio" \in DeListar \ Mirada
       /\ "tomar_directorio" \in DeListar /\ "listar" \in DeListar
  BY DEF DeListar, Mirada
<1>12. CASE BuscarEntradas(c)
  BY <1>9, <1>11, <1>12 DEF BuscarEntradas
<1>13. CASE NoHayDirectorio(c)
  <2>1. pedido[c].op = "READDIR" /\ ~EnDicc(c) /\ Responder(c, "error") /\ UNCHANGED discoVars
    BY <1>7, <1>13 DEF NoHayDirectorio
  <2>2. ~A!Puede(pedido[c])
    BY <1>3, <1>4, <2>1, LoQuePuede
  <2>3. QED
    BY <1>10, <2>1, <2>2
<1>14. CASE TomarDirectorio(c)
  BY <1>8, <1>9, <1>11, <1>14 DEF TomarDirectorio, Esta
<1>15. CASE Listar(c)
  <2>1. pedido[c].op = "READDIR" /\ EnDicc(c) /\ Responder(c, "ok") /\ Mismo
    BY <1>5, <1>8, <1>15 DEF Listar, Esta
  <2>2. A!Puede(pedido[c]) /\ A!Resultado(pedido[c]) = antes
    BY <1>3, <1>4, <2>1, LoQuePuede, LoQueResulta
  <2>3. QED
    BY <1>2, <1>3, <2>1, <2>2, RespondeEspejo DEF Responder
<1>16. CASE EmpezarRmdir(c)
  <2>1. pedido[c].op = "RMDIR"
    BY <1>16 DEF EmpezarRmdir, Llega
  <2>2. QED
    BY <1>7, <1>9, <1>11, <1>16, <2>1 DEF EmpezarRmdir
<1>17. CASE RevisarEntradas(c)
  <2>1. pc[c] = "listar" /\ pedido[c].op = "RMDIR" /\ UNCHANGED discoVars
    BY <1>17 DEF RevisarEntradas, Esta
  <2>2. CASE Ir(c, "borrar_directorio")
    BY <1>9, <1>11, <2>1, <2>2
  <2>3. CASE Entradas(Nodo(c)) # {} /\ Responder(c, "error")
    <3>1. Nodo(c) = dicc[r] /\ r \in DOMAIN dicc
      BY <1>3, <1>4, <1>7, <2>1 DEF Sabe
    <3>2. PICK q \in DOMAIN dicc : IsStrictPrefix(r, q)
      BY <1>3, <2>3, <3>1, EntradaEsHijo DEF EspejoInv
    <3>3. ~A!Puede(pedido[c])
      BY <1>3, <1>4, <2>1, <3>2, LoQuePuede
    <3>4. QED
      BY <1>10, <2>1, <2>3, <3>3
  <2>4. QED
    BY <1>17, <2>2, <2>3 DEF RevisarEntradas
<1>18. CASE BorrarDirectorio(c)
  <2>1. pc[c] = "borrar_directorio"
    BY <1>18 DEF BorrarDirectorio, Esta
  <2>2. pedido[c].op = "RMDIR" /\ SinHijos(r) /\ r \in DOMAIN dicc /\ tabla[dicc[r]].estado = 2
    BY <1>3, <1>4, <2>1 DEF Sabe, Vio, EsDir
  <2>3. PICK i : i = dicc[r] /\ i = Saca(r)
    BY <2>2 DEF Saca
  <2>4. tabla' = [tabla EXCEPT ![i].estado = 0, ![i].tamanio = 0] /\ dicc' = Sin(dicc, r) /\ Responder(c, "ok")
    BY <1>4, <1>18, <2>3 DEF BorrarDirectorio
  <2>5. \A q \in DOMAIN antes : ~IsStrictPrefix(r, q)
    BY <1>3, <2>2, SinDescendientes
  <2>6. A!Puede(pedido[c])
    BY <1>3, <1>4, <2>2, <2>5, LoQuePuede
  <2>7. QED
    BY <1>2, <1>4, <2>1, <2>2, <2>3, <2>4, <2>6, SacarEspejo
<1>19. QED
  BY <1>12, <1>13, <1>14, <1>15, <1>16, <1>17, <1>18 DEF Directorio

-----------------------------------------------------------------------------
(* A file is removed; nothing else is asked of the data.                     *)

LEMMA UnlinkEspejo ==
  ASSUME UnMontaje, BloquesInv, ArbolInv, EspejoInv, NEW c \in Conexiones, Unlink(c)
  PROVE  EspejoInv' /\ Refleja
<1>1. /\ pc[c] \in {"libre", "tomar_unlink"} \cup DeLimpiar /\ (pc[c] = "libre" => pedido[c] # Nada)
      /\ pc[c] = "libre" => pedido[c].op = "UNLINK"
  BY DEF Unlink, EmpezarUnlink, TomarUnlink, LimpiarSuelta, LimpiarDato, LimpiarPuntero, TerminarUnlink,
         Vaciando, Llega, Esta, DeLimpiar
<1>2. pc[c] # "colgado" /\ pc[c] \notin Mudables
  BY <1>1, PuntosMudables, PuntosDeDatos DEF DeLimpiar
<1>3. /\ pedido[c] # Nada /\ ~Reposo /\ Espeja(c) /\ SacTipo /\ pedido[c].ruta = Ruta(c)
      /\ DOMAIN antes = DOMAIN dicc /\ (\A p \in DOMAIN dicc : antes[p] = tabla[dicc[p]].estado)
      /\ Vio(c) /\ Sabe(c, pc[c], Nodo(c))
  BY <1>1, <1>2, EspejoDe
<1>4. pedido[c].op = "UNLINK" /\ (pc[c] \in DeLimpiar => Nodo(c) = dicc[Ruta(c)])
  BY <1>1, <1>3 DEF Sabe
<1>5. PICK r : r = Ruta(c) /\ r \in DOMAIN dicc /\ tabla[dicc[r]].estado = 1 /\ EnDicc(c)
  BY <1>3, <1>4 DEF Vio, EnDicc
<1>6. \A punto \in {"tomar_unlink"} \cup DeLimpiar :
        /\ punto \notin Mudables \cup {"libre", "desasignar", "retomar_nodo"} \cup DeTruncar
        /\ punto \notin DeCrear \cup Mirada
  BY DEF DeLimpiar, Mudables, DeNacer, DeRenombrar, DeTruncar, DeCrear, Mirada
<1>7. ASSUME NEW punto \in {"tomar_unlink"} \cup DeLimpiar, Ir(c, punto), Mismo
      PROVE  EspejoInv' /\ Refleja
  BY <1>2, <1>3, <1>6, <1>7, PasaEspejo
<1>8. CASE EmpezarUnlink(c)
  <2>1. Ir(c, "tomar_unlink") /\ UNCHANGED discoVars
    BY <1>5, <1>8 DEF EmpezarUnlink
  <2>2. Mismo
    BY <2>1, MismoDe DEF discoVars, enDisco, enMemoria
  <2>3. QED
    BY <1>7, <2>1, <2>2
<1>9. CASE TomarUnlink(c)
  <2>1. Ir(c, "limpiar") /\ tabla' = tabla /\ dicc' = dicc
    BY <1>9 DEF TomarUnlink, enDisco
  <2>2. Mismo /\ "limpiar" \in DeLimpiar
    BY <2>1, MismoDe DEF DeLimpiar
  <2>3. QED
    BY <1>7, <2>1, <2>2
<1>10. CASE LimpiarSuelta(c) \/ LimpiarDato(c) \/ LimpiarPuntero(c)
  <2>1. pc[c] \in DeLimpiar
    BY <1>10 DEF LimpiarSuelta, LimpiarDato, LimpiarPuntero, Vaciando, Esta, DeLimpiar
  <2>2. PICK punto \in DeLimpiar : Ir(c, punto)
    BY <1>10 DEF LimpiarSuelta, LimpiarDato, LimpiarPuntero, DeLimpiar
  <2>3. PICK i \in Indices : i = Nodo(c)
    BY <1>3, <1>4, <1>5, <2>1 DEF SacTipo
  <2>4. /\ tabla' = tabla \/ \E p, b : tabla' = [tabla EXCEPT ![i].punteros[p] = b]
        /\ dicc' = dicc
    BY <1>10, <2>3 DEF LimpiarSuelta, LimpiarDato, LimpiarPuntero, Apuntar, enDisco, enMemoria
  <2>5. Mismo
    BY <1>3, <2>4, MismoDe
  <2>6. QED
    BY <1>7, <2>2, <2>5
<1>11. CASE TerminarUnlink(c)
  <2>1. pc[c] \in DeLimpiar /\ pc[c] # "libre"
    BY <1>11 DEF TerminarUnlink, Esta, DeLimpiar
  <2>2. PICK i : i = Nodo(c) /\ i = dicc[r]
    BY <1>4, <1>5, <2>1
  <2>3. tabla' = [tabla EXCEPT ![i].estado = 0, ![i].tamanio = 0] /\ dicc' = Sin(dicc, r) /\ Responder(c, "ok")
    BY <1>5, <1>11, <2>2 DEF TerminarUnlink
  <2>4. A!Puede(pedido[c])
    BY <1>3, <1>4, <1>5, LoQuePuede
  <2>5. QED
    BY <1>2, <1>4, <1>5, <2>1, <2>2, <2>3, <2>4, SacarEspejo
<1>12. QED
  BY <1>8, <1>9, <1>10, <1>11 DEF Unlink

LEMMA SinDatos ==
  ASSUME SoloArbol, UnMontaje, BloquesInv, ArbolInv, EspejoInv, NEW c \in Conexiones
  PROVE  ~Write(c) /\ ~Truncate(c)
<1>1. ASSUME Write(c) PROVE FALSE
  <2>1. pc[c] \in DeEscribir \/ (pc[c] = "con_nodo" /\ pedido[c].op = "WRITE")
    BY <1>1 DEF Write, TomarBPD, ApuntarBPD, HayBPD, TomarDato, ApuntarDato, SinBloques, EscribirBytes,
           FaltaBPD, FaltaDato, Esta, DeEscribir
  <2>2. pc[c] \notin {"libre", "colgado"}
    BY <2>1 DEF DeEscribir
  <2>3. pedido[c].op = "WRITE" /\ pedido[c] \in Pedibles[c]
    BY <2>1, <2>2, PedidoDe DEF BloquesInv, Sirve
  <2>4. QED
    BY <2>3 DEF SoloArbol
<1>2. ASSUME Truncate(c) PROVE FALSE
  <2>1. pc[c] \in DeTruncar \/ (pc[c] = "con_nodo" /\ pedido[c].op = "TRUNCATE")
    BY <1>2 DEF Truncate, EmpezarTruncate, NoTruncar, VaciarDato, VaciarPuntero, SoltarBloque, DesapuntarBloque,
           TerminarTruncate, Vaciando, Esta, DeTruncar
  <2>2. pc[c] \notin {"libre", "colgado"}
    BY <2>1 DEF DeTruncar
  <2>3. pedido[c] # Nada /\ pedido[c] \in Pedibles[c]
    BY <2>2, PedidoDe
  <2>4. pc[c] \notin DeTruncar
    BY <2>3 DEF EspejoInv, Espeja
  <2>5. QED
    BY <2>1, <2>3, <2>4 DEF SoloArbol
<1>3. QED
  BY <1>1, <1>2

-----------------------------------------------------------------------------
(* A path moves, with those under it.                                        *)

EsMudado(b, a, v, n) ==
  /\ DOMAIN b = {Traslada(q, v, n) : q \in DOMAIN a} /\ b = [m \in DOMAIN b |-> b[m]]
  /\ \A q \in DOMAIN a : b[Traslada(q, v, n)] = a[q]

LEMMA MudadoEs ==
  ASSUME ~Reposo, NEW v, NEW n, NEW d, NEW t, Viaja(antes, d, t, v, n)
  PROVE  EsMudado(A!Mudado(v, n), antes, v, n)
<1>1. \A q : A!Trasladada(q, v, n) = Traslada(q, v, n)
  BY LasDeRutas
<1>2. PICK a : a = IF Reposo THEN Arbol ELSE antes
  OBVIOUS
<1>3. a = antes
  BY <1>2
<1>4. DOMAIN A!Mudado(v, n) = {Traslada(q, v, n) : q \in DOMAIN antes}
  BY <1>1 DEF A!Mudado
<1>5. A!Mudado(v, n) = [m \in DOMAIN A!Mudado(v, n) |-> A!Mudado(v, n)[m]]
  BY DEF A!Mudado
<1>6. ASSUME NEW q \in DOMAIN antes PROVE A!Mudado(v, n)[Traslada(q, v, n)] = antes[q]
  BY <1>1 DEF A!Mudado, Viaja
<1>7. QED
  BY <1>4, <1>5, <1>6 DEF EsMudado

LEMMA NombreAjeno ==
  ASSUME NEW s \in [Indices -> NodoTipo], NEW i, NEW b, NEW w, w = [s EXCEPT ![i].nombre = b]
  PROVE  /\ \A j \in Indices : w[j].estado = s[j].estado
         /\ \A j \in Indices : j # i => w[j] = s[j]
BY DEF NodoTipo

LEMMA PasaViaja ==
  ASSUME NEW a, NEW d, NEW t, NEW v \in Seq(LosNombres), NEW n \in Seq(LosNombres), Viaja(a, d, t, v, n),
         DOMAIN d \subseteq Seq(LosNombres), NEW r, NEW m, NEW e, Pasa(d, r, m, e, v, n)
  PROVE  Viaja(a, e, t, v, n)
<1>1. /\ r \in DOMAIN d /\ r \in Seq(LosNombres) /\ ~IsPrefix(v, n) /\ ~IsPrefix(n, v) /\ m = Traslada(r, v, n)
      /\ DOMAIN e = (DOMAIN d \ {r}) \cup {m} /\ e[m] = d[r]
      /\ \A q \in DOMAIN d \ {r} : q # m => e[q] = d[q]
  BY DEF Pasa
<1>2. Traslada(m, v, n) = m
  BY <1>1, RutaQueNoSeMueve
<1>3. \A p, q \in DOMAIN a : Traslada(p, v, n) = Traslada(q, v, n) => p = q
  BY DEF Viaja
<1>4. \A p \in DOMAIN d : \E q \in DOMAIN a : Traslada(q, v, n) = Traslada(p, v, n) /\ a[q] = t[d[p]].estado
  BY DEF Viaja
<1>5. \A q \in DOMAIN a : \E p \in DOMAIN d : Traslada(p, v, n) = Traslada(q, v, n)
  BY DEF Viaja
<1>6. ASSUME NEW p \in DOMAIN e
      PROVE  \E q \in DOMAIN a : Traslada(q, v, n) = Traslada(p, v, n) /\ a[q] = t[e[p]].estado
  <2>1. CASE p = m
    BY <1>1, <1>2, <1>4, <2>1
  <2>2. CASE p # m
    BY <1>1, <1>4, <2>2
  <2>3. QED
    BY <2>1, <2>2
<1>7. ASSUME NEW q \in DOMAIN a PROVE \E p \in DOMAIN e : Traslada(p, v, n) = Traslada(q, v, n)
  <2>1. PICK p \in DOMAIN d : Traslada(p, v, n) = Traslada(q, v, n)
    BY <1>5
  <2>2. CASE p = r
    BY <1>1, <1>2, <2>1, <2>2
  <2>3. CASE p # r
    BY <1>1, <2>1, <2>3
  <2>4. QED
    BY <2>2, <2>3
<1>8. QED
  BY <1>3, <1>6, <1>7 DEF Viaja

LEMMA EspejoDeRenombrar ==
  ASSUME Hipotesis, NombresBien, BloquesInv, ArbolInv, EspejoInv, NEW c \in Conexiones, pc[c] \in DeRenombrar
  PROVE  /\ pedido[c] # Nada /\ ~Reposo /\ pedido[c].op = "RENAME" /\ pedido[c].ruta = Ruta(c)
         /\ Parte(antes, Ruta(c), pedido[c].destino)
         /\ Viaja(antes, dicc, tabla, Ruta(c), pedido[c].destino)
         /\ DOMAIN dicc \subseteq Seq(LosNombres)
         /\ ~IsPrefix(Ruta(c), pedido[c].destino) /\ ~IsPrefix(pedido[c].destino, Ruta(c))
<1>1. pedido[c] # Nada /\ Mudando(c)
  BY MudandoDe
<1>2. Espeja(c) /\ ~Reposo /\ pedido[c].ruta = Ruta(c) /\ pedido[c].op = "RENAME"
  BY <1>1 DEF EspejoInv, Reposo, Ruta, BloquesInv, Sirve
<1>3. Parte(antes, Ruta(c), pedido[c].destino) /\ Viaja(antes, dicc, tabla, Ruta(c), pedido[c].destino)
  BY <1>2 DEF Espeja
<1>4. DOMAIN dicc \subseteq Seq(LosNombres) /\ ~IsPrefix(Ruta(c), pedido[c].destino) /\ ~IsPrefix(pedido[c].destino, Ruta(c))
  BY <1>1 DEF Mudando, Mudo
<1>5. QED
  BY <1>1, <1>2, <1>3, <1>4

(* The keys go on moving. *)
LEMMA SigueViaje ==
  ASSUME UnMontaje, SacTipo, NEW c \in Conexiones, pedido[c] # Nada, pedido[c].op = "RENAME",
         NEW punto \in DeRenombrar, Ir(c, punto), RaizBien',
         NEW v, v = Ruta(c), NEW n, n = pedido[c].destino,
         NEW d, d = dicc', NEW t, t = tabla', Parte(antes, v, n), Viaja(antes, d, t, v, n)
  PROVE  EspejoInv' /\ Refleja
<1>1. pc'[c] = punto /\ pedido' = pedido /\ antes' = antes /\ Ruta(c)' = v
  BY DEF Ir, SacTipo, Ruta
<1>2. punto \in Mudables /\ punto \notin DeNacer \cup {"desasignar", "retomar_nodo", "libre"} \cup DeTruncar \cup Mirada
      /\ punto \notin DeCrear
  BY DEF DeRenombrar, DeNacer, DeTruncar, Mirada, Mudables, DeCrear
<1>3. /\ Parte(antes, Ruta(c), pedido[c].destino)'
      /\ Viaja(antes, dicc, tabla, Ruta(c), pedido[c].destino)'
  BY <1>1
<1>4. Espeja(c)'
  BY <1>1, <1>2, <1>3 DEF Espeja
<1>5. QED
  BY <1>4, SigueEspejo

LEMMA RenombrarEspejo ==
  ASSUME Hipotesis, NombresBien, BloquesInv, ArbolInv, EspejoInv, NEW c \in Conexiones, Renombrar(c)
  PROVE  EspejoInv' /\ Refleja
<1>0. UnMontaje
  BY DEF Hipotesis
<1>1. pc[c] = "con_nodo" /\ pc[c] \notin Mudables /\ pedido[c].op = "RENAME"
  BY PuntosMudables DEF Renombrar, Esta, DeBuscar
<1>2. /\ pedido[c] # Nada /\ SacTipo /\ DOMAIN antes = DOMAIN dicc /\ Plantado(dicc, tabla)
      /\ (\A p \in DOMAIN dicc : antes[p] = tabla[dicc[p]].estado) /\ Vio(c) /\ Sabe(c, "con_nodo", Nodo(c))
  BY <1>0, <1>1, EspejoDe
<1>3. PICK v, n, i : /\ v = Ruta(c) /\ n = pedido[c].destino /\ i = Nodo(c)
                     /\ n \in Seq(LosNombres) /\ n # <<>> /\ v # <<>>
  BY <1>1, <1>2, NombresDePedido
<1>4. v \in DOMAIN dicc /\ i = dicc[v] /\ Front(n) \in DOMAIN dicc /\ tabla[dicc[Front(n)]].estado = 2
  BY <1>1, <1>2, <1>3 DEF Vio, Sabe, EnDicc, EsDir
<1>5. /\ tabla' = [tabla EXCEPT ![i].nombre = Last(n)] /\ n \notin DOMAIN dicc
      /\ Ir(c, "cambiar_clave") /\ dicc' = dicc
  BY <1>3 DEF Renombrar, ElNombre, enMemoria
<1>6. v \in Seq(LosNombres) /\ i \in Indices \ {0} /\ DOMAIN dicc \subseteq Seq(LosNombres)
  BY <1>2, <1>3, <1>4, DePlantado DEF UsadosDe
<1>7. PICK t : /\ t = tabla' /\ (\A j \in Indices : t[j].estado = tabla[j].estado)
               /\ \A j \in Indices : j # i => t[j] = tabla[j]
  <2>1. tabla \in [Indices -> NodoTipo]
    BY <1>2 DEF SacTipo
  <2>2. PICK t, b : t = tabla' /\ b = Last(n)
    OBVIOUS
  <2>3. t = [tabla EXCEPT ![i].nombre = b]
    BY <1>5, <2>2
  <2>4. QED
    BY <2>1, <2>2, <2>3, NombreAjeno
<1>8. Parte(antes, v, n)
  BY <1>2, <1>4, <1>5 DEF Parte
<1>9. \A p, q \in DOMAIN antes : Traslada(p, v, n) = Traslada(q, v, n) => p = q
  <2>1. \A q \in DOMAIN dicc : ~IsPrefix(n, q)
    BY <1>2, <1>3, <1>5, PrefijoEnDicc
  <2>2. QED
    BY <1>2, <1>3, <1>6, <2>1, TrasladaInyectiva
<1>10. Viaja(antes, dicc, t, v, n)
  <2>1. \A p \in DOMAIN dicc : antes[p] = t[dicc[p]].estado
    BY <1>2, <1>7 DEF SacTipo
  <2>2. QED
    BY <1>2, <1>9, <2>1 DEF Viaja
<1>11. RaizBien'
  BY <1>6, <1>7, Medidas DEF EspejoInv, RaizBien
<1>12. "cambiar_clave" \in DeRenombrar
  BY DEF DeRenombrar
<1>13. PICK d : d = dicc' /\ Viaja(antes, d, t, v, n)
  BY <1>5, <1>10
<1>14. QED
  BY <1>0, <1>1, <1>2, <1>3, <1>5, <1>7, <1>8, <1>11, <1>12, <1>13, SigueViaje

LEMMA RenombrarExistenteEspejo ==
  ASSUME UnMontaje, BloquesInv, ArbolInv, EspejoInv, NEW c \in Conexiones, RenombrarExistente(c)
  PROVE  EspejoInv' /\ Refleja
<1>1. /\ pc[c] = "con_nodo" /\ pc[c] \notin Mudables /\ pedido[c].op = "RENAME"
      /\ pedido[c].destino \in DOMAIN dicc /\ Responder(c, "error") /\ Mismo
  BY PuntosMudables, MismoDe DEF RenombrarExistente, Esta, DeBuscar, discoVars, enDisco, enMemoria
<1>2. pedido[c] # Nada /\ ~Reposo /\ DOMAIN antes = DOMAIN dicc
  BY <1>1, EspejoDe
<1>3. ~A!Puede(pedido[c])
  BY <1>1, <1>2, LoQuePuede DEF Parte
<1>4. QED
  BY <1>1, <1>2, <1>3, RespondeEspejo DEF Responder

(* A key moves, and the table is the same. *)
LEMMA ClaveEspejo ==
  ASSUME Hipotesis, NombresBien, BloquesInv, ArbolInv, EspejoInv, NEW c \in Conexiones, pc[c] \in DeRenombrar,
         Ir(c, "cambiar_nombres"), tabla' = tabla, NEW v, v = Ruta(c), NEW n, n = pedido[c].destino,
         NEW d, d = dicc', NEW r, NEW m, Pasa(dicc, r, m, d, v, n)
  PROVE  EspejoInv' /\ Refleja
<1>1. UnMontaje /\ SacTipo /\ v \in Seq(LosNombres) /\ n \in Seq(LosNombres)
  BY MudandoDe
<1>2. /\ pedido[c] # Nada /\ pedido[c].op = "RENAME" /\ Parte(antes, v, n)
      /\ Viaja(antes, dicc, tabla, v, n) /\ DOMAIN dicc \subseteq Seq(LosNombres)
  BY EspejoDeRenombrar
<1>3. Viaja(antes, d, tabla, v, n)
  BY <1>1, <1>2, PasaViaja
<1>4. RaizBien'
  BY DEF EspejoInv, RaizBien
<1>5. "cambiar_nombres" \in DeRenombrar
  BY DEF DeRenombrar
<1>6. PICK t : t = tabla' /\ Viaja(antes, d, t, v, n)
  BY <1>3
<1>7. QED
  BY <1>1, <1>2, <1>4, <1>5, <1>6, SigueViaje

LEMMA CambiarClaveEspejo ==
  ASSUME Hipotesis, NombresBien, BloquesInv, ArbolInv, EspejoInv, NEW c \in Conexiones, CambiarClave(c)
  PROVE  EspejoInv' /\ Refleja
<1>0. pc[c] = "cambiar_clave" /\ pc[c] \in DeRenombrar
  BY DEF CambiarClave, Esta, DeRenombrar
<1>1. PICK v, n : v = Ruta(c) /\ n = pedido[c].destino /\ v \in Seq(LosNombres) /\ n \in Seq(LosNombres)
  BY <1>0, MudandoDe
<1>2. v \in DOMAIN dicc /\ ~IsPrefix(v, n) /\ ~IsPrefix(n, v)
  BY <1>0, <1>1, MudandoDe DEF Mudando, EnDicc
<1>3. PICK d : d = Pone(Sin(dicc, v), n, Saca(v))
  OBVIOUS
<1>4. d = dicc' /\ Ir(c, "cambiar_nombres") /\ tabla' = tabla
  BY <1>1, <1>3 DEF CambiarClave, enDisco
<1>5. /\ DOMAIN d = (DOMAIN dicc \ {v}) \cup {n} /\ d[n] = dicc[v]
      /\ \A q \in DOMAIN dicc \ {v} : q # n => d[q] = dicc[q]
  BY <1>2, <1>3 DEF Pone, Sin, Saca
<1>6. IsPrefix(v, v) /\ n = Traslada(v, v, n)
  <2>1. IsPrefix(v, v)
    BY <1>1, Prefijo
  <2>2. QED
    BY <1>1, <2>1, TrasladaElMismo
<1>7. Pasa(dicc, v, n, d, v, n)
  BY <1>2, <1>5, <1>6 DEF Pasa
<1>8. QED
  BY <1>0, <1>1, <1>4, <1>7, ClaveEspejo

LEMMA CambiarNombreEspejo ==
  ASSUME Hipotesis, NombresBien, BloquesInv, ArbolInv, EspejoInv, NEW c \in Conexiones, CambiarNombre(c)
  PROVE  EspejoInv' /\ Refleja
<1>0. pc[c] = "cambiar_nombres" /\ pc[c] \in DeRenombrar
  BY DEF CambiarNombre, Esta, DeRenombrar
<1>1. PICK v, n : /\ v = Ruta(c) /\ n = pedido[c].destino /\ v \in Seq(LosNombres) /\ v # <<>>
                  /\ n \in Seq(LosNombres) /\ n # <<>> /\ SinPrefijos
  BY <1>0, MudandoDe
<1>2. DOMAIN dicc \subseteq Seq(LosNombres) /\ ~IsPrefix(v, n) /\ ~IsPrefix(n, v)
  BY <1>0, <1>1, EspejoDeRenombrar
<1>3. PICK r \in DOMAIN dicc : EmpiezaCon(r, v) /\ dicc' = Sin(Pone(dicc, Reemplazar(r, v, n), Saca(r)), r)
  BY <1>1 DEF CambiarNombre
<1>4. Ir(c, "cambiar_nombres") /\ tabla' = tabla
  BY DEF CambiarNombre, enDisco
<1>5. r \in Seq(LosNombres) /\ IsPrefix(v, r)
  BY <1>1, <1>2, <1>3, EmpiezaEs
<1>6. PICK m : m = Traslada(r, v, n) /\ m = Reemplazar(r, v, n) /\ m # r
  <2>1. Traslada(r, v, n) # r
    BY <1>1, <1>2, <1>5, RutaQueNoSeMueve
  <2>2. QED
    BY <1>1, <1>5, <2>1, ReemplazarEs
<1>7. PICK d : d = dicc' /\ d = Sin(Pone(dicc, m, Saca(r)), r)
  BY <1>3, <1>6
<1>8. /\ DOMAIN d = (DOMAIN dicc \ {r}) \cup {m} /\ d[m] = dicc[r]
      /\ \A q \in DOMAIN dicc \ {r} : q # m => d[q] = dicc[q]
  BY <1>6, <1>7 DEF Pone, Sin, Saca
<1>9. Pasa(dicc, r, m, d, v, n)
  BY <1>2, <1>5, <1>6, <1>8 DEF Pasa
<1>10. QED
  BY <1>0, <1>1, <1>4, <1>7, <1>9, ClaveEspejo

(* Every key is where it goes: the tree is the one moved. *)
LEMMA MudarEspejo ==
  ASSUME Hipotesis, NombresBien, BloquesInv, ArbolInv, EspejoInv, NEW c \in Conexiones,
         pc[c] = "cambiar_nombres", ApadrinarNodo(c)
  PROVE  EspejoInv' /\ Refleja
<1>0. pc[c] \in DeRenombrar
  BY DEF DeRenombrar
<1>1. UnMontaje /\ SacTipo /\ Mudando(c)
  BY <1>0, MudandoDe
<1>2. PICK v, n : v = Ruta(c) /\ n = pedido[c].destino
  OBVIOUS
<1>3. /\ pedido[c] # Nada /\ ~Reposo /\ pedido[c].op = "RENAME" /\ pedido[c].ruta = v
      /\ Parte(antes, v, n) /\ Viaja(antes, dicc, tabla, v, n)
  BY <1>0, <1>2, EspejoDeRenombrar
<1>4. local[c].claves \cap DOMAIN dicc = {} /\ dicc' = dicc /\ Responder(c, "ok")
  BY DEF ApadrinarNodo, Esta, ClavesPendientes, enMemoria
<1>5. \A p \in DOMAIN dicc : Traslada(p, v, n) = p
  <2>1. \A p \in DOMAIN dicc : ~IsPrefix(v, p)
    BY <1>1, <1>2, <1>4 DEF Mudando
  <2>2. QED
    BY <2>1 DEF Traslada
<1>6. /\ \A p, q \in DOMAIN antes : Traslada(p, v, n) = Traslada(q, v, n) => p = q
      /\ \A p \in DOMAIN dicc : \E q \in DOMAIN antes : Traslada(q, v, n) = p /\ antes[q] = tabla[dicc[p]].estado
      /\ \A q \in DOMAIN antes : Traslada(q, v, n) \in DOMAIN dicc
  BY <1>3, <1>5 DEF Viaja
<1>7. \A j \in Indices : tabla'[j].estado = tabla[j].estado /\ tabla'[j].nombre = tabla[j].nombre
  <2>1. PICK i, b : tabla' = [tabla EXCEPT ![i].padre = b]
    BY DEF ApadrinarNodo
  <2>2. tabla \in [Indices -> NodoTipo]
    BY <1>1 DEF SacTipo
  <2>3. QED
    BY <2>1, <2>2, PadreAjeno
<1>8. PICK a : /\ a = A!Mudado(v, n) /\ DOMAIN a = {Traslada(q, v, n) : q \in DOMAIN antes}
               /\ a = [m \in DOMAIN a |-> a[m]] /\ \A q \in DOMAIN antes : a[Traslada(q, v, n)] = antes[q]
  <2>1. PICK a : a = A!Mudado(v, n)
    OBVIOUS
  <2>2. EsMudado(a, antes, v, n)
    BY <1>3, <2>1, MudadoEs
  <2>3. QED
    BY <2>1, <2>2 DEF EsMudado
<1>9. DOMAIN a = DOMAIN dicc
  <2>1. \A p \in DOMAIN dicc : p \in DOMAIN a
    BY <1>6, <1>8
  <2>2. \A m \in DOMAIN a : m \in DOMAIN dicc
    BY <1>6, <1>8
  <2>3. QED
    BY <2>1, <2>2
<1>10. \A p \in DOMAIN dicc : a[p] = tabla'[dicc[p]].estado
  <2>1. ASSUME NEW p \in DOMAIN dicc PROVE a[p] = tabla[dicc[p]].estado
    BY <1>6, <1>8
  <2>2. QED
    BY <1>1, <1>7, <2>1 DEF SacTipo
<1>11. Arbol' = a
  <2>1. Arbol' = [p \in DOMAIN dicc |-> tabla'[dicc[p]].estado]
    BY <1>4 DEF Arbol
  <2>2. a = [p \in DOMAIN dicc |-> a[p]]
    BY <1>8, <1>9
  <2>3. QED
    BY <1>10, <2>1, <2>2
<1>12. A!Puede(pedido[c]) /\ A!Resultado(pedido[c]) = a
  BY <1>2, <1>3, <1>8, LoQuePuede, LoQueResulta
<1>13. RaizBien'
  BY <1>7, Medidas DEF EspejoInv, RaizBien
<1>14. QED
  BY <1>1, <1>3, <1>4, <1>11, <1>12, <1>13, ContestaEspejo DEF Responder

-----------------------------------------------------------------------------
(* The requests, the start and the whole.                                    *)

LEMMA PedirEspejo ==
  ASSUME UnMontaje, BloquesInv, EspejoInv, NEW c \in Conexiones, Pedir(c)
  PROVE  EspejoInv' /\ Refleja
<1>1. PICK r \in Pedibles[c] : Permite(r) /\ pedido' = [pedido EXCEPT ![c] = r]
  BY DEF Pedir
<1>2. /\ pc[c] = "libre" /\ pc'[c] = "libre" /\ tabla' = tabla /\ dicc' = dicc /\ pedido[c] = Nada
      /\ pedido'[c] = r /\ (\A d \in Conexiones : d = c)
      /\ respuesta' = [respuesta EXCEPT ![c] = ""]
  BY <1>1 DEF Pedir, discoVars, enDisco, enMemoria, UnMontaje, BloquesInv, SacTipo
<1>3. Reposo /\ antes' = Arbol /\ Arbol' = Arbol
  BY <1>2 DEF Pedir, Reposo, Arbol
<1>4. r.op \in {"MKNOD", "MKDIR"} => r.ruta \notin DOMAIN dicc
  BY <1>1 DEF Permite, Falta, Visto
<1>5. Espeja(c)'
  <2>1. /\ "libre" \notin Mudables \cup {"desasignar", "retomar_nodo"} \cup DeTruncar
        /\ "libre" \notin DeNacer \cup DeRenombrar \cup DeCrear \cup Mirada
    BY DEF Mudables, DeNacer, DeRenombrar, DeTruncar, DeCrear, Mirada
  <2>2. r.op \in {"MKNOD", "MKDIR"} => ~EnDicc(c)'
    BY <1>2, <1>4 DEF EnDicc, Ruta
  <2>3. QED
    BY <1>2, <1>3, <2>1, <2>2 DEF Espeja
<1>6. RaizBien'
  BY <1>2 DEF EspejoInv, RaizBien
<1>7. EspejoInv'
  BY <1>2, <1>5, <1>6 DEF EspejoInv
<1>8. A!Pedir(c)
  BY <1>1, <1>2, <1>3 DEF A!Pedir
<1>9. QED
  BY <1>7, <1>8 DEF A!Next, Refleja

LEMMA EspejoInicial ==
  ASSUME FormatoBien, Formato.tabla = TablaVacia, Init
  PROVE  EspejoInv /\ A!Init
<1>1. PICK t, d : t = tabla /\ d = dicc /\ t = Formato.tabla
  BY DEF Init, DiscoInit
<1>2. /\ 0 \in Indices /\ t[0] = Raiz /\ (\A i \in Indices \ {0} : t[i] = NodoVacio)
      /\ Raiz.estado = 2 /\ Raiz.nombre = Barra /\ NodoVacio.estado = 0
  BY <1>1, Medidas DEF TablaVacia, Raiz, NodoVacio
<1>3. UsadosDe(t) = {0}
  BY <1>2 DEF UsadosDe
<1>4. Plantado(d, t)
  <2>1. ArbolInv /\ \A c \in Conexiones : pc[c] = "libre"
    BY RecienFormateado, ArbolInicial DEF Init, AtencionInit
  <2>2. QED
    BY <1>1, <2>1, PuntosMudables DEF ArbolInv
<1>5. DOMAIN d = {<<>>} /\ d[<<>>] = 0
  <2>1. \A p \in DOMAIN d : d[p] = 0 /\ p = <<>>
    BY <1>3, <1>4, DePlantado
  <2>2. DOMAIN d # {}
    BY <1>3, <1>4 DEF Plantado, Da
  <2>3. QED
    BY <2>1, <2>2
<1>6. Reposo /\ pedido = [c \in Conexiones |-> Nada] /\ respuesta = [c \in Conexiones |-> ""]
  BY DEF Init, AtencionInit, Reposo
<1>7. Arbol = [p \in {<<>>} |-> 2]
  BY <1>1, <1>2, <1>5 DEF Arbol
<1>8. A!Init
  BY <1>6, <1>7 DEF A!Init
<1>9. EspejoInv
  BY <1>1, <1>2, <1>6 DEF EspejoInv, RaizBien, Reposo
<1>10. QED
  BY <1>8, <1>9

LEMMA EspejoSePreserva ==
  ASSUME Hipotesis, NombresBien, SoloArbol, BloquesInv, ArbolInv, EspejoInv, [Next]_vars
  PROVE  EspejoInv' /\ Refleja
<1>0. UnMontaje /\ ~Reiniciar
  BY DEF Hipotesis, UnMontaje, Reiniciar
<1>1. CASE UNCHANGED vars
  BY <1>1, NadaEspejo DEF vars, discoVars, enDisco, enMemoria
<1>2. ASSUME NEW c \in Conexiones, AtenderDatos(c) PROVE EspejoInv' /\ Refleja
  BY <1>0, <1>2, SinDatos, UnlinkEspejo DEF AtenderDatos
<1>3. ASSUME NEW c \in Conexiones, Crear(c) PROVE EspejoInv' /\ Refleja
  <2>1. CASE ApadrinarNodo(c)
    <3>1. pc[c] = "apadrinar" \/ pc[c] = "cambiar_nombres"
      BY <2>1 DEF ApadrinarNodo, Esta
    <3>2. QED
      BY <1>0, <2>1, <3>1, ApadrinarEspejo, MudarEspejo
  <2>2. QED
    BY <1>0, <1>3, <2>1, EmpezarEspejo, ElegirEspejo, SinNodosEspejo, NacerEspejo DEF Crear
<1>4. ASSUME NEW c \in Conexiones, AtenderArbol(c) PROVE EspejoInv' /\ Refleja
  BY <1>0, <1>3, <1>4, DirectorioEspejo, RenombrarEspejo, RenombrarExistenteEspejo, CambiarClaveEspejo,
     CambiarNombreEspejo DEF AtenderArbol, Rename
<1>5. QED
  BY <1>0, <1>1, <1>2, <1>4, PedirEspejo, NodosEspejo DEF Next, AtenderCliente

(* For one mount of a disk that has just been formatted, and that is not        *)
(* restarted, whatever the requests on the tree: sac_mknod, sac_mkdir, sac_open, *)
(* sac_unlink, sac_rmdir, sac_readdir, sac_getattr and sac_rename are answered   *)
(* as a tree of paths would, with the whole of their effect, and an error only   *)
(* when the tree refuses.                                                       *)
THEOREM ImplementaArbolConUno ==
  Hipotesis /\ NombresBien /\ SoloArbol /\ Formato.tabla = TablaVacia => (Spec => ImplementaArbol)
<1> SUFFICES ASSUME Hipotesis, NombresBien, SoloArbol, Formato.tabla = TablaVacia PROVE Spec => ImplementaArbol
  OBVIOUS
<1>1. Init => EspejoInv /\ A!Init
  BY EspejoInicial DEF Hipotesis
<1>2. BloquesInv /\ ArbolInv /\ EspejoInv /\ [Next]_vars => EspejoInv'
  BY EspejoSePreserva
<1>3. BloquesInv /\ ArbolInv /\ EspejoInv /\ [Next]_vars
        => [A!Next]_<<IF Reposo THEN Arbol ELSE antes, pedido, respuesta>>
  BY EspejoSePreserva DEF Refleja
<1>4. Spec => []BloquesInv
  BY BloquesInvariante
<1>5. Spec => []ArbolInv
  BY RecienFormateado, ArbolInvariante
<1>6. QED
  BY <1>1, <1>2, <1>3, <1>4, <1>5, PTL DEF Spec, ImplementaArbol, A!Spec
=============================================================================
