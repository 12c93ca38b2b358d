---------------------------- MODULE SacDatosProofs ----------------------------
(***************************************************************************)
(* The blocks of SAC, for one mount and any number of nodes, pointers, cells *)
(* and blocks: what each point of the handler leaves half-done, and that at  *)
(* the end of a request nothing is.                                         *)
(***************************************************************************)
EXTENDS Sac, SequenceTheorems, WellFoundedInduction, TLAPS

-----------------------------------------------------------------------------
(* The hypotheses.                                                           *)

Pis   == 0..(Punteros - 1)
Celda == 0..(Celdas - 1)
NodoTipo == [estado : 0..2, nombre : Seq(Nat), padre : Int, tamanio : Nat, punteros : [Pis -> {0} \cup Datos]]

(* One mount, whose server is not started again. *)
UnMontaje == (\A c, d \in Conexiones : c = d) /\ Reinicia = "nunca"

(* The disk the server is started on has files without blocks. *)
FormatoBien ==
  /\ Formato.tabla \in [Indices -> NodoTipo]
  /\ \A i \in Indices, p \in Pis : Formato.tabla[i].punteros[p] = 0
  /\ Formato.disco = [b \in Datos |-> Vacio]
  /\ DOMAIN Diccionario(Formato.tabla) \subseteq Seq(Seq(Nat))

(* Requests are of paths, the root is neither created nor renamed, and offsets *)
(* are those that the pointers of a node reach.                               *)
Nombran == {"MKNOD", "MKDIR", "OPEN", "RENAME"}
PedidosBien ==
  \A c \in Conexiones : \A r \in Pedibles[c] :
    /\ r.ruta \in Seq(Seq(Nat)) /\ (r.op \in Nombran => r.ruta # <<>>)
    /\ r.op = "RENAME" => r.destino \in Seq(Seq(Nat)) /\ r.destino # <<>>
    /\ r.op = "WRITE" => r.desde \in 0..(Capacidad - 1) /\ r.largo \in Nat /\ r.valor \in Nat
    /\ r.op = "READ" => r.desde \in 0..(Capacidad - 1) /\ r.largo \in Nat

Hipotesis == UnMontaje /\ FormatoBien /\ PedidosBien

-----------------------------------------------------------------------------
(* Where the handler is, and what for.                                       *)
DeCrear    == {"crear", "elegir", "marcar", "buscar_padre", "nombrar", "apadrinar"}
DeRenombrar == {"cambiar_clave", "cambiar_nombres"}
DeListar   == {"entradas", "tomar_directorio", "listar", "borrar_directorio"}
DeBuscar   == {"tomar_nodo", "con_nodo", "desasignar", "retomar_nodo", "tomar_unlink"}
DeEscribir == {"apuntar_bpd", "escribir_dato", "apuntar_dato"}
DeVaciar   == {"limpiar", "limpiar_dato", "limpiar_puntero", "vaciar", "soltar", "desapuntar"}
Quietos == {"libre", "colgado"} \cup DeCrear \cup DeRenombrar \cup DeListar \cup DeBuscar
Puntos  == Quietos \cup DeEscribir \cup DeVaciar

LocalTipo == [nodo : Indices \cup {Nada}, padre : Indices, bloque : {0} \cup Datos, cursor : Nat,
              claves : SUBSET Seq(Seq(Nat))]

TodoPedido == (UNION {Pedibles[c] : c \in Conexiones}) \cup {Nada}

SacTipo ==
  /\ tabla \in [Indices -> NodoTipo] /\ disco \in [Datos -> [Celda -> Nat]]
  /\ DOMAIN dicc \subseteq Seq(Seq(Nat)) /\ \A r \in DOMAIN dicc : dicc[r] \in Indices
  /\ bitarray \subseteq 0..(Bits - 1)
  /\ mutexDicc \in Conexiones \cup {Nada}
  /\ pedido \in [Conexiones -> TodoPedido]
  /\ respuesta \in [Conexiones -> {"", "ok", "error"}]
  /\ pc \in [Conexiones -> Puntos] /\ local \in [Conexiones -> LocalTipo]

(* What each point knows of its request. *)
Sirve(c) ==
  /\ pedido[c] \in Pedibles[c] \cup {Nada}
  /\ pc[c] \notin {"libre", "colgado"} => pedido[c] # Nada
  /\ pc[c] \in DeCrear => pedido[c].op \in {"MKNOD", "MKDIR", "OPEN"}
  /\ pc[c] \in DeRenombrar => pedido[c].op = "RENAME"
  /\ pc[c] \in DeEscribir => pedido[c].op = "WRITE"
  /\ pc[c] \in DeEscribir \cup DeVaciar \cup {"con_nodo"} => Nodo(c) \in Indices

-----------------------------------------------------------------------------
(* The places of a node where the number of a block is: its pointers, which    *)
(* go after the cells of their blocks as in a position, and those cells.       *)
En(i, p, j) == IF j = Celdas THEN BPD(i, p) ELSE BloqueDato(i, p, j)
Referido(b) == \E i \in Indices, p \in Pis, j \in 0..Celdas : En(i, p, j) = b

Apuntes == \A i \in Indices, p \in Pis, j \in 0..Celdas : En(i, p, j) \in {0} \cup Datos
Distintos ==
  \A i, k \in Indices, p, q \in Pis, j, h \in 0..Celdas :
    En(i, p, j) = En(k, q, h) /\ En(i, p, j) # 0 => i = k /\ p = q /\ j = h
Limpios == \A b \in Datos : ~Referido(b) => disco[b] = Vacio

(* A block is marked before it is pointed to, and its mark is taken before its *)
(* pointer.                                                                   *)
AlCursor(c) == BloqueEn(Nodo(c), local[c].cursor)
Entra(c) == pc[c] \in {"apuntar_bpd", "apuntar_dato"}
Sale(c)  == pc[c] \in {"limpiar_dato", "limpiar_puntero", "desapuntar"}
Marcas ==
  \A b \in Datos :
    b \in bitarray <=> \/ Referido(b) /\ \A c \in Conexiones : Sale(c) => b # AlCursor(c)
                       \/ \E c \in Conexiones : Entra(c) /\ b = local[c].bloque

(* What a write has taken. *)
Toma(c) ==
  LET i == Nodo(c)
      b == local[c].bloque
  IN
  /\ Entra(c) => b \in Datos /\ ~Referido(b)
  /\ pc[c] = "apuntar_bpd" => BPD(i, PIS(c)) = 0
  /\ pc[c] \in {"escribir_dato", "apuntar_dato"} => BPD(i, PIS(c)) # 0
  /\ pc[c] = "apuntar_dato" => BloqueDato(i, PIS(c), Entrada(c)) = 0

(* Where the loops over the blocks are: nothing is left behind. *)
EnBucle(c) ==
  LET n == local[c].cursor IN
  /\ \A p \in Pis, j \in 0..Celdas : Pos(p, j) < n => En(Nodo(c), p, j) = 0
  /\ pc[c] \notin {"limpiar", "vaciar"} => n \in Posiciones /\ AlCursor(c) # 0
  /\ pc[c] = "limpiar_dato" => ~AlFinal(n)
  /\ pc[c] = "limpiar_puntero" => AlFinal(n)
  /\ pc[c] \in {"soltar", "desapuntar"} /\ ~AlFinal(n) => disco[AlCursor(c)] = Vacio
Recorre(c) == IF pc[c] \in DeVaciar THEN EnBucle(c) ELSE local[c].cursor = 0

BloquesInv ==
  /\ SacTipo /\ Apuntes /\ Distintos /\ Limpios /\ BitmapInicial \subseteq bitarray /\ Marcas
  /\ \A c \in Conexiones : Sirve(c) /\ Toma(c) /\ Recorre(c)

-----------------------------------------------------------------------------
(* Numbers.                                                                  *)

LEMMA Medidas ==
  /\ Celdas \in Nat \ {0} /\ Punteros \in Nat \ {0} /\ Nodos \in Nat \ {0}
  /\ Datos \subseteq Nat /\ 0 \notin Datos /\ 0 \in Indices /\ Nada \notin Indices
  /\ BitmapInicial \subseteq 0..(Bits - 1) /\ BitmapInicial \cap Datos = {}
  /\ BitmapInicial \cup Datos = 0..(Bits - 1)
  /\ Celda \subseteq 0..Celdas /\ Celdas \notin Celda
  /\ Vacio \in [Celda -> Nat] /\ \A j \in Celda : Vacio[j] = 0
<1>1. PrimerDato \in Nat /\ PrimerDato > 0 /\ Bits \in Nat /\ Bits >= PrimerDato
  BY SacSupuesto DEF PrimerDato
<1> HIDE DEF PrimerDato
<1>2. QED
  BY <1>1, SacSupuesto DEF Datos, Indices, BitmapInicial, Celda, Vacio

(* The least of some numbers. *)
LEMMA MinimoDe ==
  ASSUME NEW S \in SUBSET Nat, S # {}
  PROVE  Min(S) \in S /\ \A y \in S : Min(S) <= y
<1>1. PICK x \in S : \A y \in S : <<y, x>> \notin OpToRel(<, Nat)
  BY NatLessThanWellFounded, WFMin
<1>2. \A y \in S : x <= y
  <2>1. SUFFICES ASSUME NEW y \in S PROVE ~(y < x)
    OBVIOUS
  <2>2. QED
    BY <1>1 DEF OpToRel
<1>3. QED
  BY <1>2 DEF Min

LEMMA Crece ==
  ASSUME NEW a \in Nat, NEW b \in Nat, NEW d \in Nat, a <= b
  PROVE  a * d <= b * d /\ a * d \in Nat
<1>1. PICK k \in Nat : b = a + k
  <2>1. b - a \in Nat /\ b = a + (b - a)
    OBVIOUS
  <2>2. QED
    BY <2>1
<1>2. k * d \in Nat /\ a * d \in Nat
  OBVIOUS
<1>3. (a + k) * d = a * d + k * d
  OBVIOUS
<1>4. QED
  BY <1>1, <1>2, <1>3

(* Quotient and remainder are the only ones. *)
LEMMA DivisionUnica ==
  ASSUME NEW d \in Nat \ {0}, NEW q \in Nat, NEW r \in 0..(d - 1)
  PROVE  (q * d + r) \div d = q /\ (q * d + r) % d = r
<1> DEFINE n == q * d + r
<1>1. n \in Nat /\ q * d \in Nat
  BY Crece
<1> HIDE DEF n
<1>2. PICK k \in Nat : k = n \div d
  BY <1>1
<1>3. PICK s \in 0..(d - 1) : s = n % d
  BY <1>1
<1>4. n = k * d + s
  BY <1>1, <1>2, <1>3
<1>5. ~(k < q)
  <2> SUFFICES ASSUME k < q PROVE FALSE
    OBVIOUS
  <2>1. (k + 1) * d <= q * d
    BY Crece
  <2>2. (k + 1) * d = k * d + d
    OBVIOUS
  <2>3. k * d \in Nat
    BY Crece
  <2>4. QED
    BY <1>1, <1>4, <2>1, <2>2, <2>3 DEF n
<1>6. ~(q < k)
  <2> SUFFICES ASSUME q < k PROVE FALSE
    OBVIOUS
  <2>1. (q + 1) * d <= k * d
    BY Crece
  <2>2. (q + 1) * d = q * d + d
    OBVIOUS
  <2>3. k * d \in Nat
    BY Crece
  <2>4. QED
    BY <1>1, <1>4, <2>1, <2>2, <2>3 DEF n
<1>7. k = q
  BY <1>5, <1>6
<1>8. s = r
  BY <1>1, <1>4, <1>7 DEF n
<1>9. QED
  BY <1>2, <1>3, <1>7, <1>8 DEF n

(* A position is a pointer of the node and a place of its block. *)
LEMMA PosicionDe ==
  ASSUME NEW p \in Pis, NEW j \in 0..Celdas
  PROVE  Pos(p, j) \in Posiciones /\ PosPIS(Pos(p, j)) = p /\ PosEntrada(Pos(p, j)) = j
<1> DEFINE d == Celdas + 1
<1>1. d \in Nat \ {0} /\ j \in 0..(d - 1) /\ p \in Nat /\ p + 1 \in Nat /\ p + 1 <= Punteros /\ Punteros \in Nat
  BY Medidas DEF Pis
<1>2. Pos(p, j) = p * d + j
  BY DEF Pos
<1> HIDE DEF d
<1>3. (p * d + j) \div d = p /\ (p * d + j) % d = j
  BY <1>1, DivisionUnica
<1>4. (p + 1) * d <= Punteros * d /\ p * d \in Nat /\ Punteros * d \in Nat
  BY <1>1, Crece
<1>5. (p + 1) * d = p * d + d
  BY <1>1
<1>6. p * d + j \in 0..(Punteros * d - 1)
  BY <1>1, <1>4, <1>5
<1>7. QED
  BY <1>2, <1>3, <1>6 DEF PosPIS, PosEntrada, Posiciones, d

LEMMA CamposDePosicion ==
  ASSUME NEW n \in Posiciones
  PROVE  PosPIS(n) \in Pis /\ PosEntrada(n) \in 0..Celdas /\ n = Pos(PosPIS(n), PosEntrada(n)) /\ n \in Nat
<1> DEFINE d == Celdas + 1
           q == n \div d
           r == n % d
<1>1. d \in Nat \ {0} /\ Punteros \in Nat /\ n \in Nat /\ n < Punteros * d
  <2>1. Celdas \in Nat /\ Punteros \in Nat
    BY Medidas
  <2>2. Punteros * d \in Nat
    BY <2>1
  <2>3. QED
    BY <2>1, <2>2 DEF Posiciones
<1> HIDE DEF d
<1>2. q \in Nat /\ r \in 0..(d - 1) /\ n = q * d + r /\ q * d \in Nat
  <2>1. q \in Nat /\ r \in 0..(d - 1) /\ n = d * q + r
    BY <1>1
  <2>2. QED
    BY <1>1, <2>1, Crece
<1> HIDE DEF q, r
<1>3. q < Punteros
  <2> SUFFICES ASSUME Punteros <= q PROVE FALSE
    BY <1>1, <1>2
  <2>1. Punteros * d <= q * d
    BY <1>1, <1>2, Crece
  <2>2. QED
    BY <1>1, <1>2, <2>1
<1>4. q \in Pis /\ r \in 0..Celdas
  BY <1>1, <1>2, <1>3, Medidas DEF Pis, d
<1>5. QED
  BY <1>1, <1>2, <1>4 DEF Pos, PosPIS, PosEntrada, q, r, d

-----------------------------------------------------------------------------
(* The places of a node.                                                     *)

LEMMA EnPosicion ==
  ASSUME NEW i
  PROVE  /\ \A p \in Pis, j \in 0..Celdas : BloqueEn(i, Pos(p, j)) = En(i, p, j)
         /\ \A n \in Posiciones : BloqueEn(i, n) = En(i, PosPIS(n), PosEntrada(n))
<1>1. \A n \in Posiciones : BloqueEn(i, n) = En(i, PosPIS(n), PosEntrada(n))
  BY DEF BloqueEn, AlFinal, En
<1>2. QED
  BY <1>1, PosicionDe

(* The next position with a block, and what there is up to it. *)
LEMMA ProximaPosicion ==
  ASSUME NEW i, NEW n \in Nat, Siguientes(i, n) # {}, NEW m, m = Min(Siguientes(i, n))
  PROVE  /\ m \in Posiciones /\ n <= m /\ BloqueEn(i, m) # 0
         /\ \A p \in Pis, j \in 0..Celdas : n <= Pos(p, j) /\ Pos(p, j) < m => En(i, p, j) = 0
<1> DEFINE S == Siguientes(i, n)
<1>1. Punteros * (Celdas + 1) - 1 \in Int
  BY Medidas
<1>2. S \in SUBSET Nat /\ S \subseteq Posiciones /\ \A k \in S : n <= k /\ BloqueEn(i, k) # 0
  BY <1>1 DEF Siguientes, Posiciones
<1>3. m \in S /\ \A k \in S : m <= k
  BY <1>2, MinimoDe
<1>4. ASSUME NEW p \in Pis, NEW j \in 0..Celdas, n <= Pos(p, j), Pos(p, j) < m
      PROVE  En(i, p, j) = 0
  <2>1. Pos(p, j) \notin S /\ Pos(p, j) \in Posiciones
    BY <1>1, <1>2, <1>3, <1>4, PosicionDe DEF Posiciones
  <2>2. Pos(p, j) \in n..(Punteros * (Celdas + 1) - 1)
    BY <1>1, <1>4, <2>1 DEF Posiciones
  <2>3. QED
    BY <2>1, <2>2, EnPosicion DEF Siguientes
<1>5. QED
  BY <1>2, <1>3, <1>4

LEMMA NadaMas ==
  ASSUME NEW i, NEW n \in Nat, Siguientes(i, n) = {}
  PROVE  \A p \in Pis, j \in 0..Celdas : n <= Pos(p, j) => En(i, p, j) = 0
<1> SUFFICES ASSUME NEW p \in Pis, NEW j \in 0..Celdas, n <= Pos(p, j) PROVE En(i, p, j) = 0
  OBVIOUS
<1>1. Pos(p, j) \in Posiciones /\ Punteros * (Celdas + 1) - 1 \in Int
  BY PosicionDe, Medidas
<1>2. Pos(p, j) \in n..(Punteros * (Celdas + 1) - 1)
  BY <1>1 DEF Posiciones
<1>3. QED
  BY <1>2, EnPosicion DEF Siguientes

(* A pointer is after the cells of its block. *)
LEMMA CeldasAntes ==
  ASSUME NEW p \in Pis, NEW j \in Celda
  PROVE  Pos(p, j) < Pos(p, Celdas)
<1>1. p * (Celdas + 1) \in Int /\ j \in Int /\ j < Celdas /\ Celdas \in Int
  BY Medidas DEF Pis, Celda
<1>2. QED
  BY <1>1 DEF Pos

-----------------------------------------------------------------------------
(* What a step does to the places.                                           *)

(* Nothing. *)
LEMMA MismosApuntes ==
  ASSUME Apuntes, Distintos,
         \A i \in Indices, p \in Pis, j \in 0..Celdas : En(i, p, j)' = En(i, p, j)
  PROVE  Apuntes' /\ Distintos' /\ \A b : Referido(b)' <=> Referido(b)
  BY DEF Apuntes, Distintos, Referido

(* One place gets a block nobody had, or nothing. *)
Cambia(i, p, j, b) ==
  /\ b \in {0} \cup Datos /\ (b # 0 => ~Referido(b)) /\ En(i, p, j)' = b
  /\ \A k \in Indices, q \in Pis, h \in 0..Celdas :
       k # i \/ q # p \/ h # j => En(k, q, h)' = En(k, q, h)

LEMMA UnApunte ==
  ASSUME Apuntes, Distintos, NEW i \in Indices, NEW p \in Pis, NEW j \in 0..Celdas, NEW b, Cambia(i, p, j, b)
  PROVE  /\ Apuntes' /\ Distintos'
         /\ \A x \in Datos : Referido(x)' <=> (Referido(x) /\ x # En(i, p, j)) \/ x = b
<1>1. /\ b \in {0} \cup Datos /\ (b # 0 => ~Referido(b)) /\ En(i, p, j)' = b
      /\ \A k \in Indices, q \in Pis, h \in 0..Celdas :
           k # i \/ q # p \/ h # j => En(k, q, h)' = En(k, q, h)
  BY DEF Cambia
<1>2. Apuntes'
  <2>1. \A k \in Indices, q \in Pis, h \in 0..Celdas : En(k, q, h)' \in {0} \cup Datos
    BY <1>1 DEF Apuntes
  <2>2. QED
    BY <2>1 DEF Apuntes
<1>3. ASSUME NEW k \in Indices, NEW l \in Indices, NEW q \in Pis, NEW r \in Pis,
             NEW g \in 0..Celdas, NEW h \in 0..Celdas,
             En(k, q, g)' = En(l, r, h)', En(k, q, g)' # 0
      PROVE  k = l /\ q = r /\ g = h
  <2>1. CASE (k # i \/ q # p \/ g # j) /\ (l # i \/ r # p \/ h # j)
    BY <1>1, <1>3, <2>1 DEF Distintos
  <2>2. CASE k = i /\ q = p /\ g = j
    BY <1>1, <1>3, <2>2 DEF Referido
  <2>3. CASE l = i /\ r = p /\ h = j
    BY <1>1, <1>3, <2>3 DEF Referido
  <2>4. QED
    BY <2>1, <2>2, <2>3
<1>4. Distintos'
  BY <1>3 DEF Distintos
<1>5. ASSUME NEW x \in Datos PROVE Referido(x)' <=> (Referido(x) /\ x # En(i, p, j)) \/ x = b
  <2>0. x # 0
    BY Medidas
  <2>1. Referido(x)' <=> \E k \in Indices, q \in Pis, h \in 0..Celdas : En(k, q, h)' = x
    BY DEF Referido
  <2>2. ASSUME NEW k \in Indices, NEW q \in Pis, NEW h \in 0..Celdas, En(k, q, h)' = x
        PROVE  (Referido(x) /\ x # En(i, p, j)) \/ x = b
    BY <1>1, <2>0, <2>2 DEF Referido, Distintos
  <2>3. ASSUME (Referido(x) /\ x # En(i, p, j)) \/ x = b
        PROVE  \E k \in Indices, q \in Pis, h \in 0..Celdas : En(k, q, h)' = x
    BY <1>1, <2>3 DEF Referido
  <2>4. QED
    BY <2>1, <2>2, <2>3
<1>6. QED
  BY <1>2, <1>4, <1>5

-----------------------------------------------------------------------------
(* The server is started.                                                    *)

(* Of the used nodes with a path, the dictionary takes one. *)
LEMMA DiccionarioDeNodos ==
  ASSUME NEW t, DOMAIN t = Indices, NEW r \in DOMAIN Diccionario(t)
  PROVE  Diccionario(t)[r] \in Indices /\ t[Diccionario(t)[r]].estado # 0 /\ Caminos(t)[Diccionario(t)[r]] = r
<1> DEFINE camino == Caminos(t)
           son == {j \in Levantados(t) : camino[j] = r}
           Despues(j, k) == t[j].padre > t[k].padre \/ (t[j].padre = t[k].padre /\ j >= k)
<1>1. DOMAIN Diccionario(t) = {camino[j] : j \in Levantados(t)}
  BY DEF Diccionario
<1>2. son # {}
  BY <1>1
<1>3. son \subseteq Indices /\ \A j \in son : t[j].padre \in 0..(Nodos - 1)
  BY DEF Levantados
<1>4. Diccionario(t)[r] = CHOOSE j \in son : \A k \in son : Despues(j, k)
  BY <1>1 DEF Diccionario
<1> HIDE DEF son
<1>5. Nodos \in Nat /\ Indices = 0..(Nodos - 1)
  BY Medidas DEF Indices
<1>6. PICK j \in son : \A k \in son : t[k].padre <= t[j].padre
  <2> DEFINE S == {Nodos - 1 - t[k].padre : k \in son}
  <2>1. S \in SUBSET Nat /\ S # {}
    <3>1. \A k \in son : Nodos - 1 - t[k].padre \in Nat
      BY <1>3, <1>5
    <3>2. QED
      BY <1>2, <3>1
  <2>2. PICK j \in son : Min(S) = Nodos - 1 - t[j].padre
    <3>1. Min(S) \in S
      BY <2>1, MinimoDe
    <3>2. QED
      BY <3>1
  <2>3. \A k \in son : Nodos - 1 - t[j].padre <= Nodos - 1 - t[k].padre
    <3>1. \A y \in S : Min(S) <= y
      BY <2>1, MinimoDe
    <3>2. QED
      BY <2>2, <3>1
  <2>4. QED
    BY <1>3, <1>5, <2>3
<1>7. PICK m \in son : t[m].padre = t[j].padre /\ \A k \in son : t[k].padre = t[j].padre => k <= m
  <2> DEFINE U == {k \in son : t[k].padre = t[j].padre}
             S == {Nodos - 1 - k : k \in U}
  <2>1. S \in SUBSET Nat /\ S # {}
    BY <1>3, <1>5
  <2>2. PICK m \in U : Min(S) = Nodos - 1 - m
    <3>1. Min(S) \in S
      BY <2>1, MinimoDe
    <3>2. QED
      BY <3>1
  <2>3. \A k \in U : Nodos - 1 - m <= Nodos - 1 - k
    <3>1. \A y \in S : Min(S) <= y
      BY <2>1, MinimoDe
    <3>2. QED
      BY <2>2, <3>1
  <2>4. QED
    BY <1>3, <1>5, <2>2, <2>3
<1>8. \A k \in son : Despues(m, k)
  BY <1>3, <1>5, <1>6, <1>7
<1>9. (CHOOSE n \in son : \A k \in son : Despues(n, k)) \in son
  BY <1>8
<1>10. Diccionario(t)[r] \in son
  BY <1>4, <1>9
<1>11. QED
  BY <1>3, <1>10 DEF son, Levantados

LEMMA BloquesInicial ==
  ASSUME Hipotesis, Init
  PROVE  BloquesInv
<1> USE DEF Init, DiscoInit, AtencionInit, Hipotesis, FormatoBien
<1>1. LocalVacio \in LocalTipo /\ "libre" \in Quietos /\ "libre" \in Puntos
  BY Medidas DEF LocalVacio, LocalTipo, Quietos, Puntos
<1>2. tabla \in [Indices -> NodoTipo] /\ disco \in [Datos -> [Celda -> Nat]]
  <2>1. tabla = Formato.tabla /\ disco = Formato.disco
    OBVIOUS
  <2>2. Vacio \in [Celda -> Nat]
    BY Medidas
  <2>3. QED
    BY <2>1, <2>2
<1>3. \A r \in DOMAIN dicc : dicc[r] \in Indices
  BY <1>2, DiccionarioDeNodos
<1>4. SacTipo
  <2>1. /\ pedido \in [Conexiones -> TodoPedido]
        /\ respuesta \in [Conexiones -> {"", "ok", "error"}]
        /\ pc \in [Conexiones -> Puntos] /\ local \in [Conexiones -> LocalTipo]
    <3>1. Nada \in TodoPedido
      BY DEF TodoPedido
    <3>2. QED
      BY <1>1, <3>1
  <2>2. bitarray \subseteq 0..(Bits - 1) /\ mutexDicc \in Conexiones \cup {Nada}
    BY Medidas
  <2>3. DOMAIN dicc \subseteq Seq(Seq(Nat))
    OBVIOUS
  <2>4. QED
    BY <1>2, <1>3, <2>1, <2>2, <2>3 DEF SacTipo
<1>5. \A i \in Indices, p \in Pis, j \in 0..Celdas : En(i, p, j) = 0
  BY DEF En, BPD, BloqueDato
<1>6. Apuntes /\ Distintos /\ \A b \in Datos : ~Referido(b)
  <2>1. Apuntes /\ Distintos
    BY <1>5 DEF Apuntes, Distintos
  <2>2. ASSUME NEW b \in Datos PROVE ~Referido(b)
    <3>1. b # 0
      BY Medidas
    <3>2. QED
      BY ONLY <1>5, <3>1 DEF Referido
  <2>3. QED
    BY <2>1, <2>2
<1>7. Limpios /\ BitmapInicial \subseteq bitarray
  BY DEF Limpios
<1>8. \A c \in Conexiones : pc[c] = "libre" /\ local[c] = LocalVacio /\ pedido[c] = Nada
  OBVIOUS
<1>9. Marcas
  BY <1>6, <1>8, Medidas DEF Marcas, Entra
<1>10. ASSUME NEW c \in Conexiones PROVE Sirve(c) /\ Toma(c) /\ Recorre(c)
  BY <1>8 DEF Sirve, Toma, Recorre, Entra, LocalVacio, DeCrear, DeRenombrar, DeEscribir, DeVaciar
<1>11. QED
  BY <1>4, <1>6, <1>7, <1>9, <1>10 DEF BloquesInv

-----------------------------------------------------------------------------
(* What the steps share.                                                     *)

(* A step that leaves the blocks, and the marks, alone. *)
LEMMA QuietaInv ==
  ASSUME UnMontaje, BloquesInv, NEW c \in Conexiones, SacTipo', Sirve(c)',
         UNCHANGED <<disco, bitarray>>, \A i \in Indices : tabla'[i].punteros = tabla[i].punteros,
         ~Entra(c), ~Sale(c), ~Entra(c)', ~Sale(c)', Toma(c)', Recorre(c)'
  PROVE  BloquesInv'
<1> USE DEF BloquesInv
<1>1. \A i \in Indices, p \in Pis, j \in 0..Celdas : En(i, p, j)' = En(i, p, j)
  BY DEF En, BPD, BloqueDato
<1>2. Apuntes' /\ Distintos' /\ \A b : Referido(b)' <=> Referido(b)
  BY <1>1, MismosApuntes
<1>3. Limpios' /\ (BitmapInicial \subseteq bitarray)'
  BY <1>2 DEF Limpios
<1>4. \A d \in Conexiones : d = c
  BY DEF UnMontaje
<1>5. Marcas'
  <2>1. \A b \in Datos : b \in bitarray' <=> Referido(b)'
    BY <1>2, <1>4 DEF Marcas
  <2>2. \A d \in Conexiones : ~Entra(d)' /\ ~Sale(d)'
    BY <1>4
  <2>3. QED
    BY <2>1, <2>2 DEF Marcas
<1>6. \A d \in Conexiones : Sirve(d)' /\ Toma(d)' /\ Recorre(d)'
  BY <1>4
<1>7. QED
  BY <1>2, <1>3, <1>5, <1>6

(* The handler goes on with its request. *)
LEMMA Sigue ==
  ASSUME SacTipo, NEW c \in Conexiones, NEW punto \in Puntos, Ir(c, punto),
         local' \in [Conexiones -> LocalTipo]
  PROVE  /\ pc'[c] = punto /\ pedido'[c] = pedido[c]
         /\ pedido' \in [Conexiones -> TodoPedido]
         /\ respuesta' \in [Conexiones -> {"", "ok", "error"}]
         /\ pc' \in [Conexiones -> Puntos]
  BY DEF SacTipo, Ir

(* It answers. *)
LEMMA Termina ==
  ASSUME SacTipo, NEW c \in Conexiones, NEW punto \in {"libre", "colgado"}, NEW r \in {"", "ok", "error"},
         Terminar(c, punto, r)
  PROVE  /\ pc'[c] = punto /\ pedido'[c] = Nada /\ local'[c] = LocalVacio
         /\ pedido' \in [Conexiones -> TodoPedido]
         /\ respuesta' \in [Conexiones -> {"", "ok", "error"}]
         /\ pc' \in [Conexiones -> Puntos] /\ local' \in [Conexiones -> LocalTipo]
         /\ ~Entra(c)' /\ ~Sale(c)' /\ Toma(c)' /\ Recorre(c)' /\ Sirve(c)'
<1>1. LocalVacio \in LocalTipo /\ punto \in Puntos
  BY Medidas DEF LocalVacio, LocalTipo, Quietos, Puntos
<1>2. /\ pc' = [pc EXCEPT ![c] = punto] /\ local' = [local EXCEPT ![c] = LocalVacio]
      /\ pedido' = [pedido EXCEPT ![c] = Nada] /\ respuesta' = [respuesta EXCEPT ![c] = r]
  BY DEF Terminar
<1>3. pc'[c] = punto /\ pc' \in [Conexiones -> Puntos]
  BY <1>1, <1>2 DEF SacTipo
<1>4. local'[c] = LocalVacio /\ local' \in [Conexiones -> LocalTipo]
  BY <1>1, <1>2 DEF SacTipo
<1>5. /\ pedido'[c] = Nada
      /\ pedido' \in [Conexiones -> TodoPedido]
  <2>1. pedido \in [Conexiones -> TodoPedido]
    BY DEF SacTipo
  <2>2. Nada \in TodoPedido
    BY DEF TodoPedido
  <2>3. QED
    BY <1>2, <2>1, <2>2
<1>6. respuesta' \in [Conexiones -> {"", "ok", "error"}]
  BY <1>2 DEF SacTipo
<1>7. ~Entra(c)' /\ ~Sale(c)' /\ Toma(c)'
  BY <1>3 DEF Entra, Sale, Toma
<1>8. Recorre(c)'
  <2>1. pc'[c] \notin DeVaciar /\ local'[c].cursor = 0
    <3>1. pc'[c] \notin DeVaciar
      BY <1>3 DEF DeVaciar
    <3>2. LocalVacio.cursor = 0
      BY DEF LocalVacio
    <3>3. QED
      BY <1>4, <3>1, <3>2
  <2>2. QED
    BY <2>1 DEF Recorre
<1>9. Sirve(c)'
  BY <1>3, <1>5 DEF Sirve, DeCrear, DeRenombrar, DeEscribir, DeVaciar
<1>10. QED
  BY <1>3, <1>4, <1>5, <1>6, <1>7, <1>8, <1>9

(* What the requests that have nothing to do with blocks leave. *)
Conserva ==
  /\ UNCHANGED <<disco, bitarray>> /\ tabla' \in [Indices -> NodoTipo]
  /\ \A i \in Indices : tabla'[i].punteros = tabla[i].punteros
  /\ DOMAIN dicc' \subseteq Seq(Seq(Nat)) /\ \A r \in DOMAIN dicc' : dicc'[r] \in Indices
  /\ mutexDicc' \in Conexiones \cup {Nada}

LEMMA Conservan ==
  ASSUME SacTipo, UNCHANGED discoVars
  PROVE  Conserva
  BY DEF SacTipo, Conserva, discoVars, enDisco, enMemoria

LEMMA SigueQuieta ==
  ASSUME UnMontaje, BloquesInv, NEW c \in Conexiones, Conserva, NEW punto \in Quietos, Ir(c, punto),
         local' \in [Conexiones -> LocalTipo], local'[c].cursor = local[c].cursor,
         pc[c] \in Quietos, pedido[c] # Nada,
         punto \in DeCrear => pedido[c].op \in {"MKNOD", "MKDIR", "OPEN"},
         punto \in DeRenombrar => pedido[c].op = "RENAME",
         punto = "con_nodo" => local'[c].nodo \in Indices
  PROVE  BloquesInv'
<1>1. punto \in Puntos /\ SacTipo
  BY DEF Puntos, BloquesInv
<1>2. /\ pc'[c] = punto /\ pedido'[c] = pedido[c]
      /\ pedido' \in [Conexiones -> TodoPedido] /\ respuesta' \in [Conexiones -> {"", "ok", "error"}]
      /\ pc' \in [Conexiones -> Puntos]
  BY <1>1, Sigue
<1>3. SacTipo'
  BY <1>1, <1>2 DEF SacTipo, Conserva
<1>4. \A q \in Quietos : q \notin DeVaciar /\ q \notin DeEscribir
  BY DEF Quietos, DeVaciar, DeEscribir, DeCrear, DeRenombrar, DeListar, DeBuscar
<1>5. pc[c] \notin DeVaciar \cup DeEscribir /\ pc'[c] \notin DeVaciar \cup DeEscribir
  BY <1>2, <1>4
<1>6. ~Entra(c) /\ ~Sale(c) /\ ~Entra(c)' /\ ~Sale(c)' /\ Toma(c)'
  BY <1>5 DEF Entra, Sale, Toma, DeEscribir, DeVaciar
<1>7. Recorre(c)'
  <2>1. Recorre(c)
    BY DEF BloquesInv
  <2>2. QED
    BY <1>5, <2>1 DEF Recorre
<1>8. Sirve(c)'
  <2>1. pedido[c] \in Pedibles[c] \cup {Nada}
    BY DEF BloquesInv, Sirve
  <2>2. QED
    BY <1>2, <1>5, <2>1 DEF Sirve, Nodo
<1>9. QED
  BY <1>3, <1>6, <1>7, <1>8, QuietaInv DEF Conserva

LEMMA TerminaQuieta ==
  ASSUME UnMontaje, BloquesInv, NEW c \in Conexiones, Conserva, NEW punto \in {"libre", "colgado"},
         NEW r \in {"", "ok", "error"}, Terminar(c, punto, r), ~Entra(c), ~Sale(c)
  PROVE  BloquesInv'
<1>1. SacTipo
  BY DEF BloquesInv
<1>2. /\ pedido' \in [Conexiones -> TodoPedido] /\ respuesta' \in [Conexiones -> {"", "ok", "error"}]
      /\ pc' \in [Conexiones -> Puntos] /\ local' \in [Conexiones -> LocalTipo]
      /\ ~Entra(c)' /\ ~Sale(c)' /\ Toma(c)' /\ Recorre(c)' /\ Sirve(c)'
  BY <1>1, Termina
<1>3. SacTipo'
  BY <1>1, <1>2 DEF SacTipo, Conserva
<1>4. QED
  BY <1>2, <1>3, QuietaInv DEF Conserva

(* An answer from a point where no block is on its way. *)
LEMMA RespondeQuieta ==
  ASSUME UnMontaje, BloquesInv, NEW c \in Conexiones, Conserva, NEW r \in {"", "ok", "error"},
         Responder(c, r), pc[c] \in Quietos
  PROVE  BloquesInv'
<1>1. ~Entra(c) /\ ~Sale(c)
  BY DEF Entra, Sale, Quietos, DeCrear, DeRenombrar, DeListar, DeBuscar
<1>2. QED
  BY <1>1, TerminaQuieta DEF Responder

(* The node of a path is in the table. *)
LEMMA SacaNodo ==
  ASSUME SacTipo, NEW r
  PROVE  Saca(r) \in Indices
  BY Medidas DEF Saca, SacTipo

(* The request of a handler that is serving it. *)
LEMMA PedidoDe ==
  ASSUME BloquesInv, NEW c \in Conexiones, pc[c] # "colgado", pc[c] # "libre" \/ pedido[c] # Nada
  PROVE  pedido[c] \in Pedibles[c] /\ pedido[c] # Nada
  BY DEF BloquesInv, Sirve

-----------------------------------------------------------------------------
(* The requests on nodes and on the tree.                                    *)

LEMMA BuscarNodoInv ==
  ASSUME UnMontaje, BloquesInv, NEW c \in Conexiones, BuscarNodo(c)
  PROVE  BloquesInv'
<1>1. Conserva /\ UNCHANGED local /\ SacTipo
  BY Conservan DEF BuscarNodo, BloquesInv
<1>2. local' \in [Conexiones -> LocalTipo] /\ local'[c].cursor = local[c].cursor
  BY <1>1 DEF SacTipo
<1>3. CASE Llega(c, ConNodo) /\ Ir(c, "tomar_nodo")
  <2>1. pc[c] \in Quietos /\ pedido[c] # Nada /\ "tomar_nodo" \in Quietos
    BY <1>3 DEF Llega, Quietos, DeBuscar
  <2>2. "tomar_nodo" \notin DeCrear \cup DeRenombrar
    BY DEF DeCrear, DeRenombrar
  <2>3. QED
    BY <1>1, <1>2, <1>3, <2>1, <2>2, SigueQuieta
<1>4. CASE Esta(c, "desasignar") /\ Ir(c, "retomar_nodo")
  <2>1. pc[c] \in Quietos /\ pedido[c] # Nada /\ "retomar_nodo" \in Quietos
    BY <1>4, PedidoDe DEF Esta, Quietos, DeBuscar
  <2>2. "retomar_nodo" \notin DeCrear \cup DeRenombrar
    BY DEF DeCrear, DeRenombrar
  <2>3. QED
    BY <1>1, <1>2, <1>4, <2>1, <2>2, SigueQuieta
<1>5. QED
  BY <1>3, <1>4 DEF BuscarNodo

(* The node of the request, or the one whose blocks are to be given back. *)
LEMMA TomarNodoInv ==
  ASSUME UnMontaje, BloquesInv, NEW c \in Conexiones, TomarNodo(c)
  PROVE  BloquesInv'
<1>1. Conserva /\ SacTipo /\ Saca(Ruta(c)) \in Indices
  BY Conservan, SacaNodo DEF TomarNodo, BloquesInv
<1>2. /\ local' \in [Conexiones -> LocalTipo] /\ local'[c].cursor = local[c].cursor
      /\ local'[c].nodo \in Indices
  BY <1>1 DEF TomarNodo, SacTipo, LocalTipo
<1>3. CASE Esta(c, "tomar_nodo") /\ Ir(c, "con_nodo")
  <2>1. pc[c] \in Quietos /\ pedido[c] # Nada /\ "con_nodo" \in Quietos
    BY <1>3, PedidoDe DEF Esta, Quietos, DeBuscar
  <2>2. "con_nodo" \notin DeCrear \cup DeRenombrar
    BY DEF DeCrear, DeRenombrar
  <2>3. QED
    BY <1>1, <1>2, <1>3, <2>1, <2>2, SigueQuieta
<1>4. CASE Esta(c, "retomar_nodo") /\ Ir(c, "vaciar")
  <2>1. pc[c] = "retomar_nodo" /\ pedido[c] # Nada /\ pedido[c] \in Pedibles[c] /\ "vaciar" \in Puntos
    BY <1>4, PedidoDe DEF Esta, Puntos, DeVaciar
  <2>2. /\ pc'[c] = "vaciar" /\ pedido'[c] = pedido[c]
        /\ pedido' \in [Conexiones -> TodoPedido] /\ respuesta' \in [Conexiones -> {"", "ok", "error"}]
        /\ pc' \in [Conexiones -> Puntos]
    BY <1>1, <1>2, <1>4, <2>1, Sigue
  <2>3. SacTipo'
    BY <1>1, <1>2, <2>2 DEF SacTipo, Conserva
  <2>4. ~Entra(c) /\ ~Sale(c) /\ ~Entra(c)' /\ ~Sale(c)' /\ Toma(c)'
    BY <2>1, <2>2 DEF Entra, Sale, Toma
  <2>5. Sirve(c)'
    BY <1>2, <2>1, <2>2 DEF Sirve, Nodo, DeCrear, DeRenombrar, DeEscribir
  <2>6. local'[c].cursor = 0
    <3>1. Recorre(c) /\ pc[c] \notin DeVaciar
      BY <2>1 DEF BloquesInv, DeVaciar
    <3>2. QED
      BY <1>2, <3>1 DEF Recorre
  <2>7. Recorre(c)'
    <3>1. \A p \in Pis, j \in 0..Celdas : ~(Pos(p, j) < 0)
      BY PosicionDe, CamposDePosicion
    <3>2. EnBucle(c)'
      BY <2>2, <2>6, <3>1 DEF EnBucle
    <3>3. pc'[c] \in DeVaciar
      BY <2>2 DEF DeVaciar
    <3>4. QED
      BY <3>2, <3>3 DEF Recorre
  <2>8. QED
    BY <1>1, <2>3, <2>4, <2>5, <2>7, QuietaInv DEF Conserva
<1>5. QED
  BY <1>3, <1>4 DEF TomarNodo

LEMMA CaerInv ==
  ASSUME UnMontaje, BloquesInv, Caer
  PROVE  BloquesInv'
<1>1. UNCHANGED <<tabla, disco, dicc, bitarray, mutexDicc, pedido, respuesta, pc, local>>
  BY DEF Caer, enDisco, enMemoria, atencionVars
<1>2. \A i, p, j : En(i, p, j)' = En(i, p, j)
  BY <1>1 DEF En, BPD, BloqueDato
<1>3. Apuntes' /\ Distintos' /\ \A b : Referido(b)' <=> Referido(b)
  BY <1>2, MismosApuntes DEF BloquesInv
<1>4. \A c \in Conexiones : AlCursor(c)' = AlCursor(c)
  BY <1>1 DEF AlCursor, BloqueEn, BPD, BloqueDato, Nodo
<1>5. SacTipo' /\ Limpios' /\ (BitmapInicial \subseteq bitarray)'
  BY <1>1, <1>3 DEF BloquesInv, SacTipo, Limpios
<1>6. Marcas'
  BY <1>1, <1>3, <1>4 DEF BloquesInv, Marcas, Entra, Sale
<1>7. ASSUME NEW c \in Conexiones PROVE Sirve(c)' /\ Toma(c)' /\ Recorre(c)'
  <2>1. Sirve(c) /\ Toma(c) /\ Recorre(c)
    BY DEF BloquesInv
  <2>2. Sirve(c)'
    BY <1>1, <2>1 DEF Sirve, Nodo
  <2>3. Toma(c)'
    BY <1>1, <1>3, <2>1 DEF Toma, Entra, Nodo, BPD, BloqueDato, PIS, Entrada
  <2>4. Recorre(c)'
    BY <1>1, <1>2, <1>4, <2>1 DEF Recorre, EnBucle, Nodo
  <2>5. QED
    BY <2>2, <2>3, <2>4
<1>8. QED
  BY <1>3, <1>5, <1>6, <1>7 DEF BloquesInv

LEMMA AtenderNodoInv ==
  ASSUME UnMontaje, BloquesInv, NEW c \in Conexiones, AtenderNodo(c)
  PROVE  BloquesInv'
<1>1. CASE NoHayNodo(c)
  <2>1. Conserva /\ pc[c] \in Quietos
    BY <1>1, Conservan DEF NoHayNodo, Llega, Quietos, BloquesInv
  <2>2. QED
    BY <1>1, <2>1, RespondeQuieta DEF NoHayNodo
<1>2. CASE Contestar(c)
  <2>1. Conserva /\ pc[c] \in Quietos
    BY <1>2, Conservan DEF Contestar, Esta, Quietos, DeBuscar, BloquesInv
  <2>2. QED
    BY <1>2, <2>1, RespondeQuieta DEF Contestar
<1>3. CASE Leer(c)
  <2>1. Conserva /\ ~Entra(c) /\ ~Sale(c)
    BY <1>3, Conservan DEF Leer, Esta, Entra, Sale, BloquesInv
  <2>2. Terminar(c, "libre", "ok")
    BY <1>3 DEF Leer
  <2>3. QED
    BY <2>1, <2>2, TerminaQuieta
<1>4. QED
  BY <1>1, <1>2, <1>3, BuscarNodoInv, TomarNodoInv, CaerInv DEF AtenderNodo, NodoInvalido

(* What is asked for is a path, and what is created or renamed is not the root. *)
LEMMA RutasDePedido ==
  ASSUME Hipotesis, BloquesInv, NEW c \in Conexiones, pedido[c] # Nada
  PROVE  /\ pedido[c] \in Pedibles[c] /\ Ruta(c) \in Seq(Seq(Nat))
         /\ pedido[c].op \in Nombran => Ruta(c) # <<>>
         /\ pedido[c].op = "RENAME" => pedido[c].destino \in Seq(Seq(Nat)) /\ pedido[c].destino # <<>>
         /\ pedido[c].op = "WRITE" => /\ pedido[c].desde \in 0..(Capacidad - 1)
                                      /\ pedido[c].largo \in Nat /\ pedido[c].valor \in Nat
<1>1. pedido[c] \in Pedibles[c]
  BY DEF BloquesInv, Sirve
<1>2. QED
  BY <1>1 DEF Hipotesis, PedidosBien, Ruta

LEMMA UltimoNombre ==
  ASSUME NEW r \in Seq(Seq(Nat)), r # <<>>
  PROVE  Last(r) \in Seq(Nat) /\ ElNombre(r) \in Seq(Nat) /\ Front(r) \in Seq(Seq(Nat))
<1>1. Len(r) \in Nat \ {0} /\ \A k \in 1..Len(r) : r[k] \in Seq(Nat)
  BY EmptySeq
<1>2. Last(r) \in Seq(Nat)
  BY <1>1 DEF Last
<1>3. SubSeq(r, 1, Len(r) - 1) \in Seq(Seq(Nat))
  BY <1>1
<1>4. QED
  BY <1>2, <1>3 DEF ElNombre, Front

(* The rest of a sequence. *)
LEMMA RestoDe ==
  ASSUME NEW S, NEW s \in Seq(S), NEW m \in Nat \ {0}
  PROVE  SubSeq(s, m, Len(s)) \in Seq(S)
<1>1. Len(s) \in Nat /\ \A k \in 1..Len(s) : s[k] \in S
  OBVIOUS
<1>2. CASE m <= Len(s)
  BY <1>1, <1>2
<1>3. CASE m > Len(s)
  BY <1>1, <1>3
<1>4. QED
  BY <1>1, <1>2, <1>3

LEMMA PoneTipo ==
  ASSUME NEW d, NEW S, DOMAIN d \subseteq S, \A r \in DOMAIN d : d[r] \in Indices,
         NEW ruta \in S, NEW i \in Indices
  PROVE  /\ DOMAIN Pone(d, ruta, i) \subseteq S
         /\ \A r \in DOMAIN Pone(d, ruta, i) : Pone(d, ruta, i)[r] \in Indices
  BY DEF Pone

LEMMA SinTipo ==
  ASSUME NEW d, NEW S, DOMAIN d \subseteq S, \A r \in DOMAIN d : d[r] \in Indices, NEW ruta
  PROVE  /\ DOMAIN Sin(d, ruta) \subseteq S
         /\ \A r \in DOMAIN Sin(d, ruta) : Sin(d, ruta)[r] \in Indices
  BY DEF Sin

LEMMA ReemplazarTipo ==
  ASSUME NEW r \in Seq(Seq(Nat)), NEW viejo \in Seq(Seq(Nat)), viejo # <<>>,
         NEW nuevo \in Seq(Seq(Nat)), nuevo # <<>>, EmpiezaCon(r, viejo)
  PROVE  Reemplazar(r, viejo, nuevo) \in Seq(Seq(Nat))
<1> DEFINE n == Len(viejo)
           resto == SubSeq(r[n], Len(Last(viejo)) + 1, Len(r[n]))
<1>1. n \in Nat \ {0} /\ n <= Len(r) /\ Len(r) \in Nat
  BY EmptySeq DEF EmpiezaCon
<1>2. r[n] \in Seq(Nat)
  BY <1>1
<1>3. Len(Last(viejo)) + 1 \in Nat \ {0}
  BY UltimoNombre
<1>4. resto \in Seq(Nat)
  BY <1>2, <1>3, RestoDe
<1>5. SubSeq(r, n + 1, Len(r)) \in Seq(Seq(Nat))
  BY <1>1, RestoDe
<1>6. Reemplazar(r, viejo, nuevo) = Append(Front(nuevo), Last(nuevo) \o resto) \o SubSeq(r, n + 1, Len(r))
  BY DEF Reemplazar
<1> HIDE DEF n, resto
<1>7. Last(nuevo) \in Seq(Nat) /\ Front(nuevo) \in Seq(Seq(Nat))
  BY UltimoNombre
<1>8. Last(nuevo) \o resto \in Seq(Nat)
  BY <1>4, <1>7
<1>9. Append(Front(nuevo), Last(nuevo) \o resto) \in Seq(Seq(Nat))
  BY <1>7, <1>8
<1>10. QED
  BY <1>5, <1>6, <1>9

(* A node is given back. *)
LEMMA NodoLiberado ==
  ASSUME NEW s \in [Indices -> NodoTipo], NEW i
  PROVE  /\ [s EXCEPT ![i].estado = 0, ![i].tamanio = 0] \in [Indices -> NodoTipo]
         /\ \A k \in Indices : [s EXCEPT ![i].estado = 0, ![i].tamanio = 0][k].punteros = s[k].punteros
<1>0. PICK e \in 0..2 : e = 0
  OBVIOUS
<1> DEFINE u == [s EXCEPT ![i].estado = e]
           t == [u EXCEPT ![i].tamanio = 0]
<1>1. u \in [Indices -> NodoTipo] /\ \A k \in Indices : u[k].punteros = s[k].punteros
  BY DEF NodoTipo
<1>2. [s EXCEPT ![i].estado = 0, ![i].tamanio = 0] = t
  BY <1>0
<1> HIDE DEF u
<1>3. t \in [Indices -> NodoTipo] /\ \A k \in Indices : t[k].punteros = u[k].punteros
  BY <1>1 DEF NodoTipo
<1> HIDE DEF t
<1>4. QED
  BY <1>1, <1>2, <1>3

(* Those that only take the handler on, or answer. *)
LEMMA PuntosQuietos ==
  /\ Quietos = {"libre", "colgado", "crear", "elegir", "marcar", "buscar_padre", "nombrar", "apadrinar",
                "cambiar_clave", "cambiar_nombres", "entradas", "tomar_directorio", "listar", "borrar_directorio",
                "tomar_nodo", "con_nodo", "desasignar", "retomar_nodo", "tomar_unlink"}
  BY DEF Quietos, DeCrear, DeRenombrar, DeListar, DeBuscar

LEMMA SoloAvanza ==
  ASSUME UnMontaje, BloquesInv, NEW c \in Conexiones, UNCHANGED <<discoVars, local>>,
         NEW punto \in Quietos, Ir(c, punto), pc[c] \in Quietos, pedido[c] # Nada,
         punto \in DeCrear => pedido[c].op \in {"MKNOD", "MKDIR", "OPEN"},
         punto \notin DeRenombrar \cup {"con_nodo"}
  PROVE  BloquesInv'
<1>1. Conserva /\ local' \in [Conexiones -> LocalTipo] /\ local'[c].cursor = local[c].cursor
  BY Conservan DEF BloquesInv, SacTipo
<1>2. QED
  BY <1>1, SigueQuieta

LEMMA SoloResponde ==
  ASSUME UnMontaje, BloquesInv, NEW c \in Conexiones, UNCHANGED discoVars, NEW r \in {"", "ok", "error"},
         Responder(c, r), pc[c] \in Quietos
  PROVE  BloquesInv'
<1>1. Conserva
  BY Conservan DEF BloquesInv
<1>2. QED
  BY <1>1, RespondeQuieta

LEMMA AbrirInv ==
  ASSUME UnMontaje, BloquesInv, NEW c \in Conexiones, AbrirExistente(c) \/ AbrirAusente(c)
  PROVE  BloquesInv'
<1>1. pc[c] = "libre" /\ pc[c] \in Quietos /\ pedido[c] # Nada /\ pedido[c].op = "OPEN" /\ UNCHANGED discoVars
  BY PuntosQuietos DEF AbrirExistente, AbrirAusente, Llega
<1>2. CASE AbrirExistente(c)
  <2>1. PICK r \in {"", "ok", "error"} : Responder(c, r)
    BY <1>2 DEF AbrirExistente
  <2>2. QED
    BY <1>1, <2>1, SoloResponde
<1>3. CASE AbrirAusente(c)
  <2>1. CASE Responder(c, "error")
    BY <1>1, <2>1, SoloResponde
  <2>2. CASE Ir(c, "crear") /\ UNCHANGED local
    <3>1. "crear" \in Quietos /\ "crear" \notin DeRenombrar \cup {"con_nodo"}
      BY PuntosQuietos DEF DeRenombrar
    <3>2. QED
      BY <1>1, <2>2, <3>1, SoloAvanza
  <2>3. QED
    BY <1>3, <2>1, <2>2 DEF AbrirAusente
<1>4. QED
  BY <1>2, <1>3

LEMMA EmpezarACrearInv ==
  ASSUME UnMontaje, BloquesInv, NEW c \in Conexiones, CrearExistente(c) \/ CrearAusente(c)
  PROVE  BloquesInv'
<1>1. /\ pc[c] \in Quietos /\ pedido[c] # Nada /\ UNCHANGED discoVars
      /\ pedido[c].op \in {"MKNOD", "MKDIR", "OPEN"}
  <2>1. EmpiezaACrear(c) /\ UNCHANGED discoVars
    BY DEF CrearExistente, CrearAusente
  <2>2. CASE Llega(c, {"MKNOD", "MKDIR"})
    BY <2>1, <2>2, PuntosQuietos DEF Llega
  <2>3. CASE Esta(c, "crear")
    BY <2>1, <2>3, PuntosQuietos DEF Esta, BloquesInv, Sirve, DeCrear
  <2>4. QED
    BY <2>1, <2>2, <2>3 DEF EmpiezaACrear
<1>2. CASE CrearExistente(c)
  <2>1. PICK r \in {"", "ok", "error"} : Responder(c, r)
    BY <1>2 DEF CrearExistente
  <2>2. QED
    BY <1>1, <2>1, SoloResponde
<1>3. CASE CrearAusente(c)
  <2>1. Ir(c, "elegir") /\ UNCHANGED local /\ "elegir" \in Quietos /\ "elegir" \notin DeRenombrar \cup {"con_nodo"}
    BY <1>3, PuntosQuietos DEF CrearAusente, DeRenombrar
  <2>2. QED
    BY <1>1, <2>1, SoloAvanza
<1>4. QED
  BY <1>2, <1>3

LEMMA PuntoDeCrear ==
  ASSUME BloquesInv, NEW c \in Conexiones, pc[c] \in DeCrear
  PROVE  /\ pc[c] \in Quietos /\ pedido[c] # Nada /\ pedido[c].op \in {"MKNOD", "MKDIR", "OPEN"}
         /\ \A punto \in DeCrear : punto \in Quietos /\ punto \notin DeRenombrar /\ punto # "con_nodo"
<1>1. \A punto \in DeCrear : /\ punto \in Quietos /\ punto \notin DeRenombrar /\ punto # "con_nodo"
                             /\ punto \notin {"libre", "colgado"}
  BY PuntosQuietos DEF DeCrear, DeRenombrar
<1>2. QED
  BY <1>1 DEF BloquesInv, Sirve

LEMMA ElegirNodoInv ==
  ASSUME Hipotesis, BloquesInv, NEW c \in Conexiones, ElegirNodo(c)
  PROVE  BloquesInv'
<1>0. UnMontaje /\ SacTipo
  BY DEF Hipotesis, BloquesInv
<1>1. pc[c] = "elegir" /\ pc[c] \in DeCrear /\ "marcar" \in DeCrear
  BY DEF ElegirNodo, Esta, DeCrear
<1>2. PICK i \in Indices : i = Min(NodosLibres)
  <2>1. NodosLibres \in SUBSET Nat /\ NodosLibres # {} /\ NodosLibres \subseteq Indices
    BY Medidas DEF ElegirNodo, NodosLibres, Indices
  <2>2. QED
    BY <2>1, MinimoDe
<1>3. /\ dicc' = Pone(dicc, Ruta(c), i) /\ local' = [local EXCEPT ![c].nodo = i] /\ Ir(c, "marcar")
      /\ UNCHANGED <<tabla, disco, bitarray, mutexDicc>>
  BY <1>2 DEF ElegirNodo, enDisco
<1>4. Ruta(c) \in Seq(Seq(Nat))
  BY <1>1, PuntoDeCrear, RutasDePedido
<1>5. DOMAIN dicc' \subseteq Seq(Seq(Nat)) /\ \A r \in DOMAIN dicc' : dicc'[r] \in Indices
  BY <1>0, <1>3, <1>4, PoneTipo DEF SacTipo
<1>6. Conserva
  BY <1>0, <1>3, <1>5 DEF Conserva, SacTipo
<1>7. local' \in [Conexiones -> LocalTipo] /\ local'[c].cursor = local[c].cursor
  BY <1>0, <1>3 DEF SacTipo, LocalTipo
<1>8. QED
  BY <1>0, <1>1, <1>3, <1>6, <1>7, PuntoDeCrear, SigueQuieta

LEMMA CrearNodoInv ==
  ASSUME Hipotesis, BloquesInv, NEW c \in Conexiones,
         SinNodos(c) \/ MarcarNodo(c) \/ BuscarPadre(c) \/ NombrarNodo(c)
  PROVE  BloquesInv'
<1>0. UnMontaje /\ SacTipo
  BY DEF Hipotesis, BloquesInv
<1>1. CASE SinNodos(c)
  <2>1. pc[c] \in DeCrear /\ UNCHANGED discoVars /\ Responder(c, "error")
    BY <1>1 DEF SinNodos, Esta, DeCrear
  <2>2. QED
    BY <1>0, <2>1, PuntoDeCrear, SoloResponde
<1>2. CASE MarcarNodo(c)
  <2>1. pc[c] \in DeCrear /\ "buscar_padre" \in DeCrear
    BY <1>2 DEF MarcarNodo, Esta, DeCrear
  <2>2. PICK e \in 0..2 : tabla' = [tabla EXCEPT ![Nodo(c)].estado = e]
    <3>1. Tipo(c) \in 0..2
      BY DEF Tipo
    <3>2. QED
      BY <1>2, <3>1 DEF MarcarNodo
  <2>3. Ir(c, "buscar_padre") /\ UNCHANGED <<disco, dicc, bitarray, mutexDicc, local>>
    BY <1>2 DEF MarcarNodo, enMemoria
  <2>4. tabla' \in [Indices -> NodoTipo] /\ \A i \in Indices : tabla'[i].punteros = tabla[i].punteros
    <3>1. tabla \in [Indices -> NodoTipo]
      BY <1>0 DEF SacTipo
    <3>2. QED
      BY <2>2, <3>1 DEF NodoTipo
  <2>5. Conserva
    BY <1>0, <2>3, <2>4 DEF Conserva, SacTipo
  <2>6. local' \in [Conexiones -> LocalTipo] /\ local'[c].cursor = local[c].cursor
    BY <1>0, <2>3 DEF SacTipo
  <2>7. QED
    BY <1>0, <2>1, <2>3, <2>5, <2>6, PuntoDeCrear, SigueQuieta
<1>3. CASE BuscarPadre(c)
  <2>1. pc[c] \in DeCrear /\ "nombrar" \in DeCrear /\ Ir(c, "nombrar") /\ UNCHANGED discoVars
    BY <1>3 DEF BuscarPadre, Esta, DeCrear
  <2>2. PICK i \in Indices : local' = [local EXCEPT ![c].padre = i]
    BY <1>0, <1>3, SacaNodo DEF BuscarPadre
  <2>3. local' \in [Conexiones -> LocalTipo] /\ local'[c].cursor = local[c].cursor
    BY <1>0, <2>2 DEF SacTipo, LocalTipo
  <2>4. QED
    BY <1>0, <2>1, <2>3, Conservan, PuntoDeCrear, SigueQuieta
<1>4. CASE NombrarNodo(c)
  <2>1. pc[c] \in DeCrear /\ "apadrinar" \in DeCrear
    BY <1>4 DEF NombrarNodo, Esta, DeCrear
  <2>2. PICK n \in Seq(Nat) : tabla' = [tabla EXCEPT ![Nodo(c)].nombre = n]
    <3>1. Ruta(c) \in Seq(Seq(Nat)) /\ Ruta(c) # <<>>
      BY <2>1, PuntoDeCrear, RutasDePedido DEF Nombran
    <3>2. QED
      BY <1>4, <3>1, UltimoNombre DEF NombrarNodo
  <2>3. Ir(c, "apadrinar") /\ UNCHANGED <<disco, dicc, bitarray, mutexDicc, local>>
    BY <1>4 DEF NombrarNodo, enMemoria
  <2>4. tabla' \in [Indices -> NodoTipo] /\ \A i \in Indices : tabla'[i].punteros = tabla[i].punteros
    <3>1. tabla \in [Indices -> NodoTipo]
      BY <1>0 DEF SacTipo
    <3>2. QED
      BY <2>2, <3>1 DEF NodoTipo
  <2>5. Conserva
    BY <1>0, <2>3, <2>4 DEF Conserva, SacTipo
  <2>6. local' \in [Conexiones -> LocalTipo] /\ local'[c].cursor = local[c].cursor
    BY <1>0, <2>3 DEF SacTipo
  <2>7. QED
    BY <1>0, <2>1, <2>3, <2>5, <2>6, PuntoDeCrear, SigueQuieta
<1>5. QED
  BY <1>1, <1>2, <1>3, <1>4

(* The father is written last, of a creation or of a renaming. *)
LEMMA ApadrinarNodoInv ==
  ASSUME UnMontaje, BloquesInv, NEW c \in Conexiones, ApadrinarNodo(c)
  PROVE  BloquesInv'
<1>1. SacTipo /\ pc[c] \in Quietos /\ Responder(c, "ok") /\ UNCHANGED <<disco, dicc, bitarray, mutexDicc>>
  BY PuntosQuietos DEF BloquesInv, ApadrinarNodo, Esta, enMemoria
<1>2. PICK k \in Int : tabla' = [tabla EXCEPT ![Nodo(c)].padre = k]
  <2>1. local[c].padre \in Int
    <3>1. local[c].padre \in Indices
      BY <1>1 DEF SacTipo, LocalTipo
    <3>2. QED
      BY <3>1 DEF Indices
  <2>2. BloqueDelPadre(c) \in Int
    BY <2>1, SacSupuesto DEF BloqueDelPadre, BloqueDe
  <2>3. QED
    BY <2>2 DEF ApadrinarNodo
<1>3. tabla' \in [Indices -> NodoTipo] /\ \A i \in Indices : tabla'[i].punteros = tabla[i].punteros
  <2>1. tabla \in [Indices -> NodoTipo]
    BY <1>1 DEF SacTipo
  <2>2. QED
    BY <1>2, <2>1 DEF NodoTipo
<1>4. Conserva
  BY <1>1, <1>3 DEF Conserva, SacTipo
<1>5. QED
  BY <1>1, <1>4, RespondeQuieta

LEMMA CrearInv ==
  ASSUME Hipotesis, BloquesInv, NEW c \in Conexiones, Crear(c)
  PROVE  BloquesInv'
  BY AbrirInv, EmpezarACrearInv, ElegirNodoInv, CrearNodoInv, ApadrinarNodoInv DEF Crear, Hipotesis

(* READDIR and RMDIR up to the removal. *)
LEMMA EntradasInv ==
  ASSUME UnMontaje, BloquesInv, NEW c \in Conexiones,
         \/ BuscarEntradas(c) \/ NoHayDirectorio(c) \/ TomarDirectorio(c) \/ Listar(c)
         \/ EmpezarRmdir(c) \/ RevisarEntradas(c)
  PROVE  BloquesInv'
<1>1. pc[c] \in Quietos /\ pedido[c] # Nada /\ UNCHANGED discoVars
  <2>1. CASE BuscarEntradas(c) \/ NoHayDirectorio(c)
    <3>1. EmpiezaEntradas(c) /\ UNCHANGED discoVars
      BY <2>1 DEF BuscarEntradas, NoHayDirectorio
    <3>2. pc[c] \in Quietos /\ pc[c] # "colgado" /\ (pc[c] # "libre" \/ pedido[c] # Nada)
      BY <3>1, PuntosQuietos DEF EmpiezaEntradas, Llega, Esta
    <3>3. QED
      BY <3>1, <3>2, PedidoDe
  <2>2. CASE TomarDirectorio(c)
    BY <2>2, PuntosQuietos, PedidoDe DEF TomarDirectorio, Esta
  <2>3. CASE Listar(c)
    BY <2>3, PuntosQuietos, PedidoDe DEF Listar, Esta
  <2>4. CASE EmpezarRmdir(c)
    BY <2>4, PuntosQuietos DEF EmpezarRmdir, Llega
  <2>5. CASE RevisarEntradas(c)
    BY <2>5, PuntosQuietos, PedidoDe DEF RevisarEntradas, Esta
  <2>6. QED
    BY <2>1, <2>2, <2>3, <2>4, <2>5
<1>2. ASSUME NEW punto \in DeListar
      PROVE  punto \in Quietos /\ punto \notin DeCrear /\ punto \notin DeRenombrar \cup {"con_nodo"}
  BY PuntosQuietos DEF DeListar, DeCrear, DeRenombrar
<1>3. CASE \E punto \in DeListar : Ir(c, punto) /\ UNCHANGED local
  BY <1>1, <1>2, <1>3, SoloAvanza
<1>4. CASE \E r \in {"ok", "error"} : Responder(c, r)
  BY <1>1, <1>4, SoloResponde
<1>5. CASE TomarDirectorio(c)
  <2>1. SacTipo /\ Conserva
    BY <1>1, Conservan DEF BloquesInv
  <2>2. PICK i \in Indices : local' = [local EXCEPT ![c].nodo = i]
    BY <1>5, <2>1, SacaNodo DEF TomarDirectorio
  <2>3. local' \in [Conexiones -> LocalTipo] /\ local'[c].cursor = local[c].cursor
    BY <2>1, <2>2 DEF SacTipo, LocalTipo
  <2>4. Ir(c, "listar") /\ "listar" \in DeListar
    BY <1>5 DEF TomarDirectorio, DeListar
  <2>5. QED
    BY <1>1, <1>2, <2>1, <2>3, <2>4, SigueQuieta
<1>6. \/ TomarDirectorio(c)
      \/ \E punto \in DeListar : Ir(c, punto) /\ UNCHANGED local
      \/ \E r \in {"ok", "error"} : Responder(c, r)
  BY DEF BuscarEntradas, NoHayDirectorio, Listar, EmpezarRmdir, RevisarEntradas, DeListar
<1>7. QED
  BY <1>3, <1>4, <1>5, <1>6

LEMMA BorrarDirectorioInv ==
  ASSUME UnMontaje, BloquesInv, NEW c \in Conexiones, BorrarDirectorio(c)
  PROVE  BloquesInv'
<1>1. SacTipo /\ pc[c] \in Quietos /\ Responder(c, "ok") /\ UNCHANGED <<disco, bitarray, mutexDicc>>
      /\ dicc' = Sin(dicc, Ruta(c))
  BY PuntosQuietos DEF BloquesInv, BorrarDirectorio, Esta
<1>2. tabla' \in [Indices -> NodoTipo] /\ \A i \in Indices : tabla'[i].punteros = tabla[i].punteros
  <2>1. PICK n : tabla' = [tabla EXCEPT ![n].estado = 0, ![n].tamanio = 0]
    BY DEF BorrarDirectorio
  <2>2. tabla \in [Indices -> NodoTipo]
    BY <1>1 DEF SacTipo
  <2>3. QED
    BY <2>1, <2>2, NodoLiberado
<1>3. DOMAIN dicc' \subseteq Seq(Seq(Nat)) /\ \A r \in DOMAIN dicc' : dicc'[r] \in Indices
  BY <1>1, SinTipo DEF SacTipo
<1>4. Conserva
  BY <1>1, <1>2, <1>3 DEF Conserva, SacTipo
<1>5. QED
  BY <1>1, <1>4, RespondeQuieta

LEMMA RenombrarInv ==
  ASSUME Hipotesis, BloquesInv, NEW c \in Conexiones, Renombrar(c) \/ RenombrarExistente(c)
  PROVE  BloquesInv'
<1>1. SacTipo /\ UnMontaje /\ pc[c] = "con_nodo" /\ pc[c] \in Quietos /\ pedido[c] # Nada /\ pedido[c].op = "RENAME"
  BY PuntosQuietos, PedidoDe DEF Hipotesis, BloquesInv, Renombrar, RenombrarExistente, Esta
<1>2. CASE RenombrarExistente(c)
  BY <1>1, <1>2, SoloResponde DEF RenombrarExistente
<1>3. CASE Renombrar(c)
  <2>1. PICK n \in Seq(Nat) : tabla' = [tabla EXCEPT ![Nodo(c)].nombre = n]
    BY <1>1, <1>3, RutasDePedido, UltimoNombre DEF Renombrar
  <2>2. Ir(c, "cambiar_clave") /\ UNCHANGED <<disco, dicc, bitarray, mutexDicc, local>>
    BY <1>3 DEF Renombrar, enMemoria
  <2>3. tabla' \in [Indices -> NodoTipo] /\ \A i \in Indices : tabla'[i].punteros = tabla[i].punteros
    <3>1. tabla \in [Indices -> NodoTipo]
      BY <1>1 DEF SacTipo
    <3>2. QED
      BY <2>1, <3>1 DEF NodoTipo
  <2>4. Conserva
    BY <1>1, <2>2, <2>3 DEF Conserva, SacTipo
  <2>5. local' \in [Conexiones -> LocalTipo] /\ local'[c].cursor = local[c].cursor
    BY <1>1, <2>2 DEF SacTipo
  <2>6. "cambiar_clave" \in Quietos /\ "cambiar_clave" \notin DeCrear
    BY PuntosQuietos DEF DeCrear
  <2>7. QED
    BY <1>1, <2>2, <2>4, <2>5, <2>6, SigueQuieta
<1>4. QED
  BY <1>2, <1>3

(* The keys of the dictionary: that of the node, and then those under it. *)
LEMMA CambiarInv ==
  ASSUME Hipotesis, BloquesInv, NEW c \in Conexiones, CambiarClave(c) \/ CambiarNombre(c)
  PROVE  BloquesInv'
<1>1. SacTipo /\ UnMontaje /\ pc[c] \in DeRenombrar /\ pc[c] \in Quietos /\ pedido[c] # Nada
      /\ Ir(c, "cambiar_nombres") /\ UNCHANGED <<tabla, disco, bitarray, mutexDicc>>
  BY PuntosQuietos, PedidoDe
     DEF Hipotesis, BloquesInv, CambiarClave, CambiarNombre, Esta, DeRenombrar, enDisco
<1>2. pedido[c].op = "RENAME"
  BY <1>1 DEF BloquesInv, Sirve
<1>3. Ruta(c) \in Seq(Seq(Nat)) /\ Ruta(c) # <<>> /\ pedido[c].destino \in Seq(Seq(Nat)) /\ pedido[c].destino # <<>>
  BY <1>1, <1>2, RutasDePedido DEF Nombran
<1>4. DOMAIN dicc \subseteq Seq(Seq(Nat)) /\ \A r \in DOMAIN dicc : dicc[r] \in Indices
  BY <1>1 DEF SacTipo
<1>5. /\ DOMAIN dicc' \subseteq Seq(Seq(Nat)) /\ \A r \in DOMAIN dicc' : dicc'[r] \in Indices
      /\ local' \in [Conexiones -> LocalTipo] /\ local'[c].cursor = local[c].cursor
  <2>1. CASE CambiarClave(c)
    <3> DEFINE s == Sin(dicc, Ruta(c))
               d == Pone(s, pedido[c].destino, Saca(Ruta(c)))
    <3>1. DOMAIN s \subseteq Seq(Seq(Nat)) /\ \A r \in DOMAIN s : s[r] \in Indices
      BY <1>4, SinTipo
    <3>2. Saca(Ruta(c)) \in Indices
      BY <1>1, SacaNodo
    <3> HIDE DEF s
    <3>3. DOMAIN d \subseteq Seq(Seq(Nat)) /\ \A r \in DOMAIN d : d[r] \in Indices
      BY <1>3, <3>1, <3>2, PoneTipo
    <3>4. PICK i \in Indices, rs \in SUBSET DOMAIN d :
            dicc' = d /\ local' = [local EXCEPT ![c].padre = i, ![c].claves = rs]
      BY <1>1, <2>1, SacaNodo DEF CambiarClave, s
    <3> HIDE DEF d
    <3>5. rs \in SUBSET Seq(Seq(Nat)) /\ local \in [Conexiones -> LocalTipo]
      BY <1>1, <3>3 DEF SacTipo
    <3>6. local' \in [Conexiones -> LocalTipo] /\ local'[c].cursor = local[c].cursor
      BY <3>4, <3>5 DEF LocalTipo
    <3>7. QED
      BY <3>3, <3>4, <3>6
  <2>2. CASE CambiarNombre(c)
    <3>1. PICK r \in DOMAIN dicc :
            /\ EmpiezaCon(r, Ruta(c))
            /\ dicc' = Sin(Pone(dicc, Reemplazar(r, Ruta(c), pedido[c].destino), Saca(r)), r)
            /\ local' = [local EXCEPT ![c].claves = @ \ {r}]
      BY <2>2 DEF CambiarNombre
    <3> DEFINE n == Reemplazar(r, Ruta(c), pedido[c].destino)
               d == Pone(dicc, n, Saca(r))
    <3>2. n \in Seq(Seq(Nat))
      BY <1>3, <1>4, <3>1, ReemplazarTipo
    <3>3. Saca(r) \in Indices
      BY <1>1, SacaNodo
    <3> HIDE DEF n
    <3>4. DOMAIN d \subseteq Seq(Seq(Nat)) /\ \A k \in DOMAIN d : d[k] \in Indices
      BY <1>4, <3>2, <3>3, PoneTipo
    <3>5. dicc' = Sin(d, r)
      BY <3>1 DEF n
    <3> HIDE DEF d
    <3>6. DOMAIN dicc' \subseteq Seq(Seq(Nat)) /\ \A k \in DOMAIN dicc' : dicc'[k] \in Indices
      BY <3>4, <3>5, SinTipo
    <3>7. local \in [Conexiones -> LocalTipo]
      BY <1>1 DEF SacTipo
    <3>8. local' \in [Conexiones -> LocalTipo] /\ local'[c].cursor = local[c].cursor
      BY <3>1, <3>7 DEF LocalTipo
    <3>9. QED
      BY <3>6, <3>8
  <2>3. QED
    BY <2>1, <2>2
<1>6. Conserva
  BY <1>1, <1>5 DEF Conserva, SacTipo
<1>7. "cambiar_nombres" \in Quietos /\ "cambiar_nombres" \notin DeCrear
  BY PuntosQuietos DEF DeCrear
<1>8. QED
  BY <1>1, <1>2, <1>5, <1>6, <1>7, SigueQuieta

LEMMA AtenderArbolInv ==
  ASSUME Hipotesis, BloquesInv, NEW c \in Conexiones, AtenderArbol(c)
  PROVE  BloquesInv'
<1>1. CASE Directorio(c)
  BY <1>1, EntradasInv, BorrarDirectorioInv DEF Directorio, Hipotesis
<1>2. CASE Rename(c)
  BY <1>2, RenombrarInv, CambiarInv DEF Rename
<1>3. QED
  BY <1>1, <1>2, CrearInv DEF AtenderArbol

-----------------------------------------------------------------------------
(* What the steps on the blocks share.                                       *)

(* The handler of the only mount. *)
MarcasDe(c) ==
  \A b \in Datos :
    b \in bitarray <=> \/ Referido(b) /\ (Sale(c) => b # AlCursor(c))
                       \/ Entra(c) /\ b = local[c].bloque

LEMMA MarcasDeUno ==
  ASSUME UnMontaje, NEW c \in Conexiones
  PROVE  (Marcas <=> MarcasDe(c)) /\ (Marcas <=> MarcasDe(c))'
<1>1. \A d \in Conexiones : d = c
  BY DEF UnMontaje
<1>2. Marcas <=> MarcasDe(c)
  BY <1>1 DEF Marcas, MarcasDe
<1>3. (Marcas <=> MarcasDe(c))'
  BY <1>1 DEF Marcas, MarcasDe
<1>4. QED
  BY <1>2, <1>3

LEMMA Junta ==
  ASSUME UnMontaje, NEW c \in Conexiones, SacTipo', Apuntes', Distintos', Limpios',
         (BitmapInicial \subseteq bitarray)', MarcasDe(c)', Sirve(c)', Toma(c)', Recorre(c)'
  PROVE  BloquesInv'
<1>1. \A d \in Conexiones : d = c
  BY DEF UnMontaje
<1>2. \A d \in Conexiones : Sirve(d)' /\ Toma(d)' /\ Recorre(d)'
  BY <1>1
<1>3. Marcas'
  BY MarcasDeUno
<1>4. QED
  BY <1>2, <1>3 DEF BloquesInv

(* The handler goes on with the blocks of its node. *)
DeDatos == DeEscribir \cup DeVaciar

LEMMA SigueConDatos ==
  ASSUME SacTipo, NEW c \in Conexiones, Sirve(c), pedido[c] # Nada, NEW punto \in DeDatos, Ir(c, punto),
         local' \in [Conexiones -> LocalTipo], local'[c].nodo \in Indices,
         tabla' \in [Indices -> NodoTipo], disco' \in [Datos -> [Celda -> Nat]], bitarray' \subseteq 0..(Bits - 1),
         dicc' = dicc, mutexDicc' \in Conexiones \cup {Nada},
         punto \in DeEscribir => pedido[c].op = "WRITE"
  PROVE  SacTipo' /\ Sirve(c)' /\ pc'[c] = punto /\ pedido'[c] = pedido[c]
<1>1. /\ punto \in Puntos /\ punto \notin DeCrear /\ punto \notin DeRenombrar /\ punto \notin {"libre", "colgado"}
  BY DEF DeDatos, Puntos, DeEscribir, DeVaciar, DeCrear, DeRenombrar
<1>2. /\ pc'[c] = punto /\ pedido'[c] = pedido[c]
      /\ pedido' \in [Conexiones -> TodoPedido] /\ respuesta' \in [Conexiones -> {"", "ok", "error"}]
      /\ pc' \in [Conexiones -> Puntos]
  BY <1>1, Sigue
<1>3. SacTipo'
  BY <1>2 DEF SacTipo
<1>4. Sirve(c)'
  BY <1>1, <1>2 DEF Sirve, Nodo
<1>5. QED
  BY <1>2, <1>3, <1>4

(* Where a write is. *)
LEMMA DivisionMenor ==
  ASSUME NEW d \in Nat \ {0}, NEW k \in Nat, NEW n \in Nat, n < k * d
  PROVE  n \div d \in 0..(k - 1) /\ n % d \in 0..(d - 1) /\ n = (n \div d) * d + (n % d)
<1> DEFINE q == n \div d
           r == n % d
<1>0. q = n \div d /\ r = n % d
  OBVIOUS
<1>1. q \in Nat /\ r \in 0..(d - 1) /\ n = d * q + r
  OBVIOUS
<1> HIDE DEF q, r
<1>2. q * d \in Nat /\ n = q * d + r
  BY <1>1, Crece
<1>3. q < k
  <2> SUFFICES ASSUME k <= q PROVE FALSE
    BY <1>1
  <2>1. k * d <= q * d /\ k * d \in Nat
    BY <1>1, Crece
  <2>2. QED
    BY <1>1, <1>2, <2>1
<1>4. q \in 0..(k - 1)
  BY <1>1, <1>3
<1>5. QED
  BY <1>0, <1>1, <1>2, <1>4

LEMMA DesplazamientoDe ==
  ASSUME NEW n \in 0..(Capacidad - 1)
  PROVE  /\ IndicePIS(n) \in Pis /\ IndiceBloque(n) \in Celda /\ IndiceByte(n) \in Celda
         /\ n = IndicePIS(n) * (Celdas * Celdas) + (IndiceBloque(n) * Celdas + IndiceByte(n))
<1> DEFINE d == Celdas * Celdas
           r == n % d
<1>1. Celdas \in Nat \ {0} /\ Punteros \in Nat \ {0}
  BY Medidas
<1>2. d \in Nat \ {0} /\ n \in Nat /\ n < Punteros * d
  <2>1. Capacidad = Punteros * d /\ Capacidad \in Nat
    BY <1>1 DEF Capacidad
  <2>2. d \in Nat \ {0}
    BY <1>1
  <2>3. QED
    BY <2>1, <2>2
<1>0. d = Celdas * Celdas /\ r = n % d
  OBVIOUS
<1> HIDE DEF d, r
<1>4. n \div d \in 0..(Punteros - 1) /\ n % d \in 0..(d - 1) /\ n = (n \div d) * d + (n % d)
  BY <1>1, <1>2, DivisionMenor
<1>3. r \in Nat /\ r < Celdas * Celdas
  BY <1>0, <1>2, <1>4
<1>5. r \div Celdas \in 0..(Celdas - 1) /\ r % Celdas \in 0..(Celdas - 1) /\ r = (r \div Celdas) * Celdas + (r % Celdas)
  BY <1>1, <1>3, DivisionMenor
<1>6. IndicePIS(n) = n \div d /\ IndiceBloque(n) = r \div Celdas /\ IndiceByte(n) = r % Celdas
  BY <1>0 DEF IndicePIS, IndiceBloque, IndiceByte
<1>7. IndicePIS(n) \in Pis /\ IndiceBloque(n) \in Celda /\ IndiceByte(n) \in Celda
  BY <1>4, <1>5, <1>6 DEF Pis, Celda
<1>8. n = IndicePIS(n) * (Celdas * Celdas) + (IndiceBloque(n) * Celdas + IndiceByte(n))
  BY <1>0, <1>4, <1>5, <1>6
<1>9. QED
  BY <1>7, <1>8

LEMMA LugarDeEscritura ==
  ASSUME Hipotesis, BloquesInv, NEW c \in Conexiones,
         pc[c] \in DeEscribir \/ (pc[c] = "con_nodo" /\ pedido[c].op = "WRITE")
  PROVE  /\ pedido[c] # Nada /\ pedido[c].op = "WRITE" /\ Nodo(c) \in Indices
         /\ PIS(c) \in Pis /\ Entrada(c) \in Celda /\ IndiceByte(pedido[c].desde) \in Celda
         /\ pedido[c].largo \in Nat /\ pedido[c].valor \in Nat
<1>1. Sirve(c)
  BY DEF BloquesInv
<1>2. pc[c] \notin {"libre", "colgado"}
  BY DEF DeEscribir
<1>3. pedido[c] # Nada /\ pedido[c].op = "WRITE" /\ Nodo(c) \in Indices
  BY <1>1, <1>2 DEF Sirve
<1>4. pedido[c].desde \in 0..(Capacidad - 1) /\ pedido[c].largo \in Nat /\ pedido[c].valor \in Nat
  BY <1>3, RutasDePedido
<1>5. QED
  BY <1>3, <1>4, DesplazamientoDe DEF PIS, Entrada

(* A block of data is no block of pointers. *)
LEMMA DatoNoEsBPD ==
  ASSUME Apuntes, Distintos, NEW i \in Indices, NEW p \in Pis, NEW j \in Celda, BloqueDato(i, p, j) # 0
  PROVE  /\ BloqueDato(i, p, j) \in Datos /\ BPD(i, p) \in Datos /\ BloqueDato(i, p, j) = En(i, p, j)
         /\ \A k \in Indices, q \in Pis : BPD(k, q) # BloqueDato(i, p, j)
<1>1. j \in 0..Celdas /\ Celdas \in 0..Celdas /\ j # Celdas
  BY Medidas
<1>2. En(i, p, j) = BloqueDato(i, p, j) /\ \A k, q : En(k, q, Celdas) = BPD(k, q)
  BY <1>1 DEF En
<1>3. BPD(i, p) \in {0} \cup Datos /\ BloqueDato(i, p, j) \in {0} \cup Datos
  BY <1>1, <1>2 DEF Apuntes
<1>4. BPD(i, p) # 0
  BY DEF BloqueDato
<1>5. ASSUME NEW k \in Indices, NEW q \in Pis, BPD(k, q) = BloqueDato(i, p, j) PROVE FALSE
  BY <1>1, <1>2, <1>5 DEF Distintos
<1>6. QED
  BY <1>2, <1>3, <1>4, <1>5

(* The blocks of pointers are not written: every place is as it was. *)
LEMMA SinTocarBPD ==
  ASSUME \A i \in Indices : tabla'[i].punteros = tabla[i].punteros,
         \A i \in Indices, p \in Pis : BPD(i, p) # 0 => disco'[BPD(i, p)] = disco[BPD(i, p)]
  PROVE  \A i \in Indices, p \in Pis, j \in 0..Celdas : En(i, p, j)' = En(i, p, j)
<1> SUFFICES ASSUME NEW i \in Indices, NEW p \in Pis, NEW j \in 0..Celdas PROVE En(i, p, j)' = En(i, p, j)
  OBVIOUS
<1>1. BPD(i, p)' = BPD(i, p)
  BY DEF BPD
<1>2. BloqueDato(i, p, j)' = BloqueDato(i, p, j)
  BY <1>1 DEF BloqueDato
<1>3. QED
  BY <1>1, <1>2 DEF En

(* A pointer of a node is changed, with nothing in the cells of either block. *)
LEMMA CambiaPuntero ==
  ASSUME SacTipo, NEW i \in Indices, NEW p \in Pis, NEW b \in {0} \cup Datos,
         b # 0 => ~Referido(b) /\ disco[b] = Vacio,
         \A j \in Celda : En(i, p, j) = 0,
         Apuntar(i, p, b), disco' = disco
  PROVE  Cambia(i, p, Celdas, b) /\ tabla' \in [Indices -> NodoTipo]
<1>1. tabla \in [Indices -> NodoTipo] /\ tabla' = [tabla EXCEPT ![i].punteros[p] = b]
  BY DEF SacTipo, Apuntar
<1>2. tabla' \in [Indices -> NodoTipo]
  BY <1>1 DEF NodoTipo
<1>3. \A k \in Indices, q \in Pis : BPD(k, q)' = IF k = i /\ q = p THEN b ELSE BPD(k, q)
  BY <1>1 DEF NodoTipo, BPD
<1>4. ASSUME NEW k \in Indices, NEW q \in Pis, NEW h \in 0..Celdas, k # i \/ q # p \/ h # Celdas
      PROVE  En(k, q, h)' = En(k, q, h)
  <2>1. CASE k # i \/ q # p
    <3>1. BPD(k, q)' = BPD(k, q)
      BY <1>3, <2>1
    <3>2. BloqueDato(k, q, h)' = BloqueDato(k, q, h)
      BY <3>1 DEF BloqueDato
    <3>3. QED
      BY <3>1, <3>2 DEF En
  <2>2. CASE k = i /\ q = p
    <3>1. h # Celdas /\ h \in Celda
      BY <1>4, <2>2, Medidas DEF Celda
    <3>2. En(i, p, h) = 0
      BY <3>1
    <3>3. BPD(i, p)' = b
      BY <1>3
    <3>4. BloqueDato(i, p, h)' = 0
      BY <3>1, <3>3, Medidas DEF BloqueDato
    <3>5. QED
      BY <2>2, <3>1, <3>2, <3>4 DEF En
  <2>3. QED
    BY <2>1, <2>2
<1>5. En(i, p, Celdas)' = b
  BY <1>3 DEF En
<1>6. QED
  BY <1>2, <1>4, <1>5 DEF Cambia

(* A cell of a block of pointers is changed. *)
LEMMA CambiaCelda ==
  ASSUME SacTipo, Apuntes, Distintos, NEW i \in Indices, NEW p \in Pis, NEW j \in Celda,
         NEW b \in {0} \cup Datos, b # 0 => ~Referido(b), BPD(i, p) # 0, tabla' = tabla,
         disco'[BPD(i, p)] = [disco[BPD(i, p)] EXCEPT ![j] = b],
         \A k \in Indices, q \in Pis :
           BPD(k, q) # 0 /\ BPD(k, q) # BPD(i, p) => disco'[BPD(k, q)] = disco[BPD(k, q)]
  PROVE  Cambia(i, p, j, b)
<1>1. j \in 0..Celdas /\ Celdas \in 0..Celdas /\ j # Celdas
  BY Medidas
<1>2. \A k, q : En(k, q, Celdas) = BPD(k, q) /\ BPD(k, q)' = BPD(k, q)
  BY DEF En, BPD
<1>3. BPD(i, p) \in Datos
  BY <1>1, <1>2 DEF Apuntes
<1>4. disco[BPD(i, p)] \in [Celda -> Nat]
  BY <1>3 DEF SacTipo
<1>5. En(i, p, j)' = b
  BY <1>1, <1>2, <1>4 DEF En, BloqueDato
<1>6. ASSUME NEW k \in Indices, NEW q \in Pis, NEW h \in 0..Celdas, k # i \/ q # p \/ h # j
      PROVE  En(k, q, h)' = En(k, q, h)
  <2>1. CASE h = Celdas
    BY <1>2, <2>1 DEF En
  <2>2. CASE h # Celdas /\ BPD(k, q) = BPD(i, p)
    <3>1. k = i /\ q = p /\ h # j
      BY <1>1, <1>2, <1>6, <2>2 DEF Distintos
    <3>2. disco'[BPD(i, p)][h] = disco[BPD(i, p)][h]
      BY <1>4, <3>1, <2>2, Medidas DEF Celda
    <3>3. BloqueDato(i, p, h)' = BloqueDato(i, p, h)
      BY <1>2, <3>2 DEF BloqueDato
    <3>4. QED
      BY <2>2, <3>1, <3>3 DEF En
  <2>3. CASE h # Celdas /\ BPD(k, q) # BPD(i, p)
    <3>1. BloqueDato(k, q, h)' = BloqueDato(k, q, h)
      BY <1>2, <2>3 DEF BloqueDato
    <3>2. QED
      BY <2>3, <3>1 DEF En
  <2>4. QED
    BY <2>1, <2>2, <2>3
<1>7. QED
  BY <1>5, <1>6 DEF Cambia

(* The loop goes past a place that has nothing left. *)
LEMMA PasaElCursor ==
  ASSUME NEW i, NEW n \in Posiciones, NEW b, b = 0, Cambia(i, PosPIS(n), PosEntrada(n), b), i \in Indices,
         \A p \in Pis, j \in 0..Celdas : Pos(p, j) < n => En(i, p, j) = 0
  PROVE  \A p \in Pis, j \in 0..Celdas : Pos(p, j) < n + 1 => En(i, p, j)' = 0
<1> SUFFICES ASSUME NEW p \in Pis, NEW j \in 0..Celdas, Pos(p, j) < n + 1 PROVE En(i, p, j)' = 0
  OBVIOUS
<1>1. Pos(p, j) \in Nat /\ n \in Nat
  BY PosicionDe, CamposDePosicion
<1>2. CASE Pos(p, j) < n
  BY <1>2 DEF Cambia
<1>3. CASE Pos(p, j) = n
  <2>1. PosPIS(n) = p /\ PosEntrada(n) = j
    BY <1>3, PosicionDe
  <2>2. QED
    BY <2>1 DEF Cambia
<1>4. QED
  BY <1>1, <1>2, <1>3

(* A step of the server on the node i: it writes its blocks and those nobody   *)
(* has, and the pointers of no other node.                                    *)
SoloDe(i) ==
  /\ \A x \in Datos : disco'[x] # disco[x] => \E p \in Pis, j \in 0..Celdas : En(i, p, j) = x
  /\ \A k \in Indices : k # i => tabla'[k].punteros = tabla[k].punteros

-----------------------------------------------------------------------------
(* WRITE.                                                                    *)

LEMMA Partes ==
  ASSUME UnMontaje, BloquesInv, NEW c \in Conexiones
  PROVE  /\ SacTipo /\ Apuntes /\ Distintos /\ Limpios /\ BitmapInicial \subseteq bitarray
         /\ MarcasDe(c) /\ Sirve(c) /\ Toma(c) /\ Recorre(c)
<1>1. Marcas
  BY DEF BloquesInv
<1>2. MarcasDe(c)
  BY <1>1, MarcasDeUno
<1>3. QED
  BY <1>2 DEF BloquesInv

(* A free block, when no mark is ahead of its pointer. *)
LEMMA BloqueLibreDe ==
  ASSUME UnMontaje, BloquesInv, NEW c \in Conexiones, Libres # {}, ~Entra(c), ~Sale(c)
  PROVE  BloqueLibre \in Datos /\ BloqueLibre \notin bitarray /\ ~Referido(BloqueLibre)
<1>1. bitarray \subseteq 0..(Bits - 1) /\ BitmapInicial \subseteq bitarray /\ MarcasDe(c)
  BY Partes DEF SacTipo
<1>2. Libres \in SUBSET Nat
  BY SacSupuesto DEF Libres
<1>3. BloqueLibre \in Libres
  BY <1>2, MinimoDe DEF BloqueLibre
<1>4. BloqueLibre \in 0..(Bits - 1) /\ BloqueLibre \notin bitarray
  BY <1>3 DEF Libres
<1>5. BloqueLibre \in Datos
  BY <1>1, <1>4, Medidas
<1>6. QED
  BY <1>1, <1>4, <1>5 DEF MarcasDe

LEMMA TomarBloqueInv ==
  ASSUME Hipotesis, BloquesInv, NEW c \in Conexiones, TomarBPD(c) \/ TomarDato(c)
  PROVE  BloquesInv' /\ SoloDe(Nodo(c))
<1>0. UnMontaje
  BY DEF Hipotesis
<1>1. /\ SacTipo /\ Apuntes /\ Distintos /\ Limpios /\ BitmapInicial \subseteq bitarray
      /\ MarcasDe(c) /\ Sirve(c) /\ Toma(c) /\ Recorre(c)
  BY <1>0, Partes
<1>2. /\ TomarBloque(c) /\ Libres # {} /\ UNCHANGED <<tabla, disco, dicc, mutexDicc>>
      /\ pc[c] \in DeEscribir \/ (pc[c] = "con_nodo" /\ pedido[c].op = "WRITE")
  BY DEF TomarBPD, TomarDato, enDisco, FaltaBPD, FaltaDato, Esta, DeEscribir
<1>3. pedido[c] # Nada /\ pedido[c].op = "WRITE" /\ Nodo(c) \in Indices /\ PIS(c) \in Pis /\ Entrada(c) \in Celda
  BY <1>2, LugarDeEscritura
<1>4. ~Entra(c) /\ ~Sale(c)
  BY DEF Entra, Sale, TomarBPD, TomarDato, FaltaBPD, FaltaDato, Esta
<1>5. PICK b \in Datos : b = BloqueLibre /\ b \notin bitarray /\ ~Referido(b)
  BY <1>0, <1>2, <1>4, BloqueLibreDe
<1>6. local' = [local EXCEPT ![c].bloque = b] /\ bitarray' = bitarray \cup {b}
  BY <1>2, <1>5 DEF TomarBloque
<1>7. /\ local' \in [Conexiones -> LocalTipo] /\ local'[c].bloque = b
      /\ local'[c].cursor = local[c].cursor /\ local'[c].nodo = local[c].nodo
  BY <1>1, <1>6 DEF SacTipo, LocalTipo
<1>8. bitarray' \subseteq 0..(Bits - 1) /\ (BitmapInicial \subseteq bitarray)'
  BY <1>1, <1>6, Medidas DEF SacTipo
<1>9. PICK punto \in {"apuntar_bpd", "apuntar_dato"} :
        /\ Ir(c, punto)
        /\ punto = "apuntar_bpd" => BPD(Nodo(c), PIS(c)) = 0
        /\ punto = "apuntar_dato" => BPD(Nodo(c), PIS(c)) # 0 /\ BloqueDato(Nodo(c), PIS(c), Entrada(c)) = 0
  BY <1>1 DEF TomarBPD, TomarDato, FaltaBPD, FaltaDato, Esta, Toma
<1>10. punto \in DeDatos
  BY DEF DeDatos, DeEscribir
<1>11. SacTipo' /\ Sirve(c)' /\ pc'[c] = punto /\ pedido'[c] = pedido[c]
  <2>1. tabla' \in [Indices -> NodoTipo] /\ disco' \in [Datos -> [Celda -> Nat]] /\ mutexDicc' \in Conexiones \cup {Nada}
    BY <1>1, <1>2 DEF SacTipo
  <2>2. local'[c].nodo \in Indices
    BY <1>3, <1>7 DEF Nodo
  <2>3. QED
    BY <1>1, <1>2, <1>3, <1>7, <1>8, <1>9, <1>10, <2>1, <2>2, SigueConDatos
<1>12. \A i \in Indices, p \in Pis, j \in 0..Celdas : En(i, p, j)' = En(i, p, j)
  BY <1>2, SinTocarBPD
<1>13. Apuntes' /\ Distintos' /\ \A x : Referido(x)' <=> Referido(x)
  BY <1>1, <1>12, MismosApuntes
<1>14. Limpios'
  BY <1>1, <1>2, <1>13 DEF Limpios
<1>15. Entra(c)' /\ ~Sale(c)'
  BY <1>11 DEF Entra, Sale
<1>16. MarcasDe(c)'
  <2>1. \A x \in Datos : x \in bitarray <=> Referido(x)
    BY <1>1, <1>4 DEF MarcasDe
  <2>2. \A x \in Datos : x \in bitarray' <=> Referido(x)' \/ x = local'[c].bloque
    BY <1>6, <1>7, <1>13, <2>1
  <2>3. QED
    BY <1>15, <2>2 DEF MarcasDe
<1>17. Toma(c)'
  <2>1. Nodo(c)' = Nodo(c) /\ PIS(c)' = PIS(c) /\ Entrada(c)' = Entrada(c)
    BY <1>7, <1>11 DEF Nodo, PIS, Entrada
  <2>2. BPD(Nodo(c), PIS(c))' = BPD(Nodo(c), PIS(c))
    BY <1>2, <2>1 DEF BPD
  <2>3. BloqueDato(Nodo(c), PIS(c), Entrada(c))' = BloqueDato(Nodo(c), PIS(c), Entrada(c))
    BY <1>2, <2>1, <2>2 DEF BloqueDato
  <2>4. (local[c].bloque \in Datos)' /\ (~Referido(local[c].bloque))'
    <3>1. ~Referido(b)' /\ local'[c].bloque = b
      BY <1>5, <1>7, <1>13
    <3>2. QED
      BY <3>1 DEF Referido
  <2>5. QED
    BY <1>9, <1>11, <2>2, <2>3, <2>4 DEF Toma
<1>18. Recorre(c)'
  <2>1. pc[c] \notin DeVaciar /\ pc'[c] \notin DeVaciar
    BY <1>2, <1>11 DEF DeVaciar, DeEscribir
  <2>2. QED
    BY <1>1, <1>7, <2>1 DEF Recorre
<1>19. BloquesInv'
  BY <1>0, <1>8, <1>11, <1>13, <1>14, <1>16, <1>17, <1>18, Junta
<1>20. QED
  BY <1>2, <1>19 DEF SoloDe

(* The pointer of the node gets the block of pointers, which is full of zeros. *)
LEMMA ApuntarBPDInv ==
  ASSUME Hipotesis, BloquesInv, NEW c \in Conexiones, ApuntarBPD(c)
  PROVE  BloquesInv' /\ SoloDe(Nodo(c))
<1>0. UnMontaje
  BY DEF Hipotesis
<1>1. /\ SacTipo /\ Apuntes /\ Distintos /\ Limpios /\ BitmapInicial \subseteq bitarray
      /\ MarcasDe(c) /\ Sirve(c) /\ Toma(c) /\ Recorre(c)
  BY <1>0, Partes
<1>2. /\ pc[c] = "apuntar_bpd" /\ pc[c] \in DeEscribir /\ Ir(c, "escribir_dato")
      /\ UNCHANGED <<disco, dicc, bitarray, mutexDicc, local>>
  BY DEF ApuntarBPD, enMemoria, Esta, DeEscribir
<1>3. PICK i \in Indices, p \in Pis : i = Nodo(c) /\ p = PIS(c)
  BY <1>2, LugarDeEscritura
<1>4. pedido[c] # Nada /\ pedido[c].op = "WRITE"
  BY <1>2, LugarDeEscritura
<1>5. PICK b \in Datos : b = local[c].bloque /\ ~Referido(b)
  BY <1>1, <1>2 DEF Toma, Entra
<1>6. BPD(i, p) = 0
  BY <1>1, <1>2, <1>3 DEF Toma
<1>7. b # 0 /\ disco[b] = Vacio
  BY <1>1, <1>5, Medidas DEF Limpios
<1>8. \A j \in Celda : En(i, p, j) = 0
  BY <1>6, Medidas DEF En, BloqueDato
<1>9. Apuntar(i, p, b)
  BY <1>3, <1>5 DEF ApuntarBPD
<1>10. Cambia(i, p, Celdas, b) /\ tabla' \in [Indices -> NodoTipo]
  BY <1>1, <1>2, <1>5, <1>7, <1>8, <1>9, CambiaPuntero
<1>11. /\ Apuntes' /\ Distintos'
       /\ \A x \in Datos : Referido(x)' <=> (Referido(x) /\ x # En(i, p, Celdas)) \/ x = b
  BY <1>1, <1>10, UnApunte, Medidas
<1>12. \A x \in Datos : Referido(x)' <=> Referido(x) \/ x = b
  BY <1>6, <1>11, Medidas DEF En
<1>13. SacTipo' /\ Sirve(c)' /\ pc'[c] = "escribir_dato" /\ pedido'[c] = pedido[c]
  <2>1. /\ disco' \in [Datos -> [Celda -> Nat]] /\ mutexDicc' \in Conexiones \cup {Nada}
        /\ local' \in [Conexiones -> LocalTipo] /\ bitarray' \subseteq 0..(Bits - 1)
    BY <1>1, <1>2 DEF SacTipo
  <2>2. local'[c].nodo \in Indices /\ "escribir_dato" \in DeDatos
    BY <1>2, <1>3 DEF Nodo, DeDatos, DeEscribir
  <2>3. QED
    BY <1>1, <1>2, <1>4, <1>10, <2>1, <2>2, SigueConDatos
<1>14. Limpios'
  BY <1>1, <1>2, <1>12 DEF Limpios
<1>15. ~Entra(c)' /\ ~Sale(c)' /\ Entra(c) /\ ~Sale(c)
  BY <1>2, <1>13 DEF Entra, Sale
<1>16. MarcasDe(c)'
  <2>1. \A x \in Datos : x \in bitarray <=> Referido(x) \/ x = b
    BY <1>1, <1>5, <1>15 DEF MarcasDe
  <2>2. \A x \in Datos : x \in bitarray' <=> Referido(x)'
    BY <1>2, <1>12, <2>1
  <2>3. QED
    BY <1>15, <2>2 DEF MarcasDe
<1>17. Toma(c)'
  <2>1. Nodo(c)' = i /\ PIS(c)' = p
    BY <1>2, <1>3, <1>13 DEF Nodo, PIS
  <2>2. BPD(i, p)' = b
    BY <1>10 DEF Cambia, En
  <2>3. BPD(Nodo(c), PIS(c))' = b
    BY <2>1, <2>2 DEF BPD
  <2>4. QED
    BY <1>7, <1>13, <1>15, <2>3 DEF Toma
<1>18. Recorre(c)'
  <2>1. pc[c] \notin DeVaciar /\ pc'[c] \notin DeVaciar
    BY <1>2, <1>13 DEF DeVaciar
  <2>2. QED
    BY <1>1, <1>2, <2>1 DEF Recorre
<1>19. BloquesInv'
  BY <1>0, <1>1, <1>2, <1>11, <1>13, <1>14, <1>16, <1>17, <1>18, Junta
<1>20. \A k \in Indices : k # i => tabla'[k].punteros = tabla[k].punteros
  BY <1>9 DEF Apuntar
<1>21. QED
  BY <1>2, <1>3, <1>19, <1>20 DEF SoloDe

LEMMA HayBPDInv ==
  ASSUME Hipotesis, BloquesInv, NEW c \in Conexiones, HayBPD(c)
  PROVE  BloquesInv' /\ SoloDe(Nodo(c))
<1>0. UnMontaje
  BY DEF Hipotesis
<1>1. SacTipo /\ Sirve(c) /\ Recorre(c)
  BY <1>0, Partes
<1>2. /\ pc[c] = "con_nodo" /\ pedido[c].op = "WRITE" /\ Ir(c, "escribir_dato")
      /\ UNCHANGED <<tabla, disco, dicc, bitarray, mutexDicc, local>> /\ BPD(Nodo(c), PIS(c)) # 0
  BY DEF HayBPD, FaltaBPD, Esta, discoVars, enDisco, enMemoria
<1>3. pedido[c] # Nada /\ Nodo(c) \in Indices
  BY <1>2, LugarDeEscritura
<1>4. SacTipo' /\ Sirve(c)' /\ pc'[c] = "escribir_dato" /\ pedido'[c] = pedido[c]
  <2>1. /\ disco' \in [Datos -> [Celda -> Nat]] /\ mutexDicc' \in Conexiones \cup {Nada}
        /\ local' \in [Conexiones -> LocalTipo] /\ bitarray' \subseteq 0..(Bits - 1)
        /\ tabla' \in [Indices -> NodoTipo]
    BY <1>1, <1>2 DEF SacTipo
  <2>2. local'[c].nodo \in Indices /\ "escribir_dato" \in DeDatos
    BY <1>2, <1>3 DEF Nodo, DeDatos, DeEscribir
  <2>3. QED
    BY <1>1, <1>2, <1>3, <2>1, <2>2, SigueConDatos
<1>5. ~Entra(c) /\ ~Sale(c) /\ ~Entra(c)' /\ ~Sale(c)'
  BY <1>2, <1>4 DEF Entra, Sale
<1>6. Toma(c)'
  <2>1. BPD(Nodo(c), PIS(c))' # 0
    BY <1>2, <1>4 DEF BPD, Nodo, PIS
  <2>2. QED
    BY <1>4, <1>5, <2>1 DEF Toma
<1>7. Recorre(c)'
  BY <1>1, <1>2, <1>4 DEF Recorre, DeVaciar
<1>8. BloquesInv'
  BY <1>0, <1>2, <1>4, <1>5, <1>6, <1>7, QuietaInv
<1>9. QED
  BY <1>2, <1>8 DEF SoloDe

(* The cell gets the block of data. *)
LEMMA ApuntarDatoInv ==
  ASSUME Hipotesis, BloquesInv, NEW c \in Conexiones, ApuntarDato(c)
  PROVE  BloquesInv' /\ SoloDe(Nodo(c))
<1>0. UnMontaje
  BY DEF Hipotesis
<1>1. /\ SacTipo /\ Apuntes /\ Distintos /\ Limpios /\ BitmapInicial \subseteq bitarray
      /\ MarcasDe(c) /\ Sirve(c) /\ Toma(c) /\ Recorre(c)
  BY <1>0, Partes
<1>2. /\ pc[c] = "apuntar_dato" /\ pc[c] \in DeEscribir /\ Ir(c, "escribir_dato")
      /\ UNCHANGED <<tabla, dicc, bitarray, mutexDicc, local>>
  BY DEF ApuntarDato, enMemoria, Esta, DeEscribir
<1>3. PICK i \in Indices, p \in Pis, j \in Celda : i = Nodo(c) /\ p = PIS(c) /\ j = Entrada(c)
  BY <1>2, LugarDeEscritura
<1>4. pedido[c] # Nada /\ pedido[c].op = "WRITE" /\ j \in 0..Celdas /\ j # Celdas /\ Celdas \in 0..Celdas
  BY <1>2, LugarDeEscritura, Medidas
<1>5. PICK b \in Datos : b = local[c].bloque /\ ~Referido(b) /\ b # 0
  BY <1>1, <1>2, Medidas DEF Toma, Entra
<1>6. BPD(i, p) # 0 /\ En(i, p, j) = 0
  BY <1>1, <1>2, <1>3, <1>4 DEF Toma, En
<1>7. PICK x \in Datos : x = BPD(i, p)
  BY <1>1, <1>4, <1>6 DEF Apuntes, En
<1>8. disco' = [disco EXCEPT ![x][j] = b] /\ disco \in [Datos -> [Celda -> Nat]]
  BY <1>1, <1>3, <1>5, <1>7 DEF ApuntarDato, SacTipo
<1>9. disco'[x] = [disco[x] EXCEPT ![j] = b] /\ \A y \in Datos : y # x => disco'[y] = disco[y]
  BY <1>8
<1>10. disco' \in [Datos -> [Celda -> Nat]]
  BY <1>5, <1>8, Medidas
<1>11. Referido(x)
  BY <1>4, <1>7 DEF Referido, En
<1>12. Cambia(i, p, j, b)
  <2>1. \A k \in Indices, q \in Pis : BPD(k, q) # 0 => BPD(k, q) \in Datos
    BY <1>1, <1>4 DEF Apuntes, En
  <2>2. QED
    BY <1>1, <1>2, <1>5, <1>6, <1>7, <1>9, <2>1, CambiaCelda
<1>13. /\ Apuntes' /\ Distintos'
       /\ \A y \in Datos : Referido(y)' <=> (Referido(y) /\ y # En(i, p, j)) \/ y = b
  BY <1>1, <1>4, <1>12, UnApunte
<1>14. \A y \in Datos : Referido(y)' <=> Referido(y) \/ y = b
  BY <1>6, <1>13, Medidas
<1>15. SacTipo' /\ Sirve(c)' /\ pc'[c] = "escribir_dato" /\ pedido'[c] = pedido[c]
  <2>1. /\ tabla' \in [Indices -> NodoTipo] /\ mutexDicc' \in Conexiones \cup {Nada}
        /\ local' \in [Conexiones -> LocalTipo] /\ bitarray' \subseteq 0..(Bits - 1)
    BY <1>1, <1>2 DEF SacTipo
  <2>2. local'[c].nodo \in Indices /\ "escribir_dato" \in DeDatos
    BY <1>2, <1>3 DEF Nodo, DeDatos, DeEscribir
  <2>3. QED
    BY <1>1, <1>2, <1>4, <1>10, <2>1, <2>2, SigueConDatos
<1>16. Limpios'
  BY <1>1, <1>9, <1>11, <1>14 DEF Limpios
<1>17. ~Entra(c)' /\ ~Sale(c)' /\ Entra(c) /\ ~Sale(c)
  BY <1>2, <1>15 DEF Entra, Sale
<1>18. MarcasDe(c)'
  <2>1. \A y \in Datos : y \in bitarray <=> Referido(y) \/ y = b
    BY <1>1, <1>5, <1>17 DEF MarcasDe
  <2>2. \A y \in Datos : y \in bitarray' <=> Referido(y)'
    BY <1>2, <1>14, <2>1
  <2>3. QED
    BY <1>17, <2>2 DEF MarcasDe
<1>19. Toma(c)'
  <2>1. BPD(Nodo(c), PIS(c))' # 0
    BY <1>2, <1>3, <1>6, <1>15 DEF BPD, Nodo, PIS
  <2>2. QED
    BY <1>15, <1>17, <2>1 DEF Toma
<1>20. Recorre(c)'
  <2>1. pc[c] \notin DeVaciar /\ pc'[c] \notin DeVaciar
    BY <1>2, <1>15 DEF DeVaciar
  <2>2. QED
    BY <1>1, <1>2, <2>1 DEF Recorre
<1>21. BloquesInv'
  BY <1>0, <1>1, <1>2, <1>13, <1>15, <1>16, <1>18, <1>19, <1>20, Junta
<1>22. \E q \in Pis, h \in 0..Celdas : En(i, q, h) = x
  BY <1>4, <1>7 DEF En
<1>23. QED
  BY <1>2, <1>3, <1>9, <1>21, <1>22 DEF SoloDe

LEMMA SinBloquesInv ==
  ASSUME Hipotesis, BloquesInv, NEW c \in Conexiones, SinBloques(c)
  PROVE  BloquesInv' /\ SoloDe(Nodo(c))
<1>1. Conserva /\ UNCHANGED <<tabla, disco>> /\ UnMontaje
  BY Conservan DEF SinBloques, BloquesInv, Hipotesis, discoVars, enDisco
<1>2. ~Entra(c) /\ ~Sale(c)
  BY DEF SinBloques, FaltaBPD, FaltaDato, Esta, Entra, Sale
<1>3. QED
  BY <1>1, <1>2, TerminaQuieta DEF SinBloques, Responder, SoloDe

(* The bytes are written on the block of data, which is no block of pointers. *)
LEMMA EscribirBytesInv ==
  ASSUME Hipotesis, BloquesInv, NEW c \in Conexiones, EscribirBytes(c)
  PROVE  BloquesInv' /\ SoloDe(Nodo(c))
<1>0. UnMontaje
  BY DEF Hipotesis
<1>1. /\ SacTipo /\ Apuntes /\ Distintos /\ Limpios /\ BitmapInicial \subseteq bitarray /\ MarcasDe(c)
  BY <1>0, Partes
<1>2. pc[c] = "escribir_dato" /\ pc[c] \in DeEscribir /\ UNCHANGED <<dicc, bitarray, mutexDicc>>
  BY DEF EscribirBytes, enMemoria, Esta, DeEscribir
<1>3. PICK i \in Indices, p \in Pis, j \in Celda, byte \in Celda :
        i = Nodo(c) /\ p = PIS(c) /\ j = Entrada(c) /\ byte = IndiceByte(pedido[c].desde)
  BY <1>2, LugarDeEscritura
<1>4. pedido[c].largo \in Nat /\ pedido[c].valor \in Nat
  BY <1>2, LugarDeEscritura
<1>5. PICK v \in Nat : v = pedido[c].valor
  BY <1>4
<1>6. PICK largo \in Nat : largo = Min({pedido[c].largo, Celdas - byte})
  <2>1. Celdas - byte \in Nat
    BY Medidas DEF Celda
  <2>2. {pedido[c].largo, Celdas - byte} \in SUBSET Nat
    BY <1>4, <2>1
  <2>3. Min({pedido[c].largo, Celdas - byte}) \in {pedido[c].largo, Celdas - byte}
    BY <2>2, MinimoDe
  <2>4. QED
    BY <2>2, <2>3
<1>7. BloqueDato(i, p, j) # 0
  BY <1>3 DEF EscribirBytes
<1>8. PICK b \in Datos : b = BloqueDato(i, p, j)
  BY <1>1, <1>7, DatoNoEsBPD
<1>9. b = En(i, p, j) /\ \A k \in Indices, q \in Pis : BPD(k, q) # b
  BY <1>1, <1>7, <1>8, DatoNoEsBPD
<1>10. disco' = [disco EXCEPT ![b] = [h \in DOMAIN @ |-> IF h \in byte..(byte + largo - 1) THEN v ELSE @[h]]]
  BY <1>3, <1>5, <1>6, <1>8 DEF EscribirBytes
<1>11. disco \in [Datos -> [Celda -> Nat]]
  BY <1>1 DEF SacTipo
<1>12. disco' \in [Datos -> [Celda -> Nat]] /\ \A x \in Datos : x # b => disco'[x] = disco[x]
  <2>1. [h \in DOMAIN disco[b] |-> IF h \in byte..(byte + largo - 1) THEN v ELSE disco[b][h]] \in [Celda -> Nat]
    BY <1>11
  <2>2. QED
    BY <1>10, <1>11, <2>1
<1>13. tabla' = [tabla EXCEPT ![i].tamanio = @ + largo] /\ tabla \in [Indices -> NodoTipo]
  BY <1>1, <1>3, <1>6 DEF EscribirBytes, SacTipo
<1>14. tabla' \in [Indices -> NodoTipo] /\ \A k \in Indices : tabla'[k].punteros = tabla[k].punteros
  <2>1. tabla[i].tamanio \in Nat
    BY <1>13 DEF NodoTipo
  <2>2. PICK t \in Nat : t = tabla[i].tamanio + largo
    BY <2>1
  <2>3. tabla' = [tabla EXCEPT ![i].tamanio = t]
    BY <1>13, <2>2
  <2>4. tabla' \in [Indices -> NodoTipo]
    BY <1>13, <2>3 DEF NodoTipo
  <2>5. \A k \in Indices : tabla'[k].punteros = tabla[k].punteros
    BY <1>13, <2>3 DEF NodoTipo
  <2>6. QED
    BY <2>4, <2>5
<1>15. Responder(c, "ok")
  BY DEF EscribirBytes
<1>16. /\ pedido' \in [Conexiones -> TodoPedido] /\ respuesta' \in [Conexiones -> {"", "ok", "error"}]
       /\ pc' \in [Conexiones -> Puntos] /\ local' \in [Conexiones -> LocalTipo]
       /\ ~Entra(c)' /\ ~Sale(c)' /\ Toma(c)' /\ Recorre(c)' /\ Sirve(c)'
  BY <1>1, <1>15, Termina DEF Responder
<1>17. SacTipo'
  BY <1>1, <1>2, <1>12, <1>14, <1>16 DEF SacTipo
<1>18. \A k \in Indices, q \in Pis, h \in 0..Celdas : En(k, q, h)' = En(k, q, h)
  <2>1. \A k \in Indices, q \in Pis : BPD(k, q) # 0 => BPD(k, q) \in Datos
    BY <1>1, Medidas DEF Apuntes, En
  <2>2. QED
    BY <1>9, <1>12, <1>14, <2>1, SinTocarBPD
<1>19. Apuntes' /\ Distintos' /\ \A x : Referido(x)' <=> Referido(x)
  BY <1>1, <1>18, MismosApuntes
<1>20. Referido(b)
  BY <1>9, Medidas DEF Referido
<1>21. Limpios'
  BY <1>1, <1>12, <1>19, <1>20 DEF Limpios
<1>22. MarcasDe(c)'
  <2>1. ~Entra(c) /\ ~Sale(c)
    BY <1>2 DEF Entra, Sale
  <2>2. QED
    BY <1>1, <1>2, <1>16, <1>19, <2>1 DEF MarcasDe
<1>23. BloquesInv'
  BY <1>0, <1>1, <1>2, <1>16, <1>17, <1>19, <1>21, <1>22, Junta
<1>24. \E q \in Pis, h \in 0..Celdas : En(i, q, h) = b
  BY <1>9, Medidas
<1>25. QED
  BY <1>3, <1>12, <1>14, <1>23, <1>24 DEF SoloDe

LEMMA WriteInv ==
  ASSUME Hipotesis, BloquesInv, NEW c \in Conexiones, Write(c)
  PROVE  BloquesInv' /\ SoloDe(Nodo(c))
  BY TomarBloqueInv, ApuntarBPDInv, HayBPDInv, ApuntarDatoInv, SinBloquesInv, EscribirBytesInv DEF Write

-----------------------------------------------------------------------------
(* UNLINK and TRUNCATE.                                                      *)

LEMMA PuntosDeVaciar ==
  ASSUME BloquesInv, NEW c \in Conexiones, pc[c] \in DeVaciar
  PROVE  /\ pedido[c] # Nada /\ Nodo(c) \in Indices /\ Nodo(c) = local[c].nodo
         /\ local[c].cursor \in Nat /\ EnBucle(c) /\ ~Entra(c)
         /\ \A punto \in DeVaciar : punto \in DeDatos /\ punto \notin DeEscribir
<1>1. SacTipo /\ Sirve(c) /\ Recorre(c)
  BY DEF BloquesInv
<1>2. pc[c] \notin {"libre", "colgado"} /\ ~Entra(c)
  BY DEF DeVaciar, Entra
<1>3. \A punto \in DeVaciar : punto \in DeDatos /\ punto \notin DeEscribir
  BY DEF DeDatos, DeVaciar, DeEscribir
<1>4. local[c].cursor \in Nat
  BY <1>1 DEF SacTipo, LocalTipo
<1>5. QED
  BY <1>1, <1>2, <1>3, <1>4 DEF Sirve, Recorre, Nodo

(* The next block of the loop. *)
LEMMA ProximoBloque ==
  ASSUME BloquesInv, NEW c \in Conexiones, Vaciando(c, "limpiar") \/ Vaciando(c, "vaciar"),
         NEW m, m = Proximo(c)
  PROVE  /\ m \in Posiciones /\ m \in Nat /\ PosPIS(m) \in Pis /\ PosEntrada(m) \in 0..Celdas
         /\ BloqueEn(Nodo(c), m) \in Datos /\ BloqueEn(Nodo(c), m) = En(Nodo(c), PosPIS(m), PosEntrada(m))
         /\ BloqueEn(Nodo(c), m) # 0 /\ Referido(BloqueEn(Nodo(c), m))
         /\ \A p \in Pis, j \in 0..Celdas : Pos(p, j) < m => En(Nodo(c), p, j) = 0
<1>1. pc[c] \in DeVaciar /\ Siguientes(Nodo(c), local[c].cursor) # {}
  BY DEF Vaciando, Esta, DeVaciar
<1>2. Nodo(c) \in Indices /\ local[c].cursor \in Nat /\ EnBucle(c)
  BY <1>1, PuntosDeVaciar
<1>3. /\ m \in Posiciones /\ local[c].cursor <= m /\ BloqueEn(Nodo(c), m) # 0
      /\ \A p \in Pis, j \in 0..Celdas : local[c].cursor <= Pos(p, j) /\ Pos(p, j) < m => En(Nodo(c), p, j) = 0
  BY <1>1, <1>2, ProximaPosicion DEF Proximo
<1>4. m \in Nat /\ PosPIS(m) \in Pis /\ PosEntrada(m) \in 0..Celdas
  BY <1>3, CamposDePosicion
<1>5. BloqueEn(Nodo(c), m) = En(Nodo(c), PosPIS(m), PosEntrada(m))
  BY <1>3, EnPosicion
<1>6. Apuntes
  BY DEF BloquesInv
<1>7. BloqueEn(Nodo(c), m) \in Datos /\ Referido(BloqueEn(Nodo(c), m))
  BY <1>2, <1>3, <1>4, <1>5, <1>6 DEF Apuntes, Referido
<1>8. ASSUME NEW p \in Pis, NEW j \in 0..Celdas, Pos(p, j) < m PROVE En(Nodo(c), p, j) = 0
  <2>1. Pos(p, j) \in Nat
    BY PosicionDe, CamposDePosicion
  <2>2. CASE local[c].cursor <= Pos(p, j)
    BY <1>3, <1>8, <2>2
  <2>3. CASE Pos(p, j) < local[c].cursor
    BY <1>2, <2>3 DEF EnBucle
  <2>4. QED
    BY <1>2, <2>1, <2>2, <2>3
<1>9. QED
  BY <1>3, <1>4, <1>5, <1>7, <1>8

LEMMA AvanzaCursor ==
  ASSUME SacTipo, NEW c \in Conexiones, NEW m \in Nat, Avanzar(c, m)
  PROVE  /\ local' \in [Conexiones -> LocalTipo] /\ local'[c].cursor = m
         /\ local'[c].nodo = local[c].nodo /\ Nodo(c)' = Nodo(c)
<1>1. local' \in [Conexiones -> LocalTipo]
  BY DEF SacTipo, LocalTipo, Avanzar
<1>2. local'[c].cursor = m /\ local'[c].nodo = local[c].nodo
  BY DEF SacTipo, LocalTipo, Avanzar
<1>3. QED
  BY <1>1, <1>2 DEF Nodo

LEMMA EmpezarUnlinkInv ==
  ASSUME Hipotesis, BloquesInv, NEW c \in Conexiones, EmpezarUnlink(c)
  PROVE  BloquesInv' /\ SoloDe(Nodo(c))
<1>1. pc[c] \in Quietos /\ pedido[c] # Nada /\ UNCHANGED discoVars /\ UnMontaje
  BY PuntosQuietos DEF EmpezarUnlink, Llega, Hipotesis
<1>2. BloquesInv'
  <2>1. CASE Responder(c, "error")
    BY <1>1, <2>1, SoloResponde
  <2>2. CASE Ir(c, "tomar_unlink") /\ UNCHANGED local
    <3>1. /\ "tomar_unlink" \in Quietos /\ "tomar_unlink" \notin DeCrear
          /\ "tomar_unlink" \notin DeRenombrar \cup {"con_nodo"}
      BY PuntosQuietos DEF DeCrear, DeRenombrar
    <3>2. QED
      BY <1>1, <2>2, <3>1, SoloAvanza
  <2>3. QED
    BY <2>1, <2>2 DEF EmpezarUnlink
<1>3. QED
  BY <1>1, <1>2 DEF SoloDe, discoVars, enDisco

LEMMA TomarUnlinkInv ==
  ASSUME Hipotesis, BloquesInv, NEW c \in Conexiones, TomarUnlink(c)
  PROVE  BloquesInv' /\ SoloDe(Nodo(c))
<1>0. UnMontaje
  BY DEF Hipotesis
<1>1. SacTipo /\ Sirve(c) /\ Recorre(c)
  BY <1>0, Partes
<1>2. /\ pc[c] = "tomar_unlink" /\ Ir(c, "limpiar") /\ mutexDicc' = c
      /\ UNCHANGED <<tabla, disco, dicc, bitarray>> /\ local' = [local EXCEPT ![c].nodo = Saca(Ruta(c))]
  BY DEF TomarUnlink, Esta, enDisco
<1>3. pedido[c] # Nada /\ Saca(Ruta(c)) \in Indices
  BY <1>1, <1>2, PedidoDe, SacaNodo
<1>4. /\ local' \in [Conexiones -> LocalTipo] /\ local'[c].cursor = local[c].cursor
      /\ local'[c].nodo \in Indices
  BY <1>1, <1>2, <1>3 DEF SacTipo, LocalTipo
<1>5. SacTipo' /\ Sirve(c)' /\ pc'[c] = "limpiar" /\ pedido'[c] = pedido[c]
  <2>1. /\ disco' \in [Datos -> [Celda -> Nat]] /\ mutexDicc' \in Conexiones \cup {Nada}
        /\ bitarray' \subseteq 0..(Bits - 1) /\ tabla' \in [Indices -> NodoTipo]
    BY <1>1, <1>2 DEF SacTipo
  <2>2. "limpiar" \in DeDatos /\ "limpiar" \notin DeEscribir
    BY DEF DeDatos, DeVaciar, DeEscribir
  <2>3. QED
    BY <1>1, <1>2, <1>3, <1>4, <2>1, <2>2, SigueConDatos
<1>6. ~Entra(c) /\ ~Sale(c) /\ ~Entra(c)' /\ ~Sale(c)' /\ Toma(c)'
  BY <1>2, <1>5 DEF Entra, Sale, Toma
<1>7. Recorre(c)'
  <2>1. local'[c].cursor = 0
    BY <1>1, <1>2, <1>4 DEF Recorre, DeVaciar
  <2>2. \A p \in Pis, j \in 0..Celdas : ~(Pos(p, j) < 0)
    BY PosicionDe, CamposDePosicion
  <2>3. EnBucle(c)'
    BY <1>5, <2>1, <2>2 DEF EnBucle
  <2>4. pc'[c] \in DeVaciar
    BY <1>5 DEF DeVaciar
  <2>5. QED
    BY <2>3, <2>4 DEF Recorre
<1>8. BloquesInv'
  BY <1>0, <1>2, <1>5, <1>6, <1>7, QuietaInv
<1>9. QED
  BY <1>2, <1>8 DEF SoloDe

LEMMA TerminarInv ==
  ASSUME Hipotesis, BloquesInv, NEW c \in Conexiones, TerminarUnlink(c) \/ TerminarTruncate(c)
  PROVE  BloquesInv' /\ SoloDe(Nodo(c))
<1>1. /\ SacTipo /\ UnMontaje /\ Responder(c, "ok") /\ UNCHANGED <<disco, bitarray>>
      /\ ~Entra(c) /\ ~Sale(c)
  BY DEF Hipotesis, BloquesInv, TerminarUnlink, TerminarTruncate, enMemoria, Esta, Entra, Sale
<1>2. tabla \in [Indices -> NodoTipo] /\ DOMAIN dicc \subseteq Seq(Seq(Nat)) /\ \A r \in DOMAIN dicc : dicc[r] \in Indices
  BY <1>1 DEF SacTipo
<1>3. tabla' \in [Indices -> NodoTipo] /\ \A k \in Indices : tabla'[k].punteros = tabla[k].punteros
  <2>1. CASE TerminarUnlink(c)
    BY <1>2, <2>1, NodoLiberado DEF TerminarUnlink
  <2>2. CASE TerminarTruncate(c)
    <3>1. tabla' = [tabla EXCEPT ![Nodo(c)].tamanio = 0]
      BY <2>2 DEF TerminarTruncate
    <3>2. tabla' \in [Indices -> NodoTipo]
      BY <1>2, <3>1 DEF NodoTipo
    <3>3. \A k \in Indices : tabla'[k].punteros = tabla[k].punteros
      BY <1>2, <3>1 DEF NodoTipo
    <3>4. QED
      BY <3>2, <3>3
  <2>3. QED
    BY <2>1, <2>2
<1>4. /\ DOMAIN dicc' \subseteq Seq(Seq(Nat)) /\ \A r \in DOMAIN dicc' : dicc'[r] \in Indices
      /\ mutexDicc' \in Conexiones \cup {Nada}
  <2>1. CASE TerminarUnlink(c)
    BY <1>2, <2>1, SinTipo DEF TerminarUnlink
  <2>2. CASE TerminarTruncate(c)
    BY <1>1, <2>2 DEF TerminarTruncate, enMemoria, SacTipo
  <2>3. QED
    BY <2>1, <2>2
<1>5. Conserva
  BY <1>1, <1>3, <1>4 DEF Conserva
<1>6. BloquesInv'
  BY <1>1, <1>5, TerminaQuieta DEF Responder
<1>7. QED
  BY <1>1, <1>3, <1>6 DEF SoloDe

LEMMA EmpezarTruncateInv ==
  ASSUME Hipotesis, BloquesInv, NEW c \in Conexiones, EmpezarTruncate(c) \/ NoTruncar(c)
  PROVE  BloquesInv' /\ SoloDe(Nodo(c))
<1>1. pc[c] = "con_nodo" /\ pc[c] \in Quietos /\ pedido[c] # Nada /\ UNCHANGED discoVars /\ UnMontaje
  BY PuntosQuietos, PedidoDe DEF EmpezarTruncate, NoTruncar, Esta, Hipotesis
<1>2. BloquesInv'
  <2>1. CASE EmpezarTruncate(c)
    <3>1. "desasignar" \in Quietos /\ "desasignar" \notin DeCrear /\ "desasignar" \notin DeRenombrar \cup {"con_nodo"}
      BY PuntosQuietos DEF DeCrear, DeRenombrar
    <3>2. QED
      BY <1>1, <2>1, <3>1, SoloAvanza DEF EmpezarTruncate
  <2>2. CASE NoTruncar(c)
    <3>1. Conserva /\ ~Entra(c) /\ ~Sale(c)
      BY <1>1, Conservan DEF BloquesInv, Entra, Sale
    <3>2. PICK punto \in {"libre", "colgado"}, r \in {"", "ok", "error"} : Terminar(c, punto, r)
      BY <2>2 DEF NoTruncar, Responder, Callar
    <3>3. QED
      BY <1>1, <3>1, <3>2, TerminaQuieta
  <2>3. QED
    BY <2>1, <2>2
<1>3. QED
  BY <1>1, <1>2 DEF SoloDe, discoVars, enDisco

(* The mark of the block of the loop is taken. *)
LEMMA SinMarca ==
  ASSUME UnMontaje, BloquesInv, NEW c \in Conexiones, ~Entra(c), ~Sale(c), ~Entra(c)', Sale(c)',
         UNCHANGED <<tabla, disco>>, NEW b \in Datos, bitarray' = bitarray \ {b}, AlCursor(c)' = b
  PROVE  /\ Apuntes' /\ Distintos' /\ Limpios' /\ (BitmapInicial \subseteq bitarray)' /\ MarcasDe(c)' /\ Toma(c)'
         /\ bitarray' \subseteq 0..(Bits - 1)
         /\ \A i \in Indices, p \in Pis, j \in 0..Celdas : En(i, p, j)' = En(i, p, j)
<1>1. SacTipo /\ Apuntes /\ Distintos /\ Limpios /\ BitmapInicial \subseteq bitarray /\ MarcasDe(c)
  BY Partes
<1>2. \A i \in Indices, p \in Pis, j \in 0..Celdas : En(i, p, j)' = En(i, p, j)
  BY SinTocarBPD
<1>3. Apuntes' /\ Distintos' /\ \A x : Referido(x)' <=> Referido(x)
  BY <1>1, <1>2, MismosApuntes
<1>4. Limpios'
  BY <1>1, <1>3 DEF Limpios
<1>5. (BitmapInicial \subseteq bitarray)' /\ bitarray' \subseteq 0..(Bits - 1)
  BY <1>1, Medidas DEF SacTipo
<1>6. MarcasDe(c)'
  <2>1. \A x \in Datos : x \in bitarray <=> Referido(x)
    BY <1>1 DEF MarcasDe
  <2>2. \A x \in Datos : x \in bitarray' <=> Referido(x)' /\ x # b
    BY <1>3, <2>1
  <2>3. QED
    BY <2>2 DEF MarcasDe
<1>7. Toma(c)'
  BY DEF Toma, Entra, Sale
<1>8. QED
  BY <1>2, <1>3, <1>4, <1>5, <1>6, <1>7

(* The place of the block of the loop is left with nothing, and the block with  *)
(* zeros.                                                                     *)
LEMMA SinLugar ==
  ASSUME UnMontaje, BloquesInv, NEW c \in Conexiones, Sale(c), NEW punto \in {"limpiar", "vaciar"}, pc'[c] = punto,
         NEW n, n = local[c].cursor, Avanzar(c, n + 1), NEW b, b = 0, NEW i, i = Nodo(c),
         Cambia(i, PosPIS(n), PosEntrada(n), b),
         disco'[AlCursor(c)] = Vacio,
         \A x \in Datos : ~Referido(x) => disco'[x] = disco[x], bitarray' = bitarray
  PROVE  /\ Apuntes' /\ Distintos' /\ Limpios' /\ MarcasDe(c)' /\ Toma(c)' /\ Recorre(c)'
         /\ (BitmapInicial \subseteq bitarray)' /\ bitarray' \subseteq 0..(Bits - 1)
         /\ local' \in [Conexiones -> LocalTipo] /\ local'[c].nodo \in Indices
<1>1. SacTipo /\ Apuntes /\ Distintos /\ Limpios /\ BitmapInicial \subseteq bitarray /\ MarcasDe(c)
  BY Partes
<1>2. pc[c] \in DeVaciar /\ pc[c] \notin {"limpiar", "vaciar"}
  BY DEF Sale, DeVaciar
<1>3. i \in Indices /\ n \in Nat /\ EnBucle(c) /\ ~Entra(c)
  BY <1>2, PuntosDeVaciar
<1>4. n \in Posiciones /\ AlCursor(c) # 0 /\ \A p \in Pis, j \in 0..Celdas : Pos(p, j) < n => En(i, p, j) = 0
  BY <1>2, <1>3 DEF EnBucle
<1>5. PosPIS(n) \in Pis /\ PosEntrada(n) \in 0..Celdas /\ AlCursor(c) = En(i, PosPIS(n), PosEntrada(n))
  BY <1>4, CamposDePosicion, EnPosicion DEF AlCursor
<1>6. PICK x \in Datos : x = AlCursor(c)
  BY <1>1, <1>3, <1>4, <1>5 DEF Apuntes
<1>7. /\ Apuntes' /\ Distintos'
      /\ \A y \in Datos : Referido(y)' <=> (Referido(y) /\ y # En(i, PosPIS(n), PosEntrada(n))) \/ y = b
  BY <1>1, <1>3, <1>5, UnApunte
<1>8. \A y \in Datos : Referido(y)' <=> Referido(y) /\ y # x
  BY <1>5, <1>6, <1>7, Medidas
<1>9. Limpios'
  BY <1>1, <1>6, <1>8 DEF Limpios
<1>10. ~Entra(c)' /\ ~Sale(c)'
  BY DEF Entra, Sale
<1>11. MarcasDe(c)'
  <2>1. \A y \in Datos : y \in bitarray <=> Referido(y) /\ y # x
    BY <1>1, <1>3, <1>6 DEF MarcasDe
  <2>2. \A y \in Datos : y \in bitarray' <=> Referido(y)'
    BY <1>8, <2>1
  <2>3. QED
    BY <1>10, <2>2 DEF MarcasDe
<1>12. Toma(c)'
  BY <1>10 DEF Toma, Entra
<1>13. /\ local' \in [Conexiones -> LocalTipo] /\ local'[c].cursor = n + 1
       /\ local'[c].nodo = i
  BY <1>1, <1>3, AvanzaCursor DEF Nodo
<1>14. \A p \in Pis, j \in 0..Celdas : Pos(p, j) < n + 1 => En(i, p, j)' = 0
  BY <1>3, <1>4, PasaElCursor
<1>15. Recorre(c)'
  <2>1. Nodo(c)' = i
    BY <1>13 DEF Nodo
  <2>2. \A p \in Pis, j \in 0..Celdas : Pos(p, j) < local'[c].cursor => En(Nodo(c), p, j)' = 0
    BY <1>13, <1>14, <2>1 DEF En, BPD, BloqueDato
  <2>3. EnBucle(c)'
    BY <2>2 DEF EnBucle
  <2>4. pc'[c] \in DeVaciar
    BY DEF DeVaciar
  <2>5. QED
    BY <2>3, <2>4 DEF Recorre
<1>16. QED
  BY <1>1, <1>3, <1>7, <1>9, <1>11, <1>12, <1>13, <1>15 DEF SacTipo

LEMMA LimpiarSueltaInv ==
  ASSUME Hipotesis, BloquesInv, NEW c \in Conexiones, LimpiarSuelta(c)
  PROVE  BloquesInv' /\ SoloDe(Nodo(c))
<1>0. UnMontaje
  BY DEF Hipotesis
<1>1. SacTipo /\ Sirve(c)
  BY <1>0, Partes
<1>2. PICK m : m = Proximo(c)
  OBVIOUS
<1>3. PICK punto \in {"limpiar_puntero", "limpiar_dato"} :
        Ir(c, punto) /\ (punto = "limpiar_dato" => ~AlFinal(m)) /\ (punto = "limpiar_puntero" => AlFinal(m))
  BY <1>2 DEF LimpiarSuelta
<1>4. /\ pc[c] = "limpiar" /\ pc[c] \in DeVaciar /\ UNCHANGED <<tabla, disco, dicc, mutexDicc>>
      /\ Avanzar(c, m) /\ Soltar(BloqueEn(Nodo(c), m)) /\ Vaciando(c, "limpiar")
  BY <1>2 DEF LimpiarSuelta, Vaciando, Esta, DeVaciar, enDisco
<1>5. PICK i \in Indices : i = Nodo(c) /\ i = local[c].nodo
  BY <1>4, PuntosDeVaciar
<1>6. /\ m \in Posiciones /\ m \in Nat
      /\ \A p \in Pis, j \in 0..Celdas : Pos(p, j) < m => En(i, p, j) = 0
  BY <1>2, <1>4, <1>5, ProximoBloque
<1>7. PICK b \in Datos : b = BloqueEn(i, m) /\ b # 0
  BY <1>2, <1>4, <1>5, ProximoBloque
<1>8. local' \in [Conexiones -> LocalTipo] /\ local'[c].cursor = m /\ local'[c].nodo = i /\ Nodo(c)' = i
  BY <1>1, <1>4, <1>5, <1>6, AvanzaCursor
<1>9. bitarray' = bitarray \ {b}
  BY <1>4, <1>5, <1>7 DEF Soltar
<1>10. pc'[c] = punto
  BY <1>1, <1>3 DEF Ir, SacTipo
<1>11. AlCursor(c)' = b
  <2>1. BloqueEn(i, m)' = b
    BY <1>4, <1>7 DEF BloqueEn, BPD, BloqueDato
  <2>2. QED
    BY <1>8, <2>1 DEF AlCursor, BloqueEn, BPD, BloqueDato
<1>12. ~Entra(c) /\ ~Sale(c) /\ ~Entra(c)' /\ Sale(c)'
  BY <1>4, <1>10 DEF Entra, Sale
<1>13. /\ Apuntes' /\ Distintos' /\ Limpios' /\ (BitmapInicial \subseteq bitarray)' /\ MarcasDe(c)' /\ Toma(c)'
       /\ bitarray' \subseteq 0..(Bits - 1)
       /\ \A k \in Indices, p \in Pis, j \in 0..Celdas : En(k, p, j)' = En(k, p, j)
  BY <1>0, <1>4, <1>9, <1>11, <1>12, SinMarca
<1>14. SacTipo' /\ Sirve(c)'
  <2>1. /\ disco' \in [Datos -> [Celda -> Nat]] /\ mutexDicc' \in Conexiones \cup {Nada}
        /\ tabla' \in [Indices -> NodoTipo] /\ local'[c].nodo \in Indices
    BY <1>1, <1>4, <1>8 DEF SacTipo
  <2>2. punto \in DeDatos /\ punto \notin DeEscribir /\ pedido[c] # Nada
    BY <1>4, PuntosDeVaciar DEF DeDatos, DeVaciar, DeEscribir
  <2>3. QED
    BY <1>1, <1>3, <1>4, <1>8, <1>13, <2>1, <2>2, SigueConDatos
<1>15. Recorre(c)'
  <2>1. \A p \in Pis, j \in 0..Celdas : Pos(p, j) < local'[c].cursor => En(Nodo(c), p, j)' = 0
    BY <1>6, <1>8, <1>13 DEF En, BPD, BloqueDato
  <2>2. AlCursor(c)' # 0
    BY <1>7, <1>11
  <2>3. EnBucle(c)'
    BY <1>3, <1>6, <1>8, <1>10, <2>1, <2>2 DEF EnBucle
  <2>4. QED
    BY <1>10, <2>3 DEF Recorre, DeVaciar
<1>16. BloquesInv'
  BY <1>0, <1>13, <1>14, <1>15, Junta
<1>17. QED
  BY <1>4, <1>16 DEF SoloDe

LEMMA SoltarBloqueInv ==
  ASSUME Hipotesis, BloquesInv, NEW c \in Conexiones, SoltarBloque(c)
  PROVE  BloquesInv' /\ SoloDe(Nodo(c))
<1>0. UnMontaje
  BY DEF Hipotesis
<1>1. SacTipo /\ Sirve(c) /\ Apuntes
  BY <1>0, Partes
<1>2. /\ pc[c] = "soltar" /\ pc[c] \in DeVaciar /\ UNCHANGED <<tabla, disco, dicc, mutexDicc, local>>
      /\ Ir(c, "desapuntar") /\ bitarray' = bitarray \ {AlCursor(c)}
  BY DEF SoltarBloque, Soltar, AlCursor, Esta, DeVaciar, enDisco
<1>3. PICK i \in Indices : i = Nodo(c) /\ i = local[c].nodo
  BY <1>2, PuntosDeVaciar
<1>4. EnBucle(c) /\ pedido[c] # Nada
  BY <1>2, PuntosDeVaciar
<1>5. PICK n \in Posiciones : n = local[c].cursor
  BY <1>2, <1>4 DEF EnBucle
<1>6. PosPIS(n) \in Pis /\ PosEntrada(n) \in 0..Celdas /\ AlCursor(c) = En(i, PosPIS(n), PosEntrada(n))
  BY <1>3, <1>5, CamposDePosicion, EnPosicion DEF AlCursor
<1>7. PICK b \in Datos : b = AlCursor(c) /\ b # 0
  BY <1>1, <1>2, <1>4, <1>6 DEF Apuntes, EnBucle
<1>8. pc'[c] = "desapuntar" /\ Nodo(c)' = Nodo(c)
  BY <1>1, <1>2 DEF Ir, SacTipo, Nodo
<1>9. AlCursor(c)' = AlCursor(c)
  BY <1>2, <1>8 DEF AlCursor, BloqueEn, BPD, BloqueDato
<1>10. ~Entra(c) /\ ~Sale(c) /\ ~Entra(c)' /\ Sale(c)'
  BY <1>2, <1>8 DEF Entra, Sale
<1>11. /\ Apuntes' /\ Distintos' /\ Limpios' /\ (BitmapInicial \subseteq bitarray)' /\ MarcasDe(c)' /\ Toma(c)'
       /\ bitarray' \subseteq 0..(Bits - 1)
       /\ \A k \in Indices, p \in Pis, j \in 0..Celdas : En(k, p, j)' = En(k, p, j)
  BY <1>0, <1>2, <1>7, <1>9, <1>10, SinMarca
<1>12. SacTipo' /\ Sirve(c)'
  <2>1. /\ disco' \in [Datos -> [Celda -> Nat]] /\ mutexDicc' \in Conexiones \cup {Nada}
        /\ tabla' \in [Indices -> NodoTipo] /\ local'[c].nodo \in Indices
        /\ local' \in [Conexiones -> LocalTipo]
    BY <1>1, <1>2, <1>3 DEF SacTipo
  <2>2. "desapuntar" \in DeDatos /\ "desapuntar" \notin DeEscribir
    BY DEF DeDatos, DeVaciar, DeEscribir
  <2>3. QED
    BY <1>1, <1>2, <1>4, <1>11, <2>1, <2>2, SigueConDatos
<1>13. Recorre(c)'
  <2>1. \A p \in Pis, j \in 0..Celdas : Pos(p, j) < local'[c].cursor => En(Nodo(c), p, j)' = 0
    <3>1. \A p \in Pis, j \in 0..Celdas : Pos(p, j) < n => En(i, p, j) = 0
      BY <1>3, <1>4, <1>5 DEF EnBucle
    <3>2. \A p \in Pis, j \in 0..Celdas : Pos(p, j) < n => En(i, p, j)' = 0
      BY <1>11, <3>1
    <3>3. Nodo(c)' = i /\ local'[c].cursor = n
      BY <1>2, <1>3, <1>5, <1>8
    <3>4. QED
      BY <3>2, <3>3 DEF En, BPD, BloqueDato
  <2>2. local'[c].cursor = n /\ local[c].cursor = n
    BY <1>2, <1>5
  <2>3. ~AlFinal(n) => disco[AlCursor(c)] = Vacio
    BY <1>2, <1>4, <2>2 DEF EnBucle
  <2>4. EnBucle(c)'
    BY <1>2, <1>7, <1>8, <1>9, <2>1, <2>2, <2>3 DEF EnBucle
  <2>5. QED
    BY <1>8, <2>4 DEF Recorre, DeVaciar
<1>14. BloquesInv'
  BY <1>0, <1>11, <1>12, <1>13, Junta
<1>15. QED
  BY <1>2, <1>14 DEF SoloDe

(* A pointer is cleared, at the end of its block. *)
LEMMA BorrarPunteroInv ==
  ASSUME Hipotesis, BloquesInv, NEW c \in Conexiones, LimpiarPuntero(c) \/ (DesapuntarBloque(c) /\ AlFinal(local[c].cursor))
  PROVE  BloquesInv' /\ SoloDe(Nodo(c))
<1>0. UnMontaje
  BY DEF Hipotesis
<1>1. SacTipo /\ Sirve(c) /\ Apuntes /\ Distintos
  BY <1>0, Partes
<1>2. PICK punto \in {"limpiar", "vaciar"} : Ir(c, punto)
  BY DEF LimpiarPuntero, DesapuntarBloque
<1>3. /\ pc[c] \in {"limpiar_puntero", "desapuntar"} /\ pc[c] \in DeVaciar /\ Sale(c)
      /\ UNCHANGED <<disco, dicc, bitarray, mutexDicc>> /\ Avanzar(c, local[c].cursor + 1)
      /\ Apuntar(Nodo(c), PosPIS(local[c].cursor), 0)
  BY DEF LimpiarPuntero, DesapuntarBloque, Sale, Esta, DeVaciar, enMemoria
<1>4. PICK i \in Indices : i = Nodo(c) /\ i = local[c].nodo
  BY <1>3, PuntosDeVaciar
<1>5. EnBucle(c) /\ pedido[c] # Nada
  BY <1>3, PuntosDeVaciar
<1>6. PICK n \in Posiciones : n = local[c].cursor
  BY <1>3, <1>5 DEF EnBucle
<1>7. AlFinal(n) /\ n \in Nat /\ AlCursor(c) # 0
  <2>1. CASE LimpiarPuntero(c)
    BY <1>3, <1>5, <1>6, <2>1, CamposDePosicion DEF EnBucle, LimpiarPuntero, Esta
  <2>2. CASE DesapuntarBloque(c) /\ AlFinal(local[c].cursor)
    BY <1>3, <1>5, <1>6, <2>2, CamposDePosicion DEF EnBucle
  <2>3. QED
    BY <2>1, <2>2
<1>8. PICK p \in Pis : p = PosPIS(n) /\ PosEntrada(n) = Celdas /\ n = Pos(p, Celdas)
  BY <1>6, <1>7, CamposDePosicion DEF AlFinal
<1>9. \A j \in Celda : En(i, p, j) = 0
  <2>1. \A q \in Pis, j \in 0..Celdas : Pos(q, j) < n => En(i, q, j) = 0
    BY <1>4, <1>5, <1>6 DEF EnBucle
  <2>2. QED
    BY <1>8, <2>1, CeldasAntes, Medidas
<1>10. PICK b \in {0} \cup Datos : b = 0
  OBVIOUS
<1>11. Cambia(i, PosPIS(n), PosEntrada(n), b) /\ tabla' \in [Indices -> NodoTipo]
  BY <1>1, <1>3, <1>4, <1>6, <1>8, <1>9, <1>10, CambiaPuntero
<1>12. PICK x \in Datos : x = AlCursor(c) /\ x = BPD(i, p)
  <2>1. AlCursor(c) = BPD(i, p)
    BY <1>4, <1>6, <1>7, <1>8 DEF AlCursor, BloqueEn
  <2>2. BPD(i, p) \in {0} \cup Datos
    BY <1>1, Medidas DEF Apuntes, En
  <2>3. QED
    BY <1>7, <2>1, <2>2
<1>13. disco[x] = Vacio
  <2>1. disco[x] \in [Celda -> Nat]
    BY <1>1 DEF SacTipo
  <2>2. ASSUME NEW j \in Celda PROVE disco[x][j] = 0
    BY <1>9, <1>12, Medidas DEF En, BloqueDato
  <2>3. QED
    BY <2>1, <2>2 DEF Vacio, Celda
<1>14. pc'[c] = punto
  BY <1>1, <1>2 DEF Ir, SacTipo
<1>15. /\ Apuntes' /\ Distintos' /\ Limpios' /\ MarcasDe(c)' /\ Toma(c)' /\ Recorre(c)'
       /\ (BitmapInicial \subseteq bitarray)' /\ bitarray' \subseteq 0..(Bits - 1)
       /\ local' \in [Conexiones -> LocalTipo] /\ local'[c].nodo \in Indices
  <2>1. disco'[AlCursor(c)] = Vacio
    BY <1>3, <1>12, <1>13
  <2>2. QED
    BY <1>0, <1>3, <1>4, <1>6, <1>10, <1>11, <1>14, <2>1, SinLugar
<1>16. SacTipo' /\ Sirve(c)'
  <2>1. disco' \in [Datos -> [Celda -> Nat]] /\ mutexDicc' \in Conexiones \cup {Nada}
    BY <1>1, <1>3 DEF SacTipo
  <2>2. punto \in DeDatos /\ punto \notin DeEscribir
    BY DEF DeDatos, DeVaciar, DeEscribir
  <2>3. QED
    BY <1>1, <1>2, <1>3, <1>5, <1>11, <1>15, <2>1, <2>2, SigueConDatos
<1>17. BloquesInv'
  BY <1>0, <1>15, <1>16, Junta
<1>18. \A k \in Indices : k # i => tabla'[k].punteros = tabla[k].punteros
  BY <1>3, <1>4 DEF Apuntar
<1>19. QED
  BY <1>3, <1>4, <1>17, <1>18 DEF SoloDe

(* A cell is cleared, and its block is full of zeros by then. *)
LEMMA BorrarCeldaInv ==
  ASSUME Hipotesis, BloquesInv, NEW c \in Conexiones, LimpiarDato(c) \/ (DesapuntarBloque(c) /\ ~AlFinal(local[c].cursor))
  PROVE  BloquesInv' /\ SoloDe(Nodo(c))
<1>0. UnMontaje
  BY DEF Hipotesis
<1>1. SacTipo /\ Sirve(c) /\ Apuntes /\ Distintos
  BY <1>0, Partes
<1>2. PICK punto \in {"limpiar", "vaciar"} : Ir(c, punto)
  BY DEF LimpiarDato, DesapuntarBloque
<1>3. /\ pc[c] \in {"limpiar_dato", "desapuntar"} /\ pc[c] \in DeVaciar /\ Sale(c)
      /\ UNCHANGED <<tabla, dicc, bitarray, mutexDicc>> /\ Avanzar(c, local[c].cursor + 1)
  BY DEF LimpiarDato, DesapuntarBloque, Sale, Esta, DeVaciar, enMemoria
<1>4. PICK i \in Indices : i = Nodo(c) /\ i = local[c].nodo
  BY <1>3, PuntosDeVaciar
<1>5. EnBucle(c) /\ pedido[c] # Nada
  BY <1>3, PuntosDeVaciar
<1>6. PICK n \in Posiciones : n = local[c].cursor
  BY <1>3, <1>5 DEF EnBucle
<1>7. ~AlFinal(n) /\ AlCursor(c) # 0
  <2>1. CASE LimpiarDato(c)
    BY <1>3, <1>5, <1>6, <2>1 DEF EnBucle, LimpiarDato, Esta
  <2>2. CASE DesapuntarBloque(c) /\ ~AlFinal(local[c].cursor)
    BY <1>3, <1>5, <1>6, <2>2 DEF EnBucle
  <2>3. QED
    BY <2>1, <2>2
<1>8. PICK p \in Pis, j \in Celda : p = PosPIS(n) /\ j = PosEntrada(n)
  <2>1. PosPIS(n) \in Pis /\ PosEntrada(n) \in 0..Celdas /\ PosEntrada(n) # Celdas
    BY <1>6, <1>7, CamposDePosicion DEF AlFinal
  <2>2. PosEntrada(n) \in Celda
    BY <2>1, Medidas DEF Celda
  <2>3. QED
    BY <2>1, <2>2
<1>9. AlCursor(c) = BloqueDato(i, p, j)
  BY <1>4, <1>6, <1>7, <1>8 DEF AlCursor, BloqueEn
<1>10. PICK x \in Datos, y \in Datos : x = AlCursor(c) /\ y = BPD(i, p)
  BY <1>1, <1>7, <1>9, DatoNoEsBPD
<1>11. x # y /\ x = BloqueDato(i, p, j) /\ \A k \in Indices, q \in Pis : BPD(k, q) # x
  BY <1>1, <1>7, <1>9, <1>10, DatoNoEsBPD
<1>12. PICK b \in {0} \cup Datos : b = 0
  OBVIOUS
<1>13. disco \in [Datos -> [Celda -> Nat]]
  BY <1>1 DEF SacTipo
<1>14. /\ disco' \in [Datos -> [Celda -> Nat]] /\ disco'[y] = [disco[y] EXCEPT ![j] = b] /\ disco'[x] = Vacio
       /\ \A z \in Datos : z # x /\ z # y => disco'[z] = disco[z]
  <2>1. CASE LimpiarDato(c)
    <3>1. disco' = [disco EXCEPT ![x] = Vacio, ![y][j] = 0]
      BY <1>4, <1>6, <1>7, <1>8, <1>9, <1>10, <2>1 DEF LimpiarDato, AlCursor
    <3> DEFINE d == [disco EXCEPT ![x] = Vacio]
    <3>2. d \in [Datos -> [Celda -> Nat]] /\ d[x] = Vacio /\ \A z \in Datos : z # x => d[z] = disco[z]
      BY <1>13, Medidas
    <3>3. disco' = [d EXCEPT ![y][j] = b]
      BY <1>12, <3>1
    <3> HIDE DEF d
    <3>4. b \in Nat
      BY <1>12
    <3>5. disco' \in [Datos -> [Celda -> Nat]]
      BY <3>2, <3>3, <3>4
    <3>6. disco'[y] = [d[y] EXCEPT ![j] = b] /\ \A z \in Datos : z # y => disco'[z] = d[z]
      BY <3>2, <3>3
    <3>7. QED
      BY <1>11, <3>2, <3>5, <3>6
  <2>2. CASE DesapuntarBloque(c) /\ ~AlFinal(local[c].cursor)
    <3>1. disco' = [disco EXCEPT ![y][j] = b]
      BY <1>4, <1>6, <1>8, <1>10, <1>12, <2>2 DEF DesapuntarBloque, Desapuntar
    <3>2. disco[x] = Vacio
      <4>1. pc[c] = "desapuntar"
        BY <2>2 DEF DesapuntarBloque, Esta
      <4>2. QED
        BY <1>5, <1>6, <1>7, <1>10, <4>1 DEF EnBucle
    <3>3. b \in Nat
      BY <1>12
    <3>4. disco' \in [Datos -> [Celda -> Nat]]
      BY <1>13, <3>1, <3>3
    <3>5. disco'[y] = [disco[y] EXCEPT ![j] = b] /\ \A z \in Datos : z # y => disco'[z] = disco[z]
      BY <1>13, <3>1
    <3>6. QED
      BY <1>11, <3>2, <3>4, <3>5
  <2>3. QED
    BY <2>1, <2>2
<1>15. Cambia(i, PosPIS(n), PosEntrada(n), b)
  <2>1. \A k \in Indices, q \in Pis :
          BPD(k, q) # 0 /\ BPD(k, q) # y => disco'[BPD(k, q)] = disco[BPD(k, q)]
    BY <1>1, <1>11, <1>14, Medidas DEF Apuntes, En
  <2>2. y # 0 /\ b = 0 /\ tabla' = tabla
    BY <1>3, <1>12, Medidas
  <2>3. Cambia(i, p, j, b)
    BY <1>1, <1>10, <1>14, <2>1, <2>2, CambiaCelda
  <2>4. QED
    BY <1>8, <2>3
<1>16. \E q \in Pis, h \in 0..Celdas : En(i, q, h) = y
  BY <1>10, Medidas DEF En
<1>17. \E q \in Pis, h \in 0..Celdas : En(i, q, h) = x
  BY <1>1, <1>7, <1>9, <1>10, DatoNoEsBPD, Medidas
<1>18. pc'[c] = punto
  BY <1>1, <1>2 DEF Ir, SacTipo
<1>19. /\ Apuntes' /\ Distintos' /\ Limpios' /\ MarcasDe(c)' /\ Toma(c)' /\ Recorre(c)'
       /\ (BitmapInicial \subseteq bitarray)' /\ bitarray' \subseteq 0..(Bits - 1)
       /\ local' \in [Conexiones -> LocalTipo] /\ local'[c].nodo \in Indices
  <2>1. disco'[AlCursor(c)] = Vacio
    BY <1>10, <1>14
  <2>2. \A z \in Datos : ~Referido(z) => disco'[z] = disco[z]
    BY <1>14, <1>16, <1>17 DEF Referido
  <2>3. QED
    BY <1>0, <1>3, <1>4, <1>6, <1>12, <1>15, <1>18, <2>1, <2>2, SinLugar
<1>20. SacTipo' /\ Sirve(c)'
  <2>1. tabla' \in [Indices -> NodoTipo] /\ mutexDicc' \in Conexiones \cup {Nada}
    BY <1>1, <1>3 DEF SacTipo
  <2>2. punto \in DeDatos /\ punto \notin DeEscribir
    BY DEF DeDatos, DeVaciar, DeEscribir
  <2>3. QED
    BY <1>1, <1>2, <1>3, <1>5, <1>14, <1>19, <2>1, <2>2, SigueConDatos
<1>21. BloquesInv'
  BY <1>0, <1>19, <1>20, Junta
<1>22. QED
  BY <1>3, <1>4, <1>14, <1>16, <1>17, <1>21 DEF SoloDe

(* The next block of a truncation: one of data is filled with zeros. *)
LEMMA VaciarInv ==
  ASSUME Hipotesis, BloquesInv, NEW c \in Conexiones, VaciarDato(c) \/ VaciarPuntero(c)
  PROVE  BloquesInv' /\ SoloDe(Nodo(c))
<1>0. UnMontaje
  BY DEF Hipotesis
<1>1. SacTipo /\ Sirve(c) /\ Apuntes /\ Distintos /\ Limpios /\ MarcasDe(c) /\ BitmapInicial \subseteq bitarray
  BY <1>0, Partes
<1>2. PICK m : m = Proximo(c)
  OBVIOUS
<1>3. /\ pc[c] = "vaciar" /\ pc[c] \in DeVaciar /\ UNCHANGED <<tabla, dicc, bitarray, mutexDicc>>
      /\ Avanzar(c, m) /\ Ir(c, "soltar") /\ Vaciando(c, "vaciar")
  BY <1>2 DEF VaciarDato, VaciarPuntero, Vaciando, Esta, DeVaciar, enDisco, enMemoria, discoVars
<1>4. PICK i \in Indices : i = Nodo(c) /\ i = local[c].nodo
  BY <1>3, PuntosDeVaciar
<1>5. /\ m \in Posiciones /\ m \in Nat /\ PosPIS(m) \in Pis /\ PosEntrada(m) \in 0..Celdas
      /\ \A p \in Pis, j \in 0..Celdas : Pos(p, j) < m => En(i, p, j) = 0
  BY <1>2, <1>3, <1>4, ProximoBloque
<1>6. PICK b \in Datos : b = BloqueEn(i, m) /\ b # 0 /\ b = En(i, PosPIS(m), PosEntrada(m)) /\ Referido(b)
  BY <1>2, <1>3, <1>4, ProximoBloque
<1>7. local' \in [Conexiones -> LocalTipo] /\ local'[c].cursor = m /\ local'[c].nodo = i /\ Nodo(c)' = i
  BY <1>1, <1>3, <1>4, <1>5, AvanzaCursor
<1>8. disco \in [Datos -> [Celda -> Nat]]
  BY <1>1 DEF SacTipo
<1>9. /\ disco' \in [Datos -> [Celda -> Nat]] /\ \A x \in Datos : x # b => disco'[x] = disco[x]
      /\ ~AlFinal(m) => disco'[b] = Vacio
      /\ \A k \in Indices, q \in Pis : BPD(k, q) # 0 => disco'[BPD(k, q)] = disco[BPD(k, q)]
  <2>1. CASE VaciarPuntero(c)
    <3>1. disco' = disco /\ AlFinal(m)
      BY <1>2, <2>1 DEF VaciarPuntero, discoVars, enDisco
    <3>2. QED
      BY <1>8, <3>1
  <2>2. CASE VaciarDato(c)
    <3>1. disco' = [disco EXCEPT ![b] = Vacio] /\ ~AlFinal(m)
      BY <1>2, <1>4, <1>6, <2>2 DEF VaciarDato, EnCero
    <3>2. disco' \in [Datos -> [Celda -> Nat]] /\ disco'[b] = Vacio /\ \A x \in Datos : x # b => disco'[x] = disco[x]
      BY <1>8, <3>1, Medidas
    <3>3. PosEntrada(m) \in Celda /\ b = BloqueDato(i, PosPIS(m), PosEntrada(m))
      BY <1>5, <1>6, <3>1, Medidas DEF AlFinal, En, Celda
    <3>4. \A k \in Indices, q \in Pis : BPD(k, q) # b
      BY <1>1, <1>5, <1>6, <3>3, DatoNoEsBPD
    <3>5. \A k \in Indices, q \in Pis : BPD(k, q) # 0 => BPD(k, q) \in Datos
      BY <1>1, Medidas DEF Apuntes, En
    <3>6. QED
      BY <3>2, <3>4, <3>5
  <2>3. QED
    BY <2>1, <2>2
<1>10. \A k \in Indices, p \in Pis, j \in 0..Celdas : En(k, p, j)' = En(k, p, j)
  BY <1>3, <1>9, SinTocarBPD
<1>11. Apuntes' /\ Distintos' /\ \A x : Referido(x)' <=> Referido(x)
  BY <1>1, <1>10, MismosApuntes
<1>12. Limpios'
  BY <1>1, <1>6, <1>9, <1>11 DEF Limpios
<1>13. SacTipo' /\ Sirve(c)' /\ pc'[c] = "soltar"
  <2>1. /\ bitarray' \subseteq 0..(Bits - 1) /\ mutexDicc' \in Conexiones \cup {Nada}
        /\ tabla' \in [Indices -> NodoTipo] /\ local'[c].nodo \in Indices
    BY <1>1, <1>3, <1>7 DEF SacTipo
  <2>2. "soltar" \in DeDatos /\ "soltar" \notin DeEscribir /\ pedido[c] # Nada
    BY <1>3, PuntosDeVaciar DEF DeDatos, DeVaciar, DeEscribir
  <2>3. QED
    BY <1>1, <1>3, <1>7, <1>9, <2>1, <2>2, SigueConDatos
<1>14. ~Entra(c) /\ ~Sale(c) /\ ~Entra(c)' /\ ~Sale(c)' /\ Toma(c)'
  BY <1>3, <1>13 DEF Entra, Sale, Toma
<1>15. MarcasDe(c)' /\ (BitmapInicial \subseteq bitarray)'
  BY <1>1, <1>3, <1>11, <1>14 DEF MarcasDe
<1>16. AlCursor(c)' = b
  <2>1. BloqueEn(i, m)' = En(i, PosPIS(m), PosEntrada(m))'
    BY <1>5 DEF BloqueEn, AlFinal, En
  <2>2. BloqueEn(i, m)' = b
    BY <1>5, <1>6, <1>10, <2>1
  <2>3. QED
    BY <1>7, <2>2 DEF AlCursor, BloqueEn, BPD, BloqueDato
<1>17. Recorre(c)'
  <2>1. \A p \in Pis, j \in 0..Celdas : Pos(p, j) < local'[c].cursor => En(Nodo(c), p, j)' = 0
    BY <1>5, <1>7, <1>10 DEF En, BPD, BloqueDato
  <2>2. ~AlFinal(local'[c].cursor) => disco'[AlCursor(c)'] = Vacio
    BY <1>7, <1>9, <1>16
  <2>3. local'[c].cursor \in Posiciones /\ AlCursor(c)' # 0
    BY <1>5, <1>6, <1>7, <1>16
  <2>4. EnBucle(c)'
    BY <1>13, <2>1, <2>2, <2>3 DEF EnBucle
  <2>5. QED
    BY <1>13, <2>4 DEF Recorre, DeVaciar
<1>18. BloquesInv'
  BY <1>0, <1>11, <1>12, <1>13, <1>14, <1>15, <1>17, Junta
<1>19. QED
  BY <1>3, <1>4, <1>5, <1>6, <1>9, <1>18 DEF SoloDe

LEMMA UnlinkInv ==
  ASSUME Hipotesis, BloquesInv, NEW c \in Conexiones, Unlink(c) \/ Truncate(c)
  PROVE  BloquesInv' /\ SoloDe(Nodo(c))
  BY EmpezarUnlinkInv, TomarUnlinkInv, LimpiarSueltaInv, BorrarCeldaInv, BorrarPunteroInv, TerminarInv,
     EmpezarTruncateInv, VaciarInv, SoltarBloqueInv DEF Unlink, Truncate

LEMMA AtenderDatosInv ==
  ASSUME Hipotesis, BloquesInv, NEW c \in Conexiones, AtenderDatos(c)
  PROVE  BloquesInv' /\ SoloDe(Nodo(c))
  BY WriteInv, UnlinkInv DEF AtenderDatos

-----------------------------------------------------------------------------
(* The server, and what it is in every state.                                *)

(* A request arrives. *)
LEMMA PedirInv ==
  ASSUME UnMontaje, BloquesInv, NEW c \in Conexiones, Pedir(c)
  PROVE  BloquesInv'
<1>1. SacTipo /\ Recorre(c)
  BY DEF BloquesInv
<1>2. /\ UNCHANGED <<tabla, disco, dicc, bitarray, mutexDicc, pc, local>> /\ pc[c] = "libre"
      /\ respuesta' = [respuesta EXCEPT ![c] = ""]
  BY DEF Pedir, discoVars, enDisco, enMemoria
<1>3. PICK r \in Pedibles[c] : pedido' = [pedido EXCEPT ![c] = r]
  BY DEF Pedir
<1>4. r \in TodoPedido
  BY DEF TodoPedido
<1>5. pedido' \in [Conexiones -> TodoPedido] /\ pedido'[c] = r
  BY <1>1, <1>3, <1>4 DEF SacTipo
<1>6. respuesta' \in [Conexiones -> {"", "ok", "error"}]
  BY <1>1, <1>2 DEF SacTipo
<1>7. SacTipo'
  BY <1>1, <1>2, <1>5, <1>6 DEF SacTipo
<1>8. pc'[c] = "libre" /\ ~Entra(c) /\ ~Sale(c) /\ ~Entra(c)' /\ ~Sale(c)' /\ Toma(c)'
  BY <1>2 DEF Entra, Sale, Toma
<1>9. Sirve(c)'
  BY <1>5, <1>8 DEF Sirve, DeCrear, DeRenombrar, DeEscribir, DeVaciar
<1>10. Recorre(c)'
  BY <1>1, <1>2 DEF Recorre, DeVaciar
<1>11. QED
  BY <1>2, <1>7, <1>8, <1>9, <1>10, QuietaInv

LEMMA QuietoInv ==
  ASSUME UnMontaje, BloquesInv, UNCHANGED vars
  PROVE  BloquesInv'
<1>1. UNCHANGED <<tabla, disco, dicc, bitarray, mutexDicc, pedido, respuesta, pc, local>>
  BY DEF vars, discoVars, enDisco, enMemoria, atencionVars
<1>2. \A i, p, j : En(i, p, j)' = En(i, p, j)
  BY <1>1 DEF En, BPD, BloqueDato
<1>3. Apuntes' /\ Distintos' /\ \A b : Referido(b)' <=> Referido(b)
  BY <1>2, MismosApuntes DEF BloquesInv
<1>4. \A c \in Conexiones : AlCursor(c)' = AlCursor(c)
  BY <1>1 DEF AlCursor, BloqueEn, BPD, BloqueDato, Nodo
<1>5. SacTipo' /\ Limpios' /\ (BitmapInicial \subseteq bitarray)'
  BY <1>1, <1>3 DEF BloquesInv, SacTipo, Limpios
<1>6. Marcas'
  BY <1>1, <1>3, <1>4 DEF BloquesInv, Marcas, Entra, Sale
<1>7. ASSUME NEW c \in Conexiones PROVE Sirve(c)' /\ Toma(c)' /\ Recorre(c)'
  <2>1. Sirve(c) /\ Toma(c) /\ Recorre(c)
    BY DEF BloquesInv
  <2>2. Sirve(c)'
    BY <1>1, <2>1 DEF Sirve, Nodo
  <2>3. Toma(c)'
    BY <1>1, <1>3, <2>1 DEF Toma, Entra, Nodo, BPD, BloqueDato, PIS, Entrada
  <2>4. Recorre(c)'
    BY <1>1, <1>2, <1>4, <2>1 DEF Recorre, EnBucle, Nodo
  <2>5. QED
    BY <2>2, <2>3, <2>4
<1>8. QED
  BY <1>3, <1>5, <1>6, <1>7 DEF BloquesInv

LEMMA BloquesSePreserva ==
  ASSUME Hipotesis, BloquesInv, [Next]_vars
  PROVE  BloquesInv'
<1>0. UnMontaje /\ Reinicia = "nunca"
  BY DEF Hipotesis, UnMontaje
<1>1. CASE UNCHANGED vars
  BY <1>0, <1>1, QuietoInv
<1>2. CASE Next
  <2>1. ~Reiniciar
    BY <1>0 DEF Reiniciar
  <2>2. PICK c \in Conexiones : Pedir(c) \/ AtenderCliente(c)
    BY <1>2, <2>1 DEF Next
  <2>3. QED
    BY <1>0, <2>2, PedirInv, AtenderNodoInv, AtenderArbolInv, AtenderDatosInv DEF AtenderCliente
<1>3. QED
  BY <1>1, <1>2

LEMMA BloquesInvariante == Hipotesis => (Spec => []BloquesInv)
<1> SUFFICES ASSUME Hipotesis PROVE Spec => []BloquesInv
  OBVIOUS
<1>1. Init => BloquesInv
  BY BloquesInicial
<1>2. BloquesInv /\ [Next]_vars => BloquesInv'
  BY BloquesSePreserva
<1>3. QED
  BY <1>1, <1>2, PTL DEF Spec

(* What the references of the property are. *)
LEMMA ReferidosSon ==
  ASSUME Apuntes
  PROVE  Referidos \subseteq Datos /\ \A b \in Datos : b \in Referidos <=> Referido(b)
<1>1. ASSUME NEW b \in Referidos PROVE b \in Datos /\ Referido(b)
  <2>1. PICK i \in Indices, n \in Posiciones : BloqueEn(i, n) # 0 /\ b = BloqueEn(i, n)
    BY <1>1 DEF Referidos, Referencias
  <2>2. PosPIS(n) \in Pis /\ PosEntrada(n) \in 0..Celdas
    BY CamposDePosicion
  <2>3. b = En(i, PosPIS(n), PosEntrada(n))
    BY <2>1, EnPosicion
  <2>4. QED
    BY <2>1, <2>2, <2>3 DEF Apuntes, Referido
<1>2. ASSUME NEW b \in Datos, Referido(b) PROVE b \in Referidos
  <2>1. PICK i \in Indices, p \in Pis, j \in 0..Celdas : En(i, p, j) = b
    BY <1>2 DEF Referido
  <2>2. Pos(p, j) \in Posiciones /\ BloqueEn(i, Pos(p, j)) = b
    BY <2>1, PosicionDe, EnPosicion
  <2>3. b # 0
    BY Medidas
  <2>4. <<i, Pos(p, j)>> \in Referencias
    BY <2>2, <2>3 DEF Referencias
  <2>5. BloqueEn(<<i, Pos(p, j)>>[1], <<i, Pos(p, j)>>[2]) = b
    BY <2>2
  <2>6. QED
    BY <2>4, <2>5 DEF Referidos
<1>3. QED
  BY <1>1, <1>2

(* With nothing being served the mark of a block is that it is used. *)
LEMMA MarcasEnReposo ==
  ASSUME BloquesInv, Reposo
  PROVE  \A b \in Datos : b \in bitarray <=> Referido(b)
<1>1. \A c \in Conexiones : pc[c] \in {"libre", "colgado"}
  BY DEF BloquesInv, Sirve, Reposo
<1>2. \A c \in Conexiones : ~Entra(c) /\ ~Sale(c)
  BY <1>1 DEF Entra, Sale
<1>3. QED
  BY <1>2 DEF BloquesInv, Marcas

(* For one mount that is not restarted, no block belongs to two files, or twice *)
(* to one, whatever the writes, truncations and removals that were served      *)
(* (dame_un_bloque_libre, _write, limpiar_nodo, desasignar_bloques).            *)
THEOREM BloquesSinCompartirConUno == Hipotesis => (Spec => []BloquesSinCompartir)
<1> SUFFICES ASSUME Hipotesis PROVE Spec => []BloquesSinCompartir
  OBVIOUS
<1>1. BloquesInv => BloquesSinCompartir
  <2> SUFFICES ASSUME BloquesInv, NEW x \in Referencias, NEW y \in Referencias,
                      BloqueEn(x[1], x[2]) = BloqueEn(y[1], y[2])
               PROVE  x = y
    BY DEF BloquesSinCompartir
  <2>1. PICK i \in Indices, n \in Posiciones : x = <<i, n>> /\ BloqueEn(i, n) # 0
    BY DEF Referencias
  <2>2. PICK k \in Indices, m \in Posiciones : y = <<k, m>> /\ BloqueEn(k, m) = BloqueEn(i, n)
    BY <2>1 DEF Referencias
  <2>3. PICK p \in Pis, j \in 0..Celdas : n = Pos(p, j) /\ BloqueEn(i, n) = En(i, p, j)
    BY CamposDePosicion, EnPosicion
  <2>4. PICK q \in Pis, h \in 0..Celdas : m = Pos(q, h) /\ BloqueEn(k, m) = En(k, q, h)
    BY CamposDePosicion, EnPosicion
  <2>5. En(i, p, j) = En(k, q, h) /\ En(i, p, j) # 0 /\ Distintos
    BY <2>1, <2>2, <2>3, <2>4 DEF BloquesInv
  <2>6. i = k /\ p = q /\ j = h
    BY <2>5 DEF Distintos
  <2>7. QED
    BY <2>1, <2>2, <2>3, <2>4, <2>6
<1>2. QED
  BY <1>1, BloquesInvariante, PTL

(* For one mount that is not restarted, when nothing is being served the bitmap *)
(* has exactly the blocks before the data and those of the files: none is lost *)
(* and none is given twice.                                                     *)
THEOREM BitmapExactoConUno == Hipotesis => (Spec => []BitmapExacto)
<1> SUFFICES ASSUME Hipotesis PROVE Spec => []BitmapExacto
  OBVIOUS
<1>1. BloquesInv => BitmapExacto
  <2> SUFFICES ASSUME BloquesInv, Reposo PROVE bitarray = BitmapInicial \cup Referidos
    BY DEF BitmapExacto
  <2>1. bitarray \subseteq 0..(Bits - 1) /\ BitmapInicial \subseteq bitarray /\ Apuntes
    BY DEF BloquesInv, SacTipo
  <2>2. \A b \in Datos : b \in bitarray <=> b \in Referidos
    BY <2>1, MarcasEnReposo, ReferidosSon
  <2>3. Referidos \subseteq Datos
    BY <2>1, ReferidosSon
  <2>4. QED
    BY <2>1, <2>2, <2>3, Medidas
<1>2. QED
  BY <1>1, BloquesInvariante, PTL

(* For one mount that is not restarted, when nothing is being served a free     *)
(* block is full of zeros: truncation and removal clean what they give back,    *)
(* blocks of data and blocks of pointers.                                       *)
THEOREM LibresEnCeroConUno == Hipotesis => (Spec => []LibresEnCero)
<1> SUFFICES ASSUME Hipotesis PROVE Spec => []LibresEnCero
  OBVIOUS
<1>1. BloquesInv => LibresEnCero
  BY MarcasEnReposo DEF LibresEnCero, BloquesInv, Limpios
<1>2. QED
  BY <1>1, BloquesInvariante, PTL

(* The bytes of a block follow each other. *)
LEMMA BytesSeguidos ==
  ASSUME NEW n \in 0..(Capacidad - 1), IndiceByte(n) = 0, NEW k \in Celda
  PROVE  /\ n + k \in 0..(Capacidad - 1)
         /\ IndicePIS(n + k) = IndicePIS(n) /\ IndiceBloque(n + k) = IndiceBloque(n) /\ IndiceByte(n + k) = k
<1> DEFINE d == Celdas * Celdas
           p == IndicePIS(n)
           j == IndiceBloque(n)
           r == j * Celdas + k
<1>1. Celdas \in Nat \ {0} /\ Punteros \in Nat \ {0} /\ d \in Nat \ {0} /\ k \in 0..(Celdas - 1)
  BY Medidas DEF Celda
<1>2. p \in Pis /\ j \in Celda /\ n = p * d + (j * Celdas + 0)
  BY DesplazamientoDe
<1>3. p \in Nat /\ p + 1 \in Nat /\ p + 1 <= Punteros /\ j \in Nat /\ j + 1 \in Nat /\ j + 1 <= Celdas
  BY <1>1, <1>2 DEF Pis, Celda
<1>4. Capacidad = Punteros * d
  BY <1>1 DEF Capacidad
<1>5. d = Celdas * Celdas /\ r = j * Celdas + k
  OBVIOUS
<1> HIDE DEF d, p, j, r
<1>6. (j + 1) * Celdas <= Celdas * Celdas /\ j * Celdas \in Nat /\ (j + 1) * Celdas = j * Celdas + Celdas
  BY <1>1, <1>3, Crece
<1>7. r \in 0..(d - 1)
  BY <1>1, <1>5, <1>6
<1>8. (p + 1) * d <= Punteros * d /\ p * d \in Nat /\ Punteros * d \in Nat
  BY <1>1, <1>3, Crece
<1>9. (p + 1) * d = p * d + d
  BY <1>1, <1>3
<1>10. n + k = p * d + r
  BY <1>1, <1>2, <1>3, <1>5, <1>6, <1>8
<1>11. n + k \in 0..(Capacidad - 1)
  BY <1>1, <1>4, <1>7, <1>8, <1>9, <1>10
<1>12. (n + k) \div d = p /\ (n + k) % d = r
  <2>1. (p * d + r) \div d = p /\ (p * d + r) % d = r
    BY <1>1, <1>3, <1>7, DivisionUnica
  <2>2. QED
    BY <1>10, <2>1
<1>13. r \div Celdas = j /\ r % Celdas = k
  <2>1. (j * Celdas + k) \div Celdas = j /\ (j * Celdas + k) % Celdas = k
    BY <1>1, <1>3, DivisionUnica
  <2>2. QED
    BY <1>5, <2>1
<1>14. IndicePIS(n + k) = p /\ IndiceBloque(n + k) = j /\ IndiceByte(n + k) = k
  BY <1>5, <1>12, <1>13 DEF IndicePIS, IndiceBloque, IndiceByte
<1>15. QED
  BY <1>11, <1>14 DEF p, j

-----------------------------------------------------------------------------
(* Nobody writes the file of another.                                        *)

LEMMA MismoContenido ==
  ASSUME Apuntes, Distintos, NEW i \in Indices, NEW k \in Indices, k # i, SoloDe(i)
  PROVE  Contenido(k)' = Contenido(k)
<1>1. tabla'[k].punteros = tabla[k].punteros
  BY DEF SoloDe
<1>2. ASSUME NEW p \in Pis, NEW j \in 0..Celdas, En(k, p, j) # 0
      PROVE  disco'[En(k, p, j)] = disco[En(k, p, j)]
  <2>1. En(k, p, j) \in Datos
    BY <1>2 DEF Apuntes
  <2>2. \A q \in Pis, h \in 0..Celdas : En(i, q, h) # En(k, p, j)
    BY <1>2 DEF Distintos
  <2>3. QED
    BY <2>1, <2>2 DEF SoloDe
<1>3. ASSUME NEW p \in Pis, NEW j \in Celda
      PROVE  /\ BloqueDato(k, p, j)' = BloqueDato(k, p, j)
             /\ BloqueDato(k, p, j) \in Datos => disco'[BloqueDato(k, p, j)] = disco[BloqueDato(k, p, j)]
  <2>1. BPD(k, p)' = BPD(k, p) /\ (BPD(k, p) # 0 => disco'[BPD(k, p)] = disco[BPD(k, p)])
    BY <1>1, <1>2, Medidas DEF En, BPD
  <2>2. BloqueDato(k, p, j)' = BloqueDato(k, p, j)
    BY <2>1 DEF BloqueDato
  <2>3. BloqueDato(k, p, j) \in Datos => disco'[BloqueDato(k, p, j)] = disco[BloqueDato(k, p, j)]
    <3>1. En(k, p, j) = BloqueDato(k, p, j) /\ j \in 0..Celdas /\ 0 \notin Datos
      BY Medidas DEF En
    <3>2. QED
      BY <1>2, <3>1
  <2>4. QED
    BY <2>2, <2>3
<1>4. \A n \in 0..(Punteros * Celdas * Celdas - 1) : IndicePIS(n) \in Pis /\ IndiceBloque(n) \in Celda
  BY DesplazamientoDe DEF Capacidad
<1>5. QED
  BY <1>3, <1>4 DEF Contenido

(* The requests on nodes and on the tree leave the blocks and the pointers. *)
LEMMA NodosSinBloques ==
  ASSUME SacTipo, NEW c \in Conexiones, AtenderNodo(c)
  PROVE  UNCHANGED <<tabla, disco>>
<1>1. CASE BuscarNodo(c)
  BY <1>1 DEF BuscarNodo, discoVars, enDisco
<1>2. CASE TomarNodo(c)
  BY <1>2 DEF TomarNodo, discoVars, enDisco
<1>3. CASE NoHayNodo(c)
  BY <1>3 DEF NoHayNodo, discoVars, enDisco
<1>4. CASE NodoInvalido(c)
  BY <1>4 DEF NodoInvalido, Caer, enDisco
<1>5. CASE Contestar(c)
  BY <1>5 DEF Contestar, discoVars, enDisco
<1>6. CASE Leer(c)
  BY <1>6 DEF Leer, discoVars, enDisco
<1>7. QED
  BY <1>1, <1>2, <1>3, <1>4, <1>5, <1>6 DEF AtenderNodo

LEMMA ArbolSinBloques ==
  ASSUME SacTipo, NEW c \in Conexiones, AtenderArbol(c)
  PROVE  disco' = disco /\ \A i \in Indices : tabla'[i].punteros = tabla[i].punteros
<1>1. tabla \in [Indices -> NodoTipo]
  BY DEF SacTipo
<1>2. disco' = disco
  BY DEF AtenderArbol, Crear, Directorio, Rename, AbrirExistente, AbrirAusente, CrearExistente, CrearAusente,
         ElegirNodo, SinNodos, MarcarNodo, BuscarPadre, NombrarNodo, ApadrinarNodo, BuscarEntradas,
         NoHayDirectorio, TomarDirectorio, Listar, EmpezarRmdir, RevisarEntradas, BorrarDirectorio, Renombrar,
         RenombrarExistente, CambiarClave, CambiarNombre, discoVars, enDisco
<1>3. \/ UNCHANGED tabla \/ MarcarNodo(c) \/ NombrarNodo(c) \/ ApadrinarNodo(c) \/ BorrarDirectorio(c) \/ Renombrar(c)
  BY DEF AtenderArbol, Crear, Directorio, Rename, AbrirExistente, AbrirAusente, CrearExistente, CrearAusente,
         ElegirNodo, SinNodos, BuscarPadre, BuscarEntradas, NoHayDirectorio, TomarDirectorio, Listar, EmpezarRmdir,
         RevisarEntradas, RenombrarExistente, CambiarClave, CambiarNombre, discoVars, enDisco
<1>4. CASE UNCHANGED tabla
  BY <1>2, <1>4
<1>5. CASE MarcarNodo(c)
  BY <1>1, <1>2, <1>5 DEF MarcarNodo, NodoTipo
<1>6. CASE NombrarNodo(c) \/ Renombrar(c)
  <2>1. PICK n : tabla' = [tabla EXCEPT ![Nodo(c)].nombre = n]
    BY <1>6 DEF NombrarNodo, Renombrar
  <2>2. QED
    BY <1>1, <1>2, <2>1 DEF NodoTipo
<1>7. CASE ApadrinarNodo(c)
  BY <1>1, <1>2, <1>7 DEF ApadrinarNodo, NodoTipo
<1>8. CASE BorrarDirectorio(c)
  BY <1>1, <1>2, <1>8, NodoLiberado DEF BorrarDirectorio
<1>9. QED
  BY <1>3, <1>4, <1>5, <1>6, <1>7, <1>8

(* For one mount that is not restarted, what a file holds only changes in a     *)
(* step of the server on that very file: no write, truncation or removal        *)
(* reaches the blocks of another.                                               *)
THEOREM ContenidoAjenoConUno == Hipotesis => (Spec => ContenidoAjeno)
<1> SUFFICES ASSUME Hipotesis PROVE Spec => ContenidoAjeno
  OBVIOUS
<1> DEFINE Ajeno == \A i \in Indices : Contenido(i)' # Contenido(i) => \E c \in Conexiones : Opera(c, i)
<1>1. BloquesInv /\ [Next]_vars => [Ajeno]_vars
  <2> SUFFICES ASSUME BloquesInv, Next, NEW i \in Indices, Contenido(i)' # Contenido(i)
               PROVE  \E c \in Conexiones : Opera(c, i)
    OBVIOUS
  <2>0. SacTipo /\ Apuntes /\ Distintos /\ ~Reiniciar
    BY DEF BloquesInv, Hipotesis, UnMontaje, Reiniciar
  <2>1. PICK c \in Conexiones : Pedir(c) \/ AtenderCliente(c)
    BY <2>0 DEF Next
  <2>2. ~(UNCHANGED <<tabla, disco>>)
    BY DEF Contenido, BloqueDato, BPD
  <2>3. ~(disco' = disco /\ \A k \in Indices : tabla'[k].punteros = tabla[k].punteros)
    BY DEF Contenido, BloqueDato, BPD
  <2>4. ~Pedir(c)
    BY <2>2 DEF Pedir, discoVars, enDisco
  <2>5. AtenderDatos(c)
    BY <2>0, <2>1, <2>2, <2>3, <2>4, NodosSinBloques, ArbolSinBloques DEF AtenderCliente
  <2>6. SoloDe(Nodo(c))
    BY <2>5, AtenderDatosInv
  <2>7. pedido[c] # Nada /\ Nodo(c) \in Indices
    <3>1. pc[c] \in DeEscribir \cup DeVaciar
      BY <2>2, <2>5
         DEF AtenderDatos, Write, TomarBPD, ApuntarBPD, HayBPD, TomarDato, ApuntarDato, SinBloques, EscribirBytes,
             Unlink, EmpezarUnlink, TomarUnlink, LimpiarSuelta, LimpiarDato, LimpiarPuntero, TerminarUnlink,
             Truncate, EmpezarTruncate, NoTruncar, VaciarDato, VaciarPuntero, SoltarBloque, DesapuntarBloque,
             TerminarTruncate, Vaciando, Esta, discoVars, enDisco, DeEscribir, DeVaciar
    <3>2. Sirve(c)
      BY DEF BloquesInv
    <3>3. pc[c] \notin {"libre", "colgado"}
      BY <3>1 DEF DeEscribir, DeVaciar
    <3>4. QED
      BY <3>1, <3>2, <3>3 DEF Sirve
  <2>8. Nodo(c) = i
    BY <2>0, <2>6, <2>7, MismoContenido
  <2>9. QED
    BY <2>7, <2>8 DEF Opera
<1>2. QED
  BY <1>1, BloquesInvariante, PTL DEF Spec, ContenidoAjeno

-----------------------------------------------------------------------------
(* Types.                                                                    *)

LEMMA CaidaDeNodos ==
  ASSUME NEW c \in Conexiones, AtenderNodo(c)
  PROVE  caido' = caido \/ caido' = TRUE
  BY DEF AtenderNodo, BuscarNodo, TomarNodo, NoHayNodo, NodoInvalido, Contestar, Leer, Caer, discoVars

LEMMA CaidaDeArbol ==
  ASSUME NEW c \in Conexiones, AtenderArbol(c)
  PROVE  caido' = caido
  BY DEF AtenderArbol, Crear, Directorio, Rename, AbrirExistente, AbrirAusente, CrearExistente, CrearAusente,
         ElegirNodo, SinNodos, MarcarNodo, BuscarPadre, NombrarNodo, ApadrinarNodo, BuscarEntradas,
         NoHayDirectorio, TomarDirectorio, Listar, EmpezarRmdir, RevisarEntradas, BorrarDirectorio, Renombrar,
         RenombrarExistente, CambiarClave, CambiarNombre, discoVars

LEMMA CaidaDeDatos ==
  ASSUME NEW c \in Conexiones, AtenderDatos(c)
  PROVE  caido' = caido
  BY DEF AtenderDatos, Write, TomarBPD, ApuntarBPD, HayBPD, TomarDato, ApuntarDato, SinBloques, EscribirBytes,
         Unlink, EmpezarUnlink, TomarUnlink, LimpiarSuelta, LimpiarDato, LimpiarPuntero, TerminarUnlink,
         Truncate, EmpezarTruncate, NoTruncar, VaciarDato, VaciarPuntero, SoltarBloque, DesapuntarBloque,
         TerminarTruncate, discoVars

(* What is read is a row of bytes. *)
LeidoTipo == leido \in [Conexiones -> Seq(Nat)]

LEMMA LecturaTipo ==
  ASSUME SacTipo, NEW i \in Indices, NEW n \in 0..(Capacidad - 1), NEW largo \in Nat
  PROVE  Lectura(i, n, largo) \in Seq(Nat)
<1>1. PICK b, byte : b = BloqueDato(i, IndicePIS(n), IndiceBloque(n)) /\ byte = IndiceByte(n)
  OBVIOUS
<1>2. byte \in 0..(Celdas - 1) /\ Celdas \in Nat \ {0}
  BY <1>1, DesplazamientoDe, Medidas DEF Celda
<1>3. CASE b = 0
  <2>1. Lectura(i, n, largo) = <<0>>
    BY <1>1, <1>3 DEF Lectura
  <2>2. QED
    BY <2>1
<1>4. CASE b # 0
  <2>1. PICK m : m = Min({largo, Celdas - byte})
    OBVIOUS
  <2>2. m \in Nat /\ m <= Celdas
    <3>1. {largo, Celdas - byte} \in SUBSET Nat /\ {largo, Celdas - byte} # {}
      BY <1>2
    <3>2. m \in {largo, Celdas - byte} /\ m <= Celdas - byte
      BY <2>1, <3>1, MinimoDe
    <3>3. QED
      BY <1>2, <3>2
  <2>3. Lectura(i, n, largo) = [k \in 1..m |-> IF b + byte \in Datos THEN disco[b + byte][k - 1] ELSE 0]
    BY <1>1, <1>4, <2>1 DEF Lectura
  <2>4. \A k \in 1..m : b + byte \in Datos => disco[b + byte][k - 1] \in Nat
    <3>1. \A k \in 1..m : k - 1 \in Celda
      BY <1>2, <2>2 DEF Celda
    <3>2. QED
      BY <3>1 DEF SacTipo
  <2>5. \A k \in 1..m : (IF b + byte \in Datos THEN disco[b + byte][k - 1] ELSE 0) \in Nat
    BY <2>4
  <2>6. QED
    BY <2>2, <2>3, <2>5
<1>5. QED
  BY <1>3, <1>4

LEMMA LeidoDeNodos ==
  ASSUME NEW c \in Conexiones, AtenderNodo(c), ~Leer(c)
  PROVE  leido' = leido \/ Enviar(c, <<>>)
  BY DEF AtenderNodo, BuscarNodo, TomarNodo, NoHayNodo, NodoInvalido, Contestar, Caer, Ir, Responder, atencionVars

LEMMA LeidoDeArbol ==
  ASSUME NEW c \in Conexiones, AtenderArbol(c)
  PROVE  leido' = leido \/ Enviar(c, <<>>)
  BY DEF AtenderArbol, Crear, Directorio, Rename, AbrirExistente, AbrirAusente, CrearExistente, CrearAusente,
         ElegirNodo, SinNodos, MarcarNodo, BuscarPadre, NombrarNodo, ApadrinarNodo, BuscarEntradas,
         NoHayDirectorio, TomarDirectorio, Listar, EmpezarRmdir, RevisarEntradas, BorrarDirectorio, Renombrar,
         RenombrarExistente, CambiarClave, CambiarNombre, Ir, Responder

LEMMA LeidoDeDatos ==
  ASSUME NEW c \in Conexiones, AtenderDatos(c)
  PROVE  leido' = leido \/ Enviar(c, <<>>)
  BY DEF AtenderDatos, Write, TomarBPD, ApuntarBPD, HayBPD, TomarDato, ApuntarDato, SinBloques, EscribirBytes,
         Unlink, EmpezarUnlink, TomarUnlink, LimpiarSuelta, LimpiarDato, LimpiarPuntero, TerminarUnlink,
         Truncate, EmpezarTruncate, NoTruncar, VaciarDato, VaciarPuntero, SoltarBloque, DesapuntarBloque,
         TerminarTruncate, Ir, Responder, Callar

(* What a READ is served with. *)
LEMMA PedidoDeLectura ==
  ASSUME Hipotesis, BloquesInv, NEW c \in Conexiones, Leer(c)
  PROVE  /\ pedido[c] # Nada /\ pedido[c] \in Pedibles[c] /\ Nodo(c) \in Indices
         /\ pedido[c].desde \in 0..(Capacidad - 1) /\ pedido[c].largo \in Nat
<1>1. pc[c] = "con_nodo" /\ pedido[c].op = "READ"
  BY DEF Leer, Esta
<1>2. Sirve(c)
  BY DEF BloquesInv
<1>3. pedido[c] # Nada /\ pedido[c] \in Pedibles[c] /\ Nodo(c) \in Indices
  BY <1>1, <1>2 DEF Sirve
<1>4. QED
  BY <1>1, <1>3 DEF Hipotesis, PedidosBien

LEMMA LeidoSigue ==
  ASSUME Hipotesis, BloquesInv, LeidoTipo, [Next]_vars
  PROVE  LeidoTipo'
<1>1. CASE UNCHANGED vars
  BY <1>1 DEF vars, atencionVars, LeidoTipo
<1>2. CASE Next
  <2>1. ~Reiniciar
    BY DEF Hipotesis, UnMontaje, Reiniciar
  <2>2. PICK c \in Conexiones : Pedir(c) \/ AtenderCliente(c)
    BY <1>2, <2>1 DEF Next
  <2>3. CASE Leer(c)
    <3>1. PICK bytes \in Seq(Nat) : Enviar(c, bytes)
      BY <2>3, PedidoDeLectura, LecturaTipo DEF Leer, BloquesInv
    <3>2. QED
      BY <3>1 DEF LeidoTipo, Enviar
  <2>4. CASE ~Leer(c)
    <3>1. leido' = leido \/ Enviar(c, <<>>)
      BY <2>2, <2>4, LeidoDeNodos, LeidoDeArbol, LeidoDeDatos DEF AtenderCliente, Pedir
    <3>2. <<>> \in Seq(Nat)
      OBVIOUS
    <3>3. QED
      BY <3>1, <3>2 DEF LeidoTipo, Enviar
  <2>5. QED
    BY <2>3, <2>4
<1>3. QED
  BY <1>1, <1>2

LEMMA LeidoInvariante == Hipotesis => (Spec => []LeidoTipo)
<1> SUFFICES ASSUME Hipotesis PROVE Spec => []LeidoTipo
  OBVIOUS
<1>1. Init => LeidoTipo
  <2>1. <<>> \in Seq(Nat)
    OBVIOUS
  <2>2. QED
    BY <2>1 DEF Init, AtencionInit, LeidoTipo
<1>2. BloquesInv /\ LeidoTipo /\ [Next]_vars => LeidoTipo'
  BY LeidoSigue
<1>3. QED
  BY <1>1, <1>2, BloquesInvariante, PTL DEF Spec

(* For one mount that is not restarted, the table, the dictionary, the bitmap   *)
(* and the variables of a handler keep to their types: a path leads to a node   *)
(* of the table, a pointer of a node to a block of data, and a handler that is  *)
(* serving has a request.                                                       *)
THEOREM SacTiposConUno == Hipotesis => (Spec => []SacTypeOK)
<1> SUFFICES ASSUME Hipotesis PROVE Spec => []SacTypeOK
  OBVIOUS
<1> DEFINE Caida == caido \in BOOLEAN
<1>1. Init => Caida
  BY DEF Init, DiscoInit
<1>2. Caida /\ [Next]_vars => Caida'
  <2> SUFFICES ASSUME caido \in BOOLEAN, [Next]_vars PROVE caido' \in BOOLEAN
    OBVIOUS
  <2>1. CASE UNCHANGED vars
    BY <2>1 DEF vars, discoVars
  <2>2. CASE Reiniciar
    BY <2>2 DEF Reiniciar, Levantar
  <2>3. ASSUME NEW c \in Conexiones, Pedir(c) \/ AtenderCliente(c) PROVE caido' \in BOOLEAN
    <3>1. CASE Pedir(c)
      BY <3>1 DEF Pedir, discoVars
    <3>2. CASE AtenderCliente(c)
      BY <3>2, CaidaDeNodos, CaidaDeArbol, CaidaDeDatos DEF AtenderCliente
    <3>3. QED
      BY <2>3, <3>1, <3>2
  <2>4. QED
    BY <2>1, <2>2, <2>3 DEF Next
<1>3. BloquesInv /\ LeidoTipo /\ Caida => SacTypeOK
  <2> SUFFICES ASSUME BloquesInv, LeidoTipo, caido \in BOOLEAN PROVE SacTypeOK
    OBVIOUS
  <2>1. SacTipo
    BY DEF BloquesInv
  <2>2. tabla \in [Indices -> [estado : 0..2, nombre : Seq(Nat), padre : Int, tamanio : Nat,
                               punteros : [0..(Punteros - 1) -> {0} \cup Datos]]]
    BY <2>1 DEF SacTipo, NodoTipo, Pis
  <2>3. disco \in [Datos -> [0..(Celdas - 1) -> Nat]]
    BY <2>1 DEF SacTipo, Celda
  <2>4. DOMAIN dicc \subseteq Seq(Seq(Nat)) /\ Range(dicc) \subseteq Indices
    BY <2>1 DEF SacTipo, Range
  <2>5. bitarray \subseteq 0..(Bits - 1) /\ mutexDicc \in Conexiones \cup {Nada}
    BY <2>1 DEF SacTipo
  <2>6. DiscoTypeOK
    BY <2>2, <2>3, <2>4, <2>5 DEF DiscoTypeOK
  <2>7. ASSUME NEW c \in Conexiones
        PROVE  /\ pedido[c] \in Pedibles[c] \cup {Nada}
               /\ respuesta[c] \in {"", "ok", "error"} /\ leido[c] \in Seq(Nat)
               /\ local[c].nodo \in Indices \cup {Nada} /\ local[c].padre \in Indices
               /\ local[c].bloque \in {0} \cup Datos /\ local[c].cursor \in Nat
               /\ pc[c] \notin {"libre", "colgado"} => pedido[c] # Nada
    <3>1. local[c] \in LocalTipo /\ respuesta[c] \in {"", "ok", "error"}
      BY <2>1 DEF SacTipo
    <3>2. Sirve(c)
      BY DEF BloquesInv
    <3>3. QED
      BY <3>1, <3>2 DEF LocalTipo, Sirve, LeidoTipo
  <2>8. QED
    BY <2>6, <2>7 DEF SacTypeOK
<1> HIDE DEF Caida
<1>4. QED
  BY <1>1, <1>2, <1>3, BloquesInvariante, LeidoInvariante, PTL DEF Spec
=============================================================================
