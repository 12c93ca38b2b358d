--------------------------- MODULE SacSocketProofs ---------------------------
(***************************************************************************)
(* What is packed field by field is unpacked as the same fields, for every    *)
(* operation and every size.  So over one socket, with one thread of FUSE,   *)
(* each request is taken as it was written and each call reads its own reply. *)
(***************************************************************************)
EXTENDS SacSocket, SequenceTheorems, WellFoundedInduction, TLAPS

(* A recursive function is what its definition says: if some index had no value, there *)
(* would be a first.                                                                *)
LEMMA HayPrimero ==
  ASSUME NEW I \in SUBSET Nat, I # {}
  PROVE  \E x \in I : \A y \in I : x <= y
<1>1. PICK x \in I : \A y \in I : <<y, x>> \notin OpToRel(<, Nat)
  BY NatLessThanWellFounded, WFMin
<1>2. ASSUME NEW y \in I PROVE ~(y < x)
  BY <1>1 DEF OpToRel
<1>3. QED
  BY <1>2

LEMMA EmpacarPaso ==
  ASSUME NEW de, NEW campos, Len(campos) \in Nat
  PROVE  \E m : /\ m = [i \in 0..Len(campos) |-> IF i = 0 THEN <<>> ELSE m[i - 1] \o EnBytes(de, campos[i])]
                /\ Empacar(de, campos) = m[Len(campos)]
<1> DEFINE Hasta(n, m) == m = [i \in 0..n |-> IF i = 0 THEN <<>> ELSE m[i - 1] \o EnBytes(de, campos[i])]
           Faltan == {n \in Nat : ~\E m : Hasta(n, m)}
<1>1. Faltan = {}
  <2>1. SUFFICES ASSUME Faltan # {} PROVE FALSE
    OBVIOUS
  <2>2. PICK n \in Faltan : \A k \in Faltan : n <= k
    <3> HIDE DEF Hasta
    <3>1. Faltan \in SUBSET Nat
      OBVIOUS
    <3> HIDE DEF Faltan
    <3>2. QED
      BY <2>1, <3>1, HayPrimero
  <2>3. \E m : Hasta(0, m)
    <3> DEFINE c == [i \in 0..0 |-> <<>>]
    <3>1. ASSUME NEW i \in 0..0 PROVE c[i] = IF i = 0 THEN <<>> ELSE c[i - 1] \o EnBytes(de, campos[i])
      OBVIOUS
    <3>2. c = [i \in 0..0 |-> IF i = 0 THEN <<>> ELSE c[i - 1] \o EnBytes(de, campos[i])]
      BY <3>1, Zenon
    <3>3. QED
      BY <3>2
  <2>4. n \in Nat /\ n # 0 /\ n - 1 \in Nat /\ ~(n <= n - 1)
    <3> HIDE DEF Hasta
    <3>1. n \in Nat /\ n # 0
      BY <2>2, <2>3
    <3>2. QED
      BY <3>1
  <2>5. PICK m : Hasta(n - 1, m)
    <3> HIDE DEF Hasta
    <3>1. QED
      BY <2>2, <2>4
  <2> DEFINE g == [i \in 0..n |-> IF i = n THEN m[n - 1] \o EnBytes(de, campos[n]) ELSE m[i]]
  <2>6. ASSUME NEW i \in 0..n
        PROVE  g[i] = IF i = 0 THEN <<>> ELSE g[i - 1] \o EnBytes(de, campos[i])
    <3>1. CASE i = n
      <4>1. n - 1 \in 0..n /\ n - 1 # n
        BY <2>4
      <4>2. QED
        BY <2>4, <3>1, <4>1
    <3>2. CASE i # n
      <4>1. i \in 0..(n - 1) /\ (i # 0 => i - 1 \in 0..(n - 1)) /\ i \in 0..n /\ (i # 0 => i - 1 # n /\ i - 1 \in 0..n)
        BY <2>4, <3>2
      <4>2. m[i] = IF i = 0 THEN <<>> ELSE m[i - 1] \o EnBytes(de, campos[i])
        BY <2>5, <4>1
      <4>3. QED
        BY <3>2, <4>1, <4>2
    <3>3. QED
      BY <3>1, <3>2
  <2>7. Hasta(n, g)
    <3>1. g = [i \in 0..n |-> g[i]]
      OBVIOUS
    <3> HIDE DEF g
    <3>2. QED
      BY <2>6, <3>1, Zenon
  <2>8. QED
    BY <2>2, <2>7
<1>2. \E m : Hasta(Len(campos), m)
  BY <1>1
<1>3. Empacar(de, campos) = (CHOOSE m : Hasta(Len(campos), m))[Len(campos)]
  BY DEF Empacar
<1>4. Hasta(Len(campos), CHOOSE m : Hasta(Len(campos), m))
  BY <1>2
<1>5. QED
  BY <1>3, <1>4

LEMMA BytesPaso ==
  ASSUME NEW campos, Len(campos) \in Nat
  PROVE  \E m : /\ m = [i \in 0..Len(campos) |-> IF i = 0 THEN 0 ELSE m[i - 1] + campos[i].bytes]
                /\ Bytes(campos) = m[Len(campos)]
<1> DEFINE Hasta(n, m) == m = [i \in 0..n |-> IF i = 0 THEN 0 ELSE m[i - 1] + campos[i].bytes]
           Faltan == {n \in Nat : ~\E m : Hasta(n, m)}
<1>1. Faltan = {}
  <2>1. SUFFICES ASSUME Faltan # {} PROVE FALSE
    OBVIOUS
  <2>2. PICK n \in Faltan : \A k \in Faltan : n <= k
    <3> HIDE DEF Hasta
    <3>1. Faltan \in SUBSET Nat
      OBVIOUS
    <3> HIDE DEF Faltan
    <3>2. QED
      BY <2>1, <3>1, HayPrimero
  <2>3. \E m : Hasta(0, m)
    <3> DEFINE c == [i \in 0..0 |-> 0]
    <3>1. ASSUME NEW i \in 0..0 PROVE c[i] = IF i = 0 THEN 0 ELSE c[i - 1] + campos[i].bytes
      OBVIOUS
    <3>2. c = [i \in 0..0 |-> IF i = 0 THEN 0 ELSE c[i - 1] + campos[i].bytes]
      BY <3>1, Zenon
    <3>3. QED
      BY <3>2
  <2>4. n \in Nat /\ n # 0 /\ n - 1 \in Nat /\ ~(n <= n - 1)
    <3> HIDE DEF Hasta
    <3>1. n \in Nat /\ n # 0
      BY <2>2, <2>3
    <3>2. QED
      BY <3>1
  <2>5. PICK m : Hasta(n - 1, m)
    <3> HIDE DEF Hasta
    <3>1. QED
      BY <2>2, <2>4
  <2> DEFINE g == [i \in 0..n |-> IF i = n THEN m[n - 1] + campos[n].bytes ELSE m[i]]
  <2>6. ASSUME NEW i \in 0..n
        PROVE  g[i] = IF i = 0 THEN 0 ELSE g[i - 1] + campos[i].bytes
    <3>1. CASE i = n
      <4>1. n - 1 \in 0..n /\ n - 1 # n
        BY <2>4
      <4>2. QED
        BY <2>4, <3>1, <4>1
    <3>2. CASE i # n
      <4>1. i \in 0..(n - 1) /\ (i # 0 => i - 1 \in 0..(n - 1)) /\ i \in 0..n /\ (i # 0 => i - 1 # n /\ i - 1 \in 0..n)
        BY <2>4, <3>2
      <4>2. m[i] = IF i = 0 THEN 0 ELSE m[i - 1] + campos[i].bytes
        BY <2>5, <4>1
      <4>3. QED
        BY <3>2, <4>1, <4>2
    <3>3. QED
      BY <3>1, <3>2
  <2>7. Hasta(n, g)
    <3>1. g = [i \in 0..n |-> g[i]]
      OBVIOUS
    <3> HIDE DEF g
    <3>2. QED
      BY <2>6, <3>1, Zenon
  <2>8. QED
    BY <2>2, <2>7
<1>2. \E m : Hasta(Len(campos), m)
  BY <1>1
<1>3. Bytes(campos) = (CHOOSE m : Hasta(Len(campos), m))[Len(campos)]
  BY DEF Bytes
<1>4. Hasta(Len(campos), CHOOSE m : Hasta(Len(campos), m))
  BY <1>2
<1>5. QED
  BY <1>3, <1>4

LEMMA TomarPaso ==
  ASSUME NEW toma, NEW datos, Len(toma) \in Nat
  PROVE  \E m : /\ m = [i \in 0..Len(toma) |-> IF i = 0 THEN SinLeer ELSE Tomar(m[i - 1], toma[i], datos)]
                /\ Deserializar(toma, datos) = m[Len(toma)]
<1> DEFINE Hasta(n, m) == m = [i \in 0..n |-> IF i = 0 THEN SinLeer ELSE Tomar(m[i - 1], toma[i], datos)]
           Faltan == {n \in Nat : ~\E m : Hasta(n, m)}
<1>1. Faltan = {}
  <2>1. SUFFICES ASSUME Faltan # {} PROVE FALSE
    OBVIOUS
  <2>2. PICK n \in Faltan : \A k \in Faltan : n <= k
    <3> HIDE DEF Hasta
    <3>1. Faltan \in SUBSET Nat
      OBVIOUS
    <3> HIDE DEF Faltan
    <3>2. QED
      BY <2>1, <3>1, HayPrimero
  <2>3. \E m : Hasta(0, m)
    <3> DEFINE c == [i \in 0..0 |-> SinLeer]
    <3>1. ASSUME NEW i \in 0..0 PROVE c[i] = IF i = 0 THEN SinLeer ELSE Tomar(c[i - 1], toma[i], datos)
      OBVIOUS
    <3>2. c = [i \in 0..0 |-> IF i = 0 THEN SinLeer ELSE Tomar(c[i - 1], toma[i], datos)]
      BY <3>1, Zenon
    <3>3. QED
      BY <3>2
  <2>4. n \in Nat /\ n # 0 /\ n - 1 \in Nat /\ ~(n <= n - 1)
    <3> HIDE DEF Hasta
    <3>1. n \in Nat /\ n # 0
      BY <2>2, <2>3
    <3>2. QED
      BY <3>1
  <2>5. PICK m : Hasta(n - 1, m)
    <3> HIDE DEF Hasta
    <3>1. QED
      BY <2>2, <2>4
  <2> DEFINE g == [i \in 0..n |-> IF i = n THEN Tomar(m[n - 1], toma[n], datos) ELSE m[i]]
  <2>6. ASSUME NEW i \in 0..n
        PROVE  g[i] = IF i = 0 THEN SinLeer ELSE Tomar(g[i - 1], toma[i], datos)
    <3>1. CASE i = n
      <4>1. n - 1 \in 0..n /\ n - 1 # n
        BY <2>4
      <4>2. QED
        BY <2>4, <3>1, <4>1
    <3>2. CASE i # n
      <4>1. i \in 0..(n - 1) /\ (i # 0 => i - 1 \in 0..(n - 1)) /\ i \in 0..n /\ (i # 0 => i - 1 # n /\ i - 1 \in 0..n)
        BY <2>4, <3>2
      <4>2. m[i] = IF i = 0 THEN SinLeer ELSE Tomar(m[i - 1], toma[i], datos)
        BY <2>5, <4>1
      <4>3. QED
        BY <3>2, <4>1, <4>2
    <3>3. QED
      BY <3>1, <3>2
  <2>7. Hasta(n, g)
    <3>1. g = [i \in 0..n |-> g[i]]
      OBVIOUS
    <3> HIDE DEF g
    <3>2. QED
      BY <2>6, <3>1, Zenon
  <2>8. QED
    BY <2>2, <2>7
<1>2. \E m : Hasta(Len(toma), m)
  BY <1>1
<1>3. Deserializar(toma, datos) = (CHOOSE m : Hasta(Len(toma), m))[Len(toma)]
  BY DEF Deserializar
<1>4. Hasta(Len(toma), CHOOSE m : Hasta(Len(toma), m))
  BY <1>2
<1>5. QED
  BY <1>3, <1>4

-----------------------------------------------------------------------------
Nombrables ==
  {"op", "tam", "path", "size_path", "offset", "size_buff", "buff", "crear", "crear_ensure", "truncate", "utime",
   "new_size", "new", "old_size", "old", "size", "modif_time", "tipo", "cant", "tam_elem", "elem", "res", "error"}
Escribible == [nombre : Nombrables, bytes : Nat, valor : Nat]
Byte(de)   == [de : {de}, campo : Nombrables, valor : Nat]

(* What a message is after each field. *)
Escrito(m, de, campos) ==
  /\ m \in [0..Len(campos) -> Seq(Byte(de))]
  /\ m[0] = <<>>
  /\ \A i \in 1..Len(campos) : m[i] = m[i - 1] \o EnBytes(de, campos[i])

LEMMA LosElementos ==
  ASSUME NEW S, NEW s \in Seq(S)
  PROVE  Len(s) \in Nat /\ DOMAIN s = 1..Len(s) /\ \A i \in 1..Len(s) : s[i] \in S
OBVIOUS

LEMMA Pegado ==
  ASSUME NEW S, NEW a \in Seq(S), NEW b \in Seq(S)
  PROVE  /\ a \o b \in Seq(S) /\ Len(a \o b) = Len(a) + Len(b) /\ Len(a) \in Nat /\ Len(b) \in Nat
         /\ \A j \in 1..Len(a) : (a \o b)[j] = a[j]
         /\ \A j \in 1..Len(b) : (a \o b)[Len(a) + j] = b[j]
<1>1. a \o b \in Seq(S) /\ Len(a \o b) = Len(a) + Len(b) /\ Len(a) \in Nat /\ Len(b) \in Nat
  OBVIOUS
<1>2. ASSUME NEW j \in 1..Len(a) PROVE (a \o b)[j] = a[j]
  OBVIOUS
<1>3. ASSUME NEW j \in 1..Len(b) PROVE (a \o b)[Len(a) + j] = b[j]
  <2>1. Len(a) + j \in 1..(Len(a) + Len(b)) /\ ~(Len(a) + j <= Len(a)) /\ (Len(a) + j) - Len(a) = j
    BY <1>1
  <2>2. QED
    BY <1>1, <2>1
<1>4. QED
  BY <1>1, <1>2, <1>3

LEMMA Pedazo ==
  ASSUME NEW S, NEW s \in Seq(S), NEW p \in Nat, NEW t \in Nat,
         NEW q, q = p + t, q <= Len(s), NEW b, b = SubSeq(s, p + 1, q)
  PROVE  /\ b \in Seq(S) /\ Len(b) = t /\ DOMAIN b = 1..t
         /\ \A j \in 1..t : b[j] = s[p + j]
<1>1. Len(s) \in Nat /\ \A i \in 1..Len(s) : s[i] \in S
  OBVIOUS
<1>2. b = [j \in 1..t |-> s[p + j]]
  <2>1. SubSeq(s, p + 1, q) = [j \in 1..(q - (p + 1) + 1) |-> s[(p + 1) + j - 1]]
    BY DEF SubSeq
  <2>2. q - (p + 1) + 1 = t /\ \A j \in 1..t : (p + 1) + j - 1 = p + j
    OBVIOUS
  <2>3. QED
    BY <2>1, <2>2
<1>3. \A j \in 1..t : p + j \in 1..Len(s)
  BY <1>1
<1>4. \A j \in 1..t : s[p + j] \in S
  BY <1>1, <1>3
<1>5. QED
  BY <1>2, <1>4

LEMMA UnCampo ==
  ASSUME NEW de, NEW campo \in Escribible
  PROVE  /\ EnBytes(de, campo) \in Seq(Byte(de)) /\ Len(EnBytes(de, campo)) = campo.bytes /\ campo.bytes \in Nat
         /\ \A j \in 1..campo.bytes :
              EnBytes(de, campo)[j] = [de |-> de, campo |-> campo.nombre, valor |-> campo.valor]
<1>1. campo.bytes \in Nat /\ campo.nombre \in Nombrables /\ campo.valor \in Nat
  BY DEF Escribible
<1> DEFINE b == [de |-> de, campo |-> campo.nombre, valor |-> campo.valor]
<1>2. b \in Byte(de)
  BY <1>1 DEF Byte
<1>3. EnBytes(de, campo) = [j \in 1..campo.bytes |-> b]
  BY DEF EnBytes
<1> HIDE DEF b
<1> DEFINE s == [j \in 1..campo.bytes |-> b]
<1>4. s \in Seq(Byte(de)) /\ Len(s) = campo.bytes /\ \A j \in 1..campo.bytes : s[j] = b
  BY <1>1, <1>2
<1>5. QED
  BY <1>1, <1>3, <1>4 DEF b

LEMMA SeEscribe ==
  ASSUME NEW de, NEW campos \in Seq(Escribible)
  PROVE  \E m : Escrito(m, de, campos) /\ Empacar(de, campos) = m[Len(campos)]
<1>1. PICK m : /\ m = [i \in 0..Len(campos) |-> IF i = 0 THEN <<>> ELSE m[i - 1] \o EnBytes(de, campos[i])]
               /\ Empacar(de, campos) = m[Len(campos)]
  <2>1. Len(campos) \in Nat
    OBVIOUS
  <2>2. QED
    BY <2>1, EmpacarPaso
<1>2. \A i \in 1..Len(campos) : m[i] = m[i - 1] \o EnBytes(de, campos[i])
  BY <1>1
<1>3. m[0] = <<>>
  BY <1>1
<1> DEFINE Malos == {i \in 0..Len(campos) : m[i] \notin Seq(Byte(de))}
<1>4. Malos = {}
  <2> SUFFICES ASSUME Malos # {} PROVE FALSE
    OBVIOUS
  <2>1. Malos \in SUBSET Nat
    OBVIOUS
  <2>2. PICK k \in Malos : \A i \in Malos : k <= i
    <3> HIDE DEF Malos
    <3>1. QED
      BY <2>1, HayPrimero
  <2>3. k \in 0..Len(campos) /\ m[k] \notin Seq(Byte(de)) /\ k # 0
    <3>1. <<>> \in Seq(Byte(de))
      OBVIOUS
    <3>2. k \in 0..Len(campos) /\ m[k] \notin Seq(Byte(de))
      BY <2>2
    <3>3. QED
      BY <3>1, <3>2, <1>3
  <2>4. k \in 1..Len(campos) /\ k - 1 \in 0..Len(campos) /\ ~(k <= k - 1)
    BY <2>3
  <2>5. m[k - 1] \in Seq(Byte(de))
    BY <2>2, <2>4
  <2>6. EnBytes(de, campos[k]) \in Seq(Byte(de))
    BY <2>4, UnCampo, LosElementos
  <2>7. m[k] = m[k - 1] \o EnBytes(de, campos[k])
    BY <1>2, <2>4
  <2>8. QED
    BY <2>3, <2>5, <2>6, <2>7, Pegado
<1>5. m \in [0..Len(campos) -> Seq(Byte(de))]
  <2>1. DOMAIN m = 0..Len(campos) /\ m = [i \in 0..Len(campos) |-> m[i]]
    BY <1>1
  <2>2. \A i \in 0..Len(campos) : m[i] \in Seq(Byte(de))
    BY <1>4
  <2>3. QED
    BY <2>1, <2>2
<1>6. QED
  BY <1>1, <1>2, <1>3, <1>5 DEF Escrito

(* What is written is not written over. *)
LEMMA QuedaEscrito ==
  ASSUME NEW de, NEW campos \in Seq(Escribible), NEW m, Escrito(m, de, campos),
         NEW k \in 0..Len(campos), NEW i \in 0..k
  PROVE  Len(m[i]) <= Len(m[k]) /\ \A j \in 1..Len(m[i]) : m[k][j] = m[i][j]
<1> DEFINE Bien(h) == Len(m[i]) <= Len(m[h]) /\ \A j \in 1..Len(m[i]) : m[h][j] = m[i][j]
           Malos == {h \in i..Len(campos) : ~Bien(h)}
<1>1. Malos = {}
  <2> SUFFICES ASSUME Malos # {} PROVE FALSE
    OBVIOUS
  <2>1. Malos \in SUBSET Nat
    OBVIOUS
  <2>2. PICK h \in Malos : \A g \in Malos : h <= g
    <3> HIDE DEF Malos
    <3>1. QED
      BY <2>1, HayPrimero
  <2>3. m[i] \in Seq(Byte(de)) /\ Len(m[i]) \in Nat
    BY DEF Escrito
  <2>4. Bien(i)
    BY <2>3
  <2>5. h \in i..Len(campos) /\ h # i /\ ~Bien(h)
    BY <2>2, <2>4
  <2>6. h \in 1..Len(campos) /\ h - 1 \in i..Len(campos) /\ h - 1 \in 0..Len(campos) /\ ~(h <= h - 1)
    BY <2>5
  <2>7. Bien(h - 1)
    BY <2>2, <2>6
  <2>8. /\ m[h] = m[h - 1] \o EnBytes(de, campos[h]) /\ m[h - 1] \in Seq(Byte(de))
        /\ EnBytes(de, campos[h]) \in Seq(Byte(de))
    <3>1. m[h] = m[h - 1] \o EnBytes(de, campos[h]) /\ m[h - 1] \in Seq(Byte(de))
      BY <2>6 DEF Escrito
    <3>2. campos[h] \in Escribible
      BY <2>6, LosElementos
    <3>3. QED
      BY <3>1, <3>2, UnCampo
  <2>9. Len(m[h - 1]) <= Len(m[h]) /\ Len(m[h - 1]) \in Nat /\ Len(m[h]) \in Nat
        /\ \A j \in 1..Len(m[h - 1]) : m[h][j] = m[h - 1][j]
    <3> DEFINE a == m[h - 1]
               b == EnBytes(de, campos[h])
    <3>1. a \in Seq(Byte(de)) /\ b \in Seq(Byte(de)) /\ m[h] = a \o b
      BY <2>8
    <3> HIDE DEF a, b
    <3>2. Len(a) <= Len(m[h]) /\ Len(a) \in Nat /\ Len(m[h]) \in Nat /\ \A j \in 1..Len(a) : m[h][j] = a[j]
      BY <3>1, Pegado
    <3>3. QED
      BY <3>2 DEF a
  <2>10. Bien(h)
    <3>1. Len(m[i]) <= Len(m[h])
      BY <2>3, <2>7, <2>9
    <3>2. ASSUME NEW j \in 1..Len(m[i]) PROVE m[h][j] = m[i][j]
      <4>1. j \in 1..Len(m[h - 1])
        BY <2>3, <2>7, <2>9
      <4>2. QED
        BY <2>7, <2>9, <4>1
    <3>3. QED
      BY <3>1, <3>2
  <2>11. QED
    BY <2>5, <2>10
<1>2. k \in i..Len(campos)
  OBVIOUS
<1>3. QED
  BY <1>1, <1>2

(* tamanio_de_todos_las_ent_dir counts what serializar_lista_ent_dir writes. *)
LEMMA CuentaLoEscrito ==
  ASSUME NEW de, NEW campos \in Seq(Escribible)
  PROVE  /\ Empacar(de, campos) \in Seq(Byte(de)) /\ Len(Empacar(de, campos)) = Bytes(campos)
         /\ Bytes(campos) \in Nat
<1> DEFINE n == Len(campos)
<1>1. n \in Nat
  OBVIOUS
<1>2. PICK m : Escrito(m, de, campos) /\ Empacar(de, campos) = m[n]
  BY SeEscribe
<1>3. PICK s : /\ s = [i \in 0..n |-> IF i = 0 THEN 0 ELSE s[i - 1] + campos[i].bytes]
               /\ Bytes(campos) = s[n]
  BY <1>1, BytesPaso
<1>4. s[0] = 0 /\ \A i \in 1..n : s[i] = s[i - 1] + campos[i].bytes
  BY <1>1, <1>3
<1> HIDE DEF n
<1> DEFINE Malos == {i \in 0..n : s[i] # Len(m[i])}
<1>5. Malos = {}
  <2> SUFFICES ASSUME Malos # {} PROVE FALSE
    OBVIOUS
  <2>1. Malos \in SUBSET Nat
    BY <1>1
  <2>2. PICK k \in Malos : \A i \in Malos : k <= i
    <3> HIDE DEF Malos
    <3>1. QED
      BY <2>1, HayPrimero
  <2>3. k \in 0..n /\ s[k] # Len(m[k])
    BY <2>2
  <2>4. k # 0
    BY <1>2, <1>4, <2>3 DEF Escrito
  <2>5. k \in 1..n /\ k - 1 \in 0..n /\ ~(k <= k - 1)
    BY <1>1, <2>3, <2>4
  <2>6. s[k - 1] = Len(m[k - 1])
    BY <2>2, <2>5
  <2>7. m[k] = m[k - 1] \o EnBytes(de, campos[k]) /\ m[k - 1] \in Seq(Byte(de))
    BY <1>2, <2>5 DEF Escrito, n
  <2>8. EnBytes(de, campos[k]) \in Seq(Byte(de)) /\ Len(EnBytes(de, campos[k])) = campos[k].bytes
    BY <2>5, UnCampo, LosElementos DEF n
  <2>9. Len(m[k]) = Len(m[k - 1]) + campos[k].bytes
    <3> DEFINE S == Byte(de)
               a == m[k - 1]
               b == EnBytes(de, campos[k])
    <3>1. a \in Seq(S) /\ b \in Seq(S) /\ m[k] = a \o b /\ Len(b) = campos[k].bytes
      BY <2>7, <2>8
    <3> HIDE DEF S, a, b
    <3>2. Len(a \o b) = Len(a) + Len(b)
      BY <3>1, Pegado
    <3>3. QED
      BY <3>1, <3>2 DEF a
  <2>10. QED
    BY <1>4, <2>3, <2>5, <2>6, <2>9
<1>6. s[n] = Len(m[n]) /\ m[n] \in Seq(Byte(de))
  BY <1>1, <1>2, <1>5 DEF Escrito, n
<1>7. QED
  BY <1>2, <1>3, <1>6

(* What a deserializer takes, field by field, is as long as what was written: as many *)
(* bytes as the serializer writes, or as many as the integer written before says.       *)
Calza(toma, campos) ==
  /\ Len(toma) = Len(campos)
  /\ \A i \in 1..Len(campos) :
       /\ toma[i][1] = campos[i].nombre
       /\ \/ toma[i][2] = campos[i].bytes
          \/ /\ toma[i][2] = Segun /\ i # 1
             /\ campos[i - 1].bytes > 0 /\ campos[i - 1].valor = campos[i].bytes

(* What a deserializer has taken after each field. *)
Tomado(d, m, datos, de, campos, i) ==
  /\ d.leido = Len(m[i])
  /\ i # 0 /\ campos[i].bytes > 0 => d.anterior = campos[i].valor
  /\ d.campos \in Seq(Range(d.campos)) /\ DeLosCampos(d.campos, de)

LEMMA UnaToma ==
  ASSUME NEW de, NEW campos \in Seq(Escribible), NEW toma, Calza(toma, campos),
         NEW m, Escrito(m, de, campos), NEW datos, datos = m[Len(campos)],
         NEW k \in 1..Len(campos), NEW d, Tomado(d, m, datos, de, campos, k - 1)
  PROVE  Tomado(Tomar(d, toma[k], datos), m, datos, de, campos, k)
<1> DEFINE c == campos[k]
           n == IF toma[k][2] = Segun THEN d.anterior ELSE toma[k][2]
           b == SubSeq(datos, d.leido + 1, d.leido + n)
<1>1. Len(campos) \in Nat /\ k \in Nat /\ k - 1 \in 0..Len(campos) /\ k \in 0..Len(campos) /\ k # 0
  OBVIOUS
<1>2. c \in Escribible /\ c.bytes \in Nat /\ c.nombre \in Nombrables /\ c.valor \in Nat
  <2>1. c \in Escribible
    BY LosElementos
  <2> HIDE DEF c
  <2>2. QED
    BY <2>1 DEF Escribible
<1>3. n = c.bytes
  <2>1. CASE toma[k][2] = campos[k].bytes
    BY <1>2, <2>1 DEF Segun
  <2>2. CASE toma[k][2] = Segun /\ k # 1 /\ campos[k - 1].bytes > 0 /\ campos[k - 1].valor = campos[k].bytes
    <3>1. k - 1 # 0
      BY <1>1, <2>2
    <3>2. d.anterior = campos[k - 1].valor
      BY <2>2, <3>1 DEF Tomado
    <3>3. QED
      BY <2>2, <3>2
  <2>3. QED
    BY <2>1, <2>2 DEF Calza
<1> DEFINE a == m[k - 1]
           e == EnBytes(de, c)
<1>4. a \in Seq(Byte(de)) /\ m[k] = a \o e /\ datos \in Seq(Byte(de)) /\ d.leido = Len(a)
  <2>1. m[k - 1] \in Seq(Byte(de)) /\ m[k] = m[k - 1] \o EnBytes(de, campos[k])
    BY <1>1 DEF Escrito
  <2>2. Len(campos) \in 0..Len(campos)
    BY <1>1
  <2>3. datos \in Seq(Byte(de))
    BY <2>2 DEF Escrito
  <2>4. d.leido = Len(m[k - 1])
    BY DEF Tomado
  <2>5. QED
    BY <2>1, <2>3, <2>4
<1>5. /\ e \in Seq(Byte(de)) /\ Len(e) = c.bytes
      /\ \A j \in 1..c.bytes : e[j] = [de |-> de, campo |-> c.nombre, valor |-> c.valor]
  BY <1>2, UnCampo
<1>6. Len(m[k]) <= Len(datos) /\ \A j \in 1..Len(m[k]) : datos[j] = m[k][j]
  <2>1. Len(campos) \in 0..Len(campos) /\ k \in 0..Len(campos)
    BY <1>1
  <2>2. QED
    BY <2>1, QuedaEscrito
<1> HIDE DEF a, e
<1>7. /\ Len(a) \in Nat /\ Len(e) \in Nat /\ Len(m[k]) = Len(a) + Len(e)
      /\ \A j \in 1..Len(e) : m[k][Len(a) + j] = e[j]
  <2>1. a \in Seq(Byte(de)) /\ e \in Seq(Byte(de)) /\ m[k] = a \o e
    BY <1>4, <1>5
  <2> DEFINE S == Byte(de)
  <2>2. a \in Seq(S) /\ e \in Seq(S)
    BY <2>1
  <2> HIDE DEF S
  <2>3. /\ Len(a) \in Nat /\ Len(e) \in Nat /\ Len(a \o e) = Len(a) + Len(e)
        /\ \A j \in 1..Len(e) : (a \o e)[Len(a) + j] = e[j]
    BY <2>2, Pegado
  <2>4. QED
    BY <2>1, <2>3
<1> HIDE DEF c, n
<1>8. /\ Len(b) = c.bytes
      /\ \A j \in 1..c.bytes : b[j] = [de |-> de, campo |-> c.nombre, valor |-> c.valor]
      /\ b \in Seq(Byte(de))
  <2>1. d.leido + n = Len(a) + Len(e) /\ d.leido + n <= Len(datos) /\ Len(datos) \in Nat
    BY <1>2, <1>3, <1>4, <1>5, <1>6, <1>7
  <2>2. b = SubSeq(datos, Len(a) + 1, Len(a) + c.bytes) /\ Len(a) + c.bytes <= Len(datos)
    BY <1>2, <1>3, <1>4, <1>5, <1>7, <2>1
  <2> HIDE DEF b
  <2>3. /\ b \in Seq(Byte(de)) /\ Len(b) = c.bytes
        /\ \A j \in 1..c.bytes : b[j] = datos[Len(a) + j]
    <3> DEFINE S == Byte(de)
               p == Len(a)
               t == c.bytes
               q == Len(a) + c.bytes
    <3>1. p \in Nat /\ t \in Nat /\ datos \in Seq(S) /\ q = p + t /\ q <= Len(datos) /\ b = SubSeq(datos, p + 1, q)
      BY <1>2, <1>4, <1>7, <2>2
    <3> HIDE DEF S, p, t, q
    <3>2. b \in Seq(S) /\ Len(b) = t /\ \A j \in 1..t : b[j] = datos[p + j]
      BY <3>1, Pedazo
    <3>3. QED
      BY <3>2 DEF S, p, t
  <2>4. \A j \in 1..c.bytes : datos[Len(a) + j] = e[j]
    <3> SUFFICES ASSUME NEW j \in 1..c.bytes PROVE datos[Len(a) + j] = e[j]
      OBVIOUS
    <3>1. j \in 1..Len(e) /\ Len(a) + j \in 1..Len(m[k])
      BY <1>2, <1>5, <1>7
    <3>2. QED
      BY <1>6, <1>7, <3>1
  <2>5. QED
    BY <1>5, <2>3, <2>4
<1> HIDE DEF b
<1>9. DelCampo(c.nombre, b, de)
  <2>1. DOMAIN b = 1..c.bytes
    BY <1>8
  <2>2. QED
    BY <1>8, <2>1 DEF DelCampo, Range
<1>10. c.bytes > 0 => b # <<>> /\ Head(b).valor = c.valor
  <2> SUFFICES ASSUME c.bytes > 0 PROVE b # <<>> /\ Head(b).valor = c.valor
    OBVIOUS
  <2>1. 1 \in 1..c.bytes
    BY <1>2
  <2>2. b # <<>> /\ Head(b) = b[1]
    BY <1>2, <1>8, <2>1
  <2>3. b[1].valor = c.valor
    BY <1>8, <2>1
  <2>4. QED
    BY <2>2, <2>3
<1> DEFINE r == Tomar(d, toma[k], datos)
<1>11. r = [leido |-> d.leido + n, anterior |-> IF b = <<>> THEN 0 ELSE Head(b).valor,
            campos |-> Append(d.campos, <<toma[k][1], b>>)]
  BY DEF Tomar, n, b
<1> HIDE DEF r
<1>12. r.leido = Len(m[k])
  BY <1>2, <1>3, <1>4, <1>5, <1>7, <1>11
<1>13. c.bytes > 0 => r.anterior = c.valor
  BY <1>10, <1>11
<1>14. r.campos \in Seq(Range(r.campos)) /\ DeLosCampos(r.campos, de)
  <2> DEFINE f == d.campos
             x == <<toma[k][1], b>>
  <2>1. f \in Seq(Range(f)) /\ DeLosCampos(f, de) /\ r.campos = Append(f, x)
    BY <1>11 DEF Tomado
  <2>2. x[1] = c.nombre /\ x[2] = b
    BY DEF Calza, c
  <2> HIDE DEF f, x
  <2>3. /\ Len(f) \in Nat /\ DOMAIN f = 1..Len(f)
        /\ Append(f, x) = [i \in DOMAIN Append(f, x) |-> Append(f, x)[i]]
        /\ DOMAIN Append(f, x) = 1..(Len(f) + 1)
        /\ \A i \in 1..Len(f) : Append(f, x)[i] = f[i]
        /\ Append(f, x)[Len(f) + 1] = x
    <3> DEFINE S == Range(f) \cup {x}
               y == Append(f, x)
    <3>1. f \in Seq(S) /\ x \in S
      <4>1. Range(f) \subseteq S /\ x \in S
        OBVIOUS
      <4> HIDE DEF S
      <4>2. QED
        BY <2>1, <4>1
    <3> HIDE DEF S
    <3>2. y \in Seq(S) /\ Len(y) = Len(f) + 1 /\ Len(f) \in Nat
      BY <3>1
    <3>3. DOMAIN f = 1..Len(f) /\ \A i \in 1..Len(f) : y[i] = f[i]
      BY <3>1
    <3>4. y[Len(f) + 1] = x
      BY <3>1
    <3> HIDE DEF y
    <3>5. y = [i \in DOMAIN y |-> y[i]] /\ DOMAIN y = 1..(Len(f) + 1)
      BY <3>2
    <3>6. QED
      BY <3>2, <3>3, <3>4, <3>5 DEF y
  <2>4. DeLosCampos(Append(f, x), de)
    BY <1>9, <2>1, <2>2, <2>3 DEF DeLosCampos
  <2>5. Append(f, x) = [i \in 1..(Len(f) + 1) |-> Append(f, x)[i]]
    BY <2>3
  <2> DEFINE g == Append(f, x)
  <2>6. g = [i \in 1..(Len(f) + 1) |-> g[i]] /\ Len(f) + 1 \in Nat /\ DOMAIN g = 1..(Len(f) + 1)
    BY <2>3, <2>5
  <2>7. r.campos = g /\ DeLosCampos(g, de)
    BY <2>1, <2>4
  <2> HIDE DEF g
  <2>8. \A i \in 1..(Len(f) + 1) : g[i] \in Range(g)
    BY <2>6 DEF Range
  <2>9. g \in Seq(Range(g))
    BY <2>6, <2>8
  <2>10. QED
    BY <2>7, <2>9
<1>15. QED
  BY <1>12, <1>13, <1>14 DEF Tomado, r, c

(* What is written as fields is read as the same fields, to the last byte. *)
LEMMA LoEscritoSeLee ==
  ASSUME NEW de, NEW campos \in Seq(Escribible), NEW toma, Calza(toma, campos)
  PROVE  LET datos == Empacar(de, campos)
             d     == Deserializar(toma, datos)
         IN  DeLosCampos(d.campos, de) /\ d.leido = Len(datos)
<1> DEFINE datos == Empacar(de, campos)
           n     == Len(campos)
<1>1. n \in Nat /\ Len(toma) = n
  BY DEF Calza
<1>2. PICK m : Escrito(m, de, campos) /\ datos = m[n]
  BY SeEscribe
<1> HIDE DEF datos
<1>3. PICK d : /\ d = [i \in 0..Len(toma) |-> IF i = 0 THEN SinLeer ELSE Tomar(d[i - 1], toma[i], datos)]
               /\ Deserializar(toma, datos) = d[Len(toma)]
  BY <1>1, TomarPaso
<1>4. d[0] = SinLeer /\ \A i \in 1..n : d[i] = Tomar(d[i - 1], toma[i], datos)
  <2>1. 0 \in 0..Len(toma) /\ \A i \in 1..n : i \in 0..Len(toma) /\ i # 0
    BY <1>1
  <2>2. QED
    BY <1>3, <2>1
<1> HIDE DEF n
<1> DEFINE Bien(i) == Tomado(d[i], m, datos, de, campos, i)
           Malos == {i \in 0..n : ~Bien(i)}
<1>5. Malos = {}
  <2> SUFFICES ASSUME Malos # {} PROVE FALSE
    OBVIOUS
  <2>1. Malos \in SUBSET Nat
    BY <1>1
  <2>2. PICK k \in Malos : \A i \in Malos : k <= i
    <3> HIDE DEF Malos
    <3>1. QED
      BY <2>1, HayPrimero
  <2>3. Bien(0)
    <3>1. m[0] = <<>> /\ d[0] = [leido |-> 0, anterior |-> 0, campos |-> <<>>]
      BY <1>2, <1>4 DEF Escrito, SinLeer
    <3>2. d[0].leido = Len(m[0]) /\ d[0].campos = <<>>
      BY <3>1
    <3>3. <<>> \in Seq(Range(<<>>)) /\ DeLosCampos(<<>>, de)
      BY DEF DeLosCampos
    <3>4. QED
      BY <3>2, <3>3 DEF Tomado
  <2>4. k \in 0..n /\ ~Bien(k) /\ k # 0
    BY <2>2, <2>3
  <2>5. k \in 1..n /\ k - 1 \in 0..n /\ ~(k <= k - 1)
    BY <1>1, <2>4
  <2>6. Bien(k - 1)
    BY <2>2, <2>5
  <2>7. d[k] = Tomar(d[k - 1], toma[k], datos)
    BY <1>4, <2>5
  <2> DEFINE antes == d[k - 1]
  <2>8. Tomado(antes, m, datos, de, campos, k - 1) /\ k \in 1..Len(campos) /\ datos = m[Len(campos)]
    BY <1>2, <2>5, <2>6 DEF n
  <2> HIDE DEF antes
  <2>9. Tomado(Tomar(antes, toma[k], datos), m, datos, de, campos, k)
    BY <1>2, <2>8, UnaToma
  <2>10. Bien(k)
    BY <2>7, <2>9 DEF antes
  <2>11. QED
    BY <2>4, <2>10
<1>6. Tomado(d[n], m, datos, de, campos, n)
  BY <1>1, <1>5
<1>7. QED
  BY <1>1, <1>2, <1>3, <1>6 DEF Tomado, n, datos

(* Short sequences, written out. *)
LEMMA Agregado ==
  ASSUME NEW S, NEW s \in Seq(S), NEW x \in S
  PROVE  /\ Append(s, x) \in Seq(S) /\ Len(Append(s, x)) = Len(s) + 1 /\ Append(s, x)[Len(s) + 1] = x
         /\ \A j \in 1..Len(s) : Append(s, x)[j] = s[j]
OBVIOUS

LEMMA Juntas21 ==
  ASSUME NEW a, NEW b, NEW c
  PROVE  <<a, b>> \o <<c>> = <<a, b, c>>
<1> DEFINE S == {a, b, c}
           p == <<a, b>>
           q == <<c>>
           z == p \o q
<1>1. p \in Seq(S) /\ q \in Seq(S)
  OBVIOUS
<1>2. Len(p) = 2 /\ Len(q) = 1
  OBVIOUS
<1>3. p[1] = a /\ p[2] = b /\ q[1] = c
  OBVIOUS
<1> HIDE DEF S, p, q
<1>4. z \in Seq(S) /\ Len(z) = 3 /\ (\A j \in 1..2 : z[j] = p[j]) /\ \A j \in 1..1 : z[2 + j] = q[j]
  <2>1. /\ z \in Seq(S) /\ Len(z) = Len(p) + Len(q) /\ (\A j \in 1..Len(p) : z[j] = p[j])
        /\ \A j \in 1..Len(q) : z[Len(p) + j] = q[j]
    BY <1>1, Pegado
  <2> HIDE DEF z
  <2>2. QED
    BY <1>1, <1>2, <2>1
<1> HIDE DEF z
<1>5. z[1] = p[1] /\ z[2] = p[2] /\ z[3] = q[1]
  <2>1. 1 \in 1..2 /\ 2 \in 1..2 /\ 1 \in 1..1 /\ 2 + 1 = 3
    OBVIOUS
  <2>2. QED
    BY <1>4, <2>1
<1>6. z = <<z[1], z[2], z[3]>>
  BY <1>4
<1>7. QED
  BY <1>3, <1>5, <1>6 DEF z, p, q

LEMMA Juntas12 ==
  ASSUME NEW a, NEW b, NEW c
  PROVE  <<a>> \o <<b, c>> = <<a, b, c>>
<1> DEFINE S == {a, b, c}
           p == <<a>>
           q == <<b, c>>
           z == p \o q
<1>1. p \in Seq(S) /\ q \in Seq(S)
  OBVIOUS
<1>2. Len(p) = 1 /\ Len(q) = 2
  OBVIOUS
<1>3. p[1] = a /\ q[1] = b /\ q[2] = c
  OBVIOUS
<1> HIDE DEF S, p, q
<1>4. z \in Seq(S) /\ Len(z) = 3 /\ (\A j \in 1..1 : z[j] = p[j]) /\ \A j \in 1..2 : z[1 + j] = q[j]
  <2>1. /\ z \in Seq(S) /\ Len(z) = Len(p) + Len(q) /\ (\A j \in 1..Len(p) : z[j] = p[j])
        /\ \A j \in 1..Len(q) : z[Len(p) + j] = q[j]
    BY <1>1, Pegado
  <2> HIDE DEF z
  <2>2. QED
    BY <1>1, <1>2, <2>1
<1> HIDE DEF z
<1>5. z[1] = p[1] /\ z[2] = q[1] /\ z[3] = q[2]
  <2>1. 1 \in 1..1 /\ 1 \in 1..2 /\ 1 + 1 = 2 /\ 2 \in 1..2 /\ 1 + 2 = 3
    OBVIOUS
  <2>2. QED
    BY <1>4, <2>1
<1>6. z = <<z[1], z[2], z[3]>>
  BY <1>4
<1>7. QED
  BY <1>3, <1>5, <1>6 DEF z, p, q

LEMMA Juntas32 ==
  ASSUME NEW a, NEW b, NEW c, NEW d, NEW e
  PROVE  <<a, b, c>> \o <<d, e>> = <<a, b, c, d, e>>
<1> DEFINE S == {a, b, c, d, e}
           p == <<a, b, c>>
           q == <<d, e>>
           z == p \o q
<1>1. p \in Seq(S) /\ q \in Seq(S)
  OBVIOUS
<1>2. Len(p) = 3 /\ Len(q) = 2
  OBVIOUS
<1>3. p[1] = a /\ p[2] = b /\ p[3] = c /\ q[1] = d /\ q[2] = e
  OBVIOUS
<1> HIDE DEF S, p, q
<1>4. z \in Seq(S) /\ Len(z) = 5 /\ (\A j \in 1..3 : z[j] = p[j]) /\ \A j \in 1..2 : z[3 + j] = q[j]
  <2>1. /\ z \in Seq(S) /\ Len(z) = Len(p) + Len(q) /\ (\A j \in 1..Len(p) : z[j] = p[j])
        /\ \A j \in 1..Len(q) : z[Len(p) + j] = q[j]
    BY <1>1, Pegado
  <2> HIDE DEF z
  <2>2. QED
    BY <1>1, <1>2, <2>1
<1> HIDE DEF z
<1>5. z[1] = p[1] /\ z[2] = p[2] /\ z[3] = p[3] /\ z[4] = q[1] /\ z[5] = q[2]
  <2>1. 1 \in 1..3 /\ 2 \in 1..3 /\ 3 \in 1..3 /\ 1 \in 1..2 /\ 3 + 1 = 4 /\ 2 \in 1..2 /\ 3 + 2 = 5
    OBVIOUS
  <2>2. QED
    BY <1>4, <2>1
<1>6. z = <<z[1], z[2], z[3], z[4], z[5]>>
  BY <1>4
<1>7. QED
  BY <1>3, <1>5, <1>6 DEF z, p, q

LEMMA Juntas23 ==
  ASSUME NEW a, NEW b, NEW c, NEW d, NEW e
  PROVE  <<a, b>> \o <<c, d, e>> = <<a, b, c, d, e>>
<1> DEFINE S == {a, b, c, d, e}
           p == <<a, b>>
           q == <<c, d, e>>
           z == p \o q
<1>1. p \in Seq(S) /\ q \in Seq(S)
  OBVIOUS
<1>2. Len(p) = 2 /\ Len(q) = 3
  OBVIOUS
<1>3. p[1] = a /\ p[2] = b /\ q[1] = c /\ q[2] = d /\ q[3] = e
  OBVIOUS
<1> HIDE DEF S, p, q
<1>4. z \in Seq(S) /\ Len(z) = 5 /\ (\A j \in 1..2 : z[j] = p[j]) /\ \A j \in 1..3 : z[2 + j] = q[j]
  <2>1. /\ z \in Seq(S) /\ Len(z) = Len(p) + Len(q) /\ (\A j \in 1..Len(p) : z[j] = p[j])
        /\ \A j \in 1..Len(q) : z[Len(p) + j] = q[j]
    BY <1>1, Pegado
  <2> HIDE DEF z
  <2>2. QED
    BY <1>1, <1>2, <2>1
<1> HIDE DEF z
<1>5. z[1] = p[1] /\ z[2] = p[2] /\ z[3] = q[1] /\ z[4] = q[2] /\ z[5] = q[3]
  <2>1. 1 \in 1..2 /\ 2 \in 1..2 /\ 1 \in 1..3 /\ 2 + 1 = 3 /\ 2 \in 1..3 /\ 2 + 2 = 4 /\ 3 \in 1..3 /\ 2 + 3 = 5
    OBVIOUS
  <2>2. QED
    BY <1>4, <2>1
<1>6. z = <<z[1], z[2], z[3], z[4], z[5]>>
  BY <1>4
<1>7. QED
  BY <1>3, <1>5, <1>6 DEF z, p, q

LEMMA Suma1 ==
  ASSUME NEW a
  PROVE  Append(<<>>, a) = <<a>>
OBVIOUS

LEMMA Suma2 ==
  ASSUME NEW a, NEW b
  PROVE  Append(<<a>>, b) = <<a, b>>
<1> DEFINE S == {a, b}
           p == <<a>>
           z == Append(p, b)
<1>1. p \in Seq(S) /\ b \in S
  OBVIOUS
<1>2. Len(p) = 1
  OBVIOUS
<1>3. p[1] = a
  OBVIOUS
<1> HIDE DEF S, p
<1>4. z \in Seq(S) /\ Len(z) = 2 /\ (\A j \in 1..1 : z[j] = p[j]) /\ z[2] = b
  <2>1. /\ z \in Seq(S) /\ Len(z) = Len(p) + 1 /\ z[Len(p) + 1] = b
        /\ \A j \in 1..Len(p) : z[j] = p[j]
    BY <1>1, Agregado
  <2> HIDE DEF z
  <2>2. QED
    BY <1>1, <1>2, <2>1
<1> HIDE DEF z
<1>5. z[1] = p[1]
  BY <1>4
<1>6. z = <<z[1], z[2]>>
  BY <1>4
<1>7. QED
  BY <1>3, <1>4, <1>5, <1>6 DEF z, p

LEMMA Suma3 ==
  ASSUME NEW a, NEW b, NEW c
  PROVE  Append(<<a, b>>, c) = <<a, b, c>>
<1> DEFINE S == {a, b, c}
           p == <<a, b>>
           z == Append(p, c)
<1>1. p \in Seq(S) /\ c \in S
  OBVIOUS
<1>2. Len(p) = 2
  OBVIOUS
<1>3. p[1] = a /\ p[2] = b
  OBVIOUS
<1> HIDE DEF S, p
<1>4. z \in Seq(S) /\ Len(z) = 3 /\ (\A j \in 1..2 : z[j] = p[j]) /\ z[3] = c
  <2>1. /\ z \in Seq(S) /\ Len(z) = Len(p) + 1 /\ z[Len(p) + 1] = c
        /\ \A j \in 1..Len(p) : z[j] = p[j]
    BY <1>1, Agregado
  <2> HIDE DEF z
  <2>2. QED
    BY <1>1, <1>2, <2>1
<1> HIDE DEF z
<1>5. z[1] = p[1] /\ z[2] = p[2]
  BY <1>4
<1>6. z = <<z[1], z[2], z[3]>>
  BY <1>4
<1>7. QED
  BY <1>3, <1>4, <1>5, <1>6 DEF z, p

LEMMA Suma4 ==
  ASSUME NEW a, NEW b, NEW c, NEW d
  PROVE  Append(<<a, b, c>>, d) = <<a, b, c, d>>
<1> DEFINE S == {a, b, c, d}
           p == <<a, b, c>>
           z == Append(p, d)
<1>1. p \in Seq(S) /\ d \in S
  OBVIOUS
<1>2. Len(p) = 3
  OBVIOUS
<1>3. p[1] = a /\ p[2] = b /\ p[3] = c
  OBVIOUS
<1> HIDE DEF S, p
<1>4. z \in Seq(S) /\ Len(z) = 4 /\ (\A j \in 1..3 : z[j] = p[j]) /\ z[4] = d
  <2>1. /\ z \in Seq(S) /\ Len(z) = Len(p) + 1 /\ z[Len(p) + 1] = d
        /\ \A j \in 1..Len(p) : z[j] = p[j]
    BY <1>1, Agregado
  <2> HIDE DEF z
  <2>2. QED
    BY <1>1, <1>2, <2>1
<1> HIDE DEF z
<1>5. z[1] = p[1] /\ z[2] = p[2] /\ z[3] = p[3]
  BY <1>4
<1>6. z = <<z[1], z[2], z[3], z[4]>>
  BY <1>4
<1>7. QED
  BY <1>3, <1>4, <1>5, <1>6 DEF z, p

LEMMA Colas ==
  ASSUME NEW a, NEW b, NEW c
  PROVE  /\ Tail(<<a>>) = <<>> /\ Tail(<<a, b>>) = <<b>> /\ Tail(<<a, b, c>>) = <<b, c>>
         /\ Head(<<a>>) = a /\ Head(<<a, b>>) = a /\ Head(<<a, b, c>>) = a
         /\ <<a>> # <<>> /\ <<a, b>> # <<>> /\ <<a, b, c>> # <<>>
OBVIOUS

-----------------------------------------------------------------------------
(* Each message has the fields that its deserializer takes. *)
LEMMA SeEscriben ==
  ASSUME NEW nombre \in Nombrables, NEW bytes \in Nat, NEW valor \in Nat
  PROVE  /\ Campo(nombre, bytes, valor) \in Escribible /\ Entero(nombre, valor) \in Escribible
         /\ Campo(nombre, bytes, valor).nombre = nombre /\ Campo(nombre, bytes, valor).bytes = bytes
         /\ Campo(nombre, bytes, valor).valor = valor
         /\ Entero(nombre, valor).nombre = nombre /\ Entero(nombre, valor).bytes = 4
         /\ Entero(nombre, valor).valor = valor
BY DEF Campo, Entero, Escribible

LEMMA Bytes1 ==
  ASSUME NEW a, NEW campos, campos = <<a>>, a \in Escribible
  PROVE  Bytes(campos) = a.bytes
<1>1. Len(campos) = 1 /\ campos[1] = a
  OBVIOUS
<1>2. PICK s : /\ s = [i \in 0..Len(campos) |-> IF i = 0 THEN 0 ELSE s[i - 1] + campos[i].bytes]
               /\ Bytes(campos) = s[Len(campos)]
  BY <1>1, BytesPaso
<1>3. s[0] = 0 /\ s[1] = s[0] + a.bytes
  BY <1>1, <1>2
<1>4. a.bytes \in Nat
  BY DEF Escribible
<1>5. QED
  BY <1>1, <1>2, <1>3, <1>4

LEMMA Bytes3 ==
  ASSUME NEW a, NEW b, NEW c, NEW campos, campos = <<a, b, c>>, {a, b, c} \subseteq Escribible
  PROVE  Bytes(campos) = a.bytes + b.bytes + c.bytes
<1>1. Len(campos) = 3 /\ campos[1] = a /\ campos[2] = b /\ campos[3] = c
  OBVIOUS
<1>2. PICK s : /\ s = [i \in 0..Len(campos) |-> IF i = 0 THEN 0 ELSE s[i - 1] + campos[i].bytes]
               /\ Bytes(campos) = s[Len(campos)]
  BY <1>1, BytesPaso
<1>3. s[0] = 0 /\ s[1] = s[0] + a.bytes /\ s[2] = s[1] + b.bytes /\ s[3] = s[2] + c.bytes
  BY <1>1, <1>2
<1>4. a.bytes \in Nat /\ b.bytes \in Nat /\ c.bytes \in Nat
  BY DEF Escribible
<1>5. QED
  BY <1>1, <1>2, <1>3, <1>4

LEMMA Bytes4 ==
  ASSUME NEW a, NEW b, NEW c, NEW d, NEW campos, campos = <<a, b, c, d>>, {a, b, c, d} \subseteq Escribible
  PROVE  Bytes(campos) = a.bytes + b.bytes + c.bytes + d.bytes
<1>1. Len(campos) = 4 /\ campos[1] = a /\ campos[2] = b /\ campos[3] = c /\ campos[4] = d
  OBVIOUS
<1>2. PICK s : /\ s = [i \in 0..Len(campos) |-> IF i = 0 THEN 0 ELSE s[i - 1] + campos[i].bytes]
               /\ Bytes(campos) = s[Len(campos)]
  BY <1>1, BytesPaso
<1>3. s[0] = 0 /\ s[1] = s[0] + a.bytes /\ s[2] = s[1] + b.bytes /\ s[3] = s[2] + c.bytes /\ s[4] = s[3] + d.bytes
  BY <1>1, <1>2
<1>4. a.bytes \in Nat /\ b.bytes \in Nat /\ c.bytes \in Nat /\ d.bytes \in Nat
  BY DEF Escribible
<1>5. QED
  BY <1>1, <1>2, <1>3, <1>4

LEMMA Bytes5 ==
  ASSUME NEW a, NEW b, NEW c, NEW d, NEW e, NEW campos, campos = <<a, b, c, d, e>>,
         {a, b, c, d, e} \subseteq Escribible
  PROVE  Bytes(campos) = a.bytes + b.bytes + c.bytes + d.bytes + e.bytes
<1>1. Len(campos) = 5 /\ campos[1] = a /\ campos[2] = b /\ campos[3] = c /\ campos[4] = d /\ campos[5] = e
  OBVIOUS
<1>2. PICK s : /\ s = [i \in 0..Len(campos) |-> IF i = 0 THEN 0 ELSE s[i - 1] + campos[i].bytes]
               /\ Bytes(campos) = s[Len(campos)]
  BY <1>1, BytesPaso
<1>3. /\ s[0] = 0 /\ s[1] = s[0] + a.bytes /\ s[2] = s[1] + b.bytes /\ s[3] = s[2] + c.bytes
      /\ s[4] = s[3] + d.bytes /\ s[5] = s[4] + e.bytes
  BY <1>1, <1>2
<1>4. a.bytes \in Nat /\ b.bytes \in Nat /\ c.bytes \in Nat /\ d.bytes \in Nat /\ e.bytes \in Nat
  BY DEF Escribible
<1>5. QED
  BY <1>1, <1>2, <1>3, <1>4

DeAbrir   == Path \o Flags
DeAbrirDe == PathDe \o FlagsDe

(* serializar_write and serializar_read. *)
LEMMA BufferBien ==
  ConBuffer \in Seq(Escribible) /\ Calza(ConBufferDe, ConBuffer) /\ Bytes(ConBuffer) = 12 + TamBuff + TamPath
<1> DEFINE a == Entero("offset", 0)
           b == Entero("size_buff", TamBuff)
           c == Campo("buff", TamBuff, 0)
           d == Entero("size_path", TamPath)
           e == Campo("path", TamPath, 0)
<1>1. ConBuffer = <<a, b, c, d, e>>
  BY Juntas32 DEF ConBuffer, Path
<1>2. ConBufferDe = <<<<"offset", 4>>, <<"size_buff", 4>>, <<"buff", Segun>>, <<"size_path", 4>>, <<"path", Segun>>>>
  BY Juntas32 DEF ConBufferDe, PathDe, EnteroDe, SegunDe
<1>3. TamPath \in Nat /\ TamPath > 0 /\ TamBuff \in Nat
  BY MensajesSupuesto
<1>4. /\ a \in Escribible /\ a.nombre = "offset" /\ a.bytes = 4 /\ a.valor = 0
      /\ b \in Escribible /\ b.nombre = "size_buff" /\ b.bytes = 4 /\ b.valor = TamBuff
      /\ c \in Escribible /\ c.nombre = "buff" /\ c.bytes = TamBuff /\ c.valor = 0
      /\ d \in Escribible /\ d.nombre = "size_path" /\ d.bytes = 4 /\ d.valor = TamPath
      /\ e \in Escribible /\ e.nombre = "path" /\ e.bytes = TamPath /\ e.valor = 0
  <2>1. a \in Escribible /\ a.nombre = "offset" /\ a.bytes = 4 /\ a.valor = 0
    BY <1>3 DEF Campo, Entero, Escribible, Nombrables
  <2>2. b \in Escribible /\ b.nombre = "size_buff" /\ b.bytes = 4 /\ b.valor = TamBuff
    BY <1>3 DEF Campo, Entero, Escribible, Nombrables
  <2>3. c \in Escribible /\ c.nombre = "buff" /\ c.bytes = TamBuff /\ c.valor = 0
    BY <1>3 DEF Campo, Entero, Escribible, Nombrables
  <2>4. d \in Escribible /\ d.nombre = "size_path" /\ d.bytes = 4 /\ d.valor = TamPath
    BY <1>3 DEF Campo, Entero, Escribible, Nombrables
  <2>5. e \in Escribible /\ e.nombre = "path" /\ e.bytes = TamPath /\ e.valor = 0
    BY <1>3 DEF Campo, Entero, Escribible, Nombrables
  <2> HIDE DEF a, b, c, d, e
  <2>6. QED
    BY <2>1, <2>2, <2>3, <2>4, <2>5
<1> HIDE DEF a, b, c, d, e
<1>5. Bytes(ConBuffer) = 12 + TamBuff + TamPath
  <2>1. {a, b, c, d, e} \subseteq Escribible
    BY <1>4
  <2>2. Bytes(ConBuffer) = a.bytes + b.bytes + c.bytes + d.bytes + e.bytes
    BY <1>1, <1>4, <2>1, Bytes5
  <2>3. QED
    BY <1>3, <1>4, <2>2
<1>6. ConBuffer \in Seq(Escribible) /\ Len(ConBuffer) = 5 /\ ConBuffer[1] = a /\ ConBuffer[2] = b /\ ConBuffer[3] = c /\ ConBuffer[4] = d /\ ConBuffer[5] = e
  BY <1>1, <1>4
<1>7. Len(ConBufferDe) = 5 /\ ConBufferDe[1] = <<"offset", 4>> /\ ConBufferDe[2] = <<"size_buff", 4>> /\ ConBufferDe[3] = <<"buff", Segun>> /\ ConBufferDe[4] = <<"size_path", 4>> /\ ConBufferDe[5] = <<"path", Segun>>
  BY <1>2
<1>8. Calza(ConBufferDe, ConBuffer)
  <2>1. SUFFICES ASSUME NEW i \in 1..5
        PROVE  /\ ConBufferDe[i][1] = ConBuffer[i].nombre
               /\ \/ ConBufferDe[i][2] = ConBuffer[i].bytes
                  \/ /\ ConBufferDe[i][2] = Segun /\ i # 1
                     /\ ConBuffer[i - 1].bytes > 0 /\ ConBuffer[i - 1].valor = ConBuffer[i].bytes
    BY <1>6, <1>7 DEF Calza
  <2>2. CASE i = 1
    BY <1>3, <1>4, <1>6, <1>7, <2>2
  <2>3. CASE i = 2
    BY <1>3, <1>4, <1>6, <1>7, <2>3
  <2>4. CASE i = 3
    BY <1>3, <1>4, <1>6, <1>7, <2>4
  <2>5. CASE i = 4
    BY <1>3, <1>4, <1>6, <1>7, <2>5
  <2>6. CASE i = 5
    BY <1>3, <1>4, <1>6, <1>7, <2>6
  <2>7. QED
    BY <2>2, <2>3, <2>4, <2>5, <2>6
<1>9. QED
  BY <1>5, <1>6, <1>8

(* serialiazar_open. *)
LEMMA AbrirBien ==
  DeAbrir \in Seq(Escribible) /\ Calza(DeAbrirDe, DeAbrir) /\ Bytes(DeAbrir) = 16 + TamPath
<1> DEFINE a == Entero("size_path", TamPath)
           b == Campo("path", TamPath, 0)
           c == Entero("crear", 0)
           d == Entero("crear_ensure", 0)
           e == Entero("truncate", 0)
<1>1. DeAbrir = <<a, b, c, d, e>>
  BY Juntas23 DEF DeAbrir, Path, Flags
<1>2. DeAbrirDe = <<<<"size_path", 4>>, <<"path", Segun>>, <<"crear", 4>>, <<"crear_ensure", 4>>, <<"truncate", 4>>>>
  BY Juntas23 DEF DeAbrirDe, PathDe, FlagsDe, EnteroDe, SegunDe
<1>3. TamPath \in Nat /\ TamPath > 0 /\ TamBuff \in Nat
  BY MensajesSupuesto
<1>4. /\ a \in Escribible /\ a.nombre = "size_path" /\ a.bytes = 4 /\ a.valor = TamPath
      /\ b \in Escribible /\ b.nombre = "path" /\ b.bytes = TamPath /\ b.valor = 0
      /\ c \in Escribible /\ c.nombre = "crear" /\ c.bytes = 4 /\ c.valor = 0
      /\ d \in Escribible /\ d.nombre = "crear_ensure" /\ d.bytes = 4 /\ d.valor = 0
      /\ e \in Escribible /\ e.nombre = "truncate" /\ e.bytes = 4 /\ e.valor = 0
  <2>1. a \in Escribible /\ a.nombre = "size_path" /\ a.bytes = 4 /\ a.valor = TamPath
    BY <1>3 DEF Campo, Entero, Escribible, Nombrables
  <2>2. b \in Escribible /\ b.nombre = "path" /\ b.bytes = TamPath /\ b.valor = 0
    BY <1>3 DEF Campo, Entero, Escribible, Nombrables
  <2>3. c \in Escribible /\ c.nombre = "crear" /\ c.bytes = 4 /\ c.valor = 0
    BY <1>3 DEF Campo, Entero, Escribible, Nombrables
  <2>4. d \in Escribible /\ d.nombre = "crear_ensure" /\ d.bytes = 4 /\ d.valor = 0
    BY <1>3 DEF Campo, Entero, Escribible, Nombrables
  <2>5. e \in Escribible /\ e.nombre = "truncate" /\ e.bytes = 4 /\ e.valor = 0
    BY <1>3 DEF Campo, Entero, Escribible, Nombrables
  <2> HIDE DEF a, b, c, d, e
  <2>6. QED
    BY <2>1, <2>2, <2>3, <2>4, <2>5
<1> HIDE DEF a, b, c, d, e
<1>5. Bytes(DeAbrir) = 16 + TamPath
  <2>1. {a, b, c, d, e} \subseteq Escribible
    BY <1>4
  <2>2. Bytes(DeAbrir) = a.bytes + b.bytes + c.bytes + d.bytes + e.bytes
    BY <1>1, <1>4, <2>1, Bytes5
  <2>3. QED
    BY <1>3, <1>4, <2>2
<1>6. DeAbrir \in Seq(Escribible) /\ Len(DeAbrir) = 5 /\ DeAbrir[1] = a /\ DeAbrir[2] = b /\ DeAbrir[3] = c /\ DeAbrir[4] = d /\ DeAbrir[5] = e
  BY <1>1, <1>4
<1>7. Len(DeAbrirDe) = 5 /\ DeAbrirDe[1] = <<"size_path", 4>> /\ DeAbrirDe[2] = <<"path", Segun>> /\ DeAbrirDe[3] = <<"crear", 4>> /\ DeAbrirDe[4] = <<"crear_ensure", 4>> /\ DeAbrirDe[5] = <<"truncate", 4>>
  BY <1>2
<1>8. Calza(DeAbrirDe, DeAbrir)
  <2>1. SUFFICES ASSUME NEW i \in 1..5
        PROVE  /\ DeAbrirDe[i][1] = DeAbrir[i].nombre
               /\ \/ DeAbrirDe[i][2] = DeAbrir[i].bytes
                  \/ /\ DeAbrirDe[i][2] = Segun /\ i # 1
                     /\ DeAbrir[i - 1].bytes > 0 /\ DeAbrir[i - 1].valor = DeAbrir[i].bytes
    BY <1>6, <1>7 DEF Calza
  <2>2. CASE i = 1
    BY <1>3, <1>4, <1>6, <1>7, <2>2
  <2>3. CASE i = 2
    BY <1>3, <1>4, <1>6, <1>7, <2>3
  <2>4. CASE i = 3
    BY <1>3, <1>4, <1>6, <1>7, <2>4
  <2>5. CASE i = 4
    BY <1>3, <1>4, <1>6, <1>7, <2>5
  <2>6. CASE i = 5
    BY <1>3, <1>4, <1>6, <1>7, <2>6
  <2>7. QED
    BY <2>2, <2>3, <2>4, <2>5, <2>6
<1>9. QED
  BY <1>5, <1>6, <1>8

(* serializar_utime. *)
LEMMA FechaBien ==
  ConFecha \in Seq(Escribible) /\ Calza(ConFechaDe, ConFecha) /\ Bytes(ConFecha) = 12 + TamPath
<1> DEFINE a == Entero("size_path", TamPath)
           b == Campo("path", TamPath, 0)
           c == Campo("utime", 8, 0)
<1>1. ConFecha = <<a, b, c>>
  BY Juntas21 DEF ConFecha, Path
<1>2. ConFechaDe = <<<<"size_path", 4>>, <<"path", Segun>>, <<"utime", 8>>>>
  BY Juntas21 DEF ConFechaDe, PathDe, EnteroDe, SegunDe
<1>3. TamPath \in Nat /\ TamPath > 0 /\ TamBuff \in Nat
  BY MensajesSupuesto
<1>4. /\ a \in Escribible /\ a.nombre = "size_path" /\ a.bytes = 4 /\ a.valor = TamPath
      /\ b \in Escribible /\ b.nombre = "path" /\ b.bytes = TamPath /\ b.valor = 0
      /\ c \in Escribible /\ c.nombre = "utime" /\ c.bytes = 8 /\ c.valor = 0
  <2>1. a \in Escribible /\ a.nombre = "size_path" /\ a.bytes = 4 /\ a.valor = TamPath
    BY <1>3 DEF Campo, Entero, Escribible, Nombrables
  <2>2. b \in Escribible /\ b.nombre = "path" /\ b.bytes = TamPath /\ b.valor = 0
    BY <1>3 DEF Campo, Entero, Escribible, Nombrables
  <2>3. c \in Escribible /\ c.nombre = "utime" /\ c.bytes = 8 /\ c.valor = 0
    BY <1>3 DEF Campo, Entero, Escribible, Nombrables
  <2> HIDE DEF a, b, c
  <2>4. QED
    BY <2>1, <2>2, <2>3
<1> HIDE DEF a, b, c
<1>5. Bytes(ConFecha) = 12 + TamPath
  <2>1. {a, b, c} \subseteq Escribible
    BY <1>4
  <2>2. Bytes(ConFecha) = a.bytes + b.bytes + c.bytes
    BY <1>1, <1>4, <2>1, Bytes3
  <2>3. QED
    BY <1>3, <1>4, <2>2
<1>6. ConFecha \in Seq(Escribible) /\ Len(ConFecha) = 3 /\ ConFecha[1] = a /\ ConFecha[2] = b /\ ConFecha[3] = c
  BY <1>1, <1>4
<1>7. Len(ConFechaDe) = 3 /\ ConFechaDe[1] = <<"size_path", 4>> /\ ConFechaDe[2] = <<"path", Segun>> /\ ConFechaDe[3] = <<"utime", 8>>
  BY <1>2
<1>8. Calza(ConFechaDe, ConFecha)
  <2>1. SUFFICES ASSUME NEW i \in 1..3
        PROVE  /\ ConFechaDe[i][1] = ConFecha[i].nombre
               /\ \/ ConFechaDe[i][2] = ConFecha[i].bytes
                  \/ /\ ConFechaDe[i][2] = Segun /\ i # 1
                     /\ ConFecha[i - 1].bytes > 0 /\ ConFecha[i - 1].valor = ConFecha[i].bytes
    BY <1>6, <1>7 DEF Calza
  <2>2. CASE i = 1
    BY <1>3, <1>4, <1>6, <1>7, <2>2
  <2>3. CASE i = 2
    BY <1>3, <1>4, <1>6, <1>7, <2>3
  <2>4. CASE i = 3
    BY <1>3, <1>4, <1>6, <1>7, <2>4
  <2>5. QED
    BY <2>2, <2>3, <2>4
<1>9. QED
  BY <1>5, <1>6, <1>8

(* serializar_truncate. *)
LEMMA TamanioBien ==
  ConTamanio \in Seq(Escribible) /\ Calza(ConTamanioDe, ConTamanio) /\ Bytes(ConTamanio) = 8 + TamPath
<1> DEFINE a == Entero("new_size", 0)
           b == Entero("size_path", TamPath)
           c == Campo("path", TamPath, 0)
<1>1. ConTamanio = <<a, b, c>>
  BY Juntas12 DEF ConTamanio, Path
<1>2. ConTamanioDe = <<<<"new_size", 4>>, <<"size_path", 4>>, <<"path", Segun>>>>
  BY Juntas12 DEF ConTamanioDe, PathDe, EnteroDe, SegunDe
<1>3. TamPath \in Nat /\ TamPath > 0 /\ TamBuff \in Nat
  BY MensajesSupuesto
<1>4. /\ a \in Escribible /\ a.nombre = "new_size" /\ a.bytes = 4 /\ a.valor = 0
      /\ b \in Escribible /\ b.nombre = "size_path" /\ b.bytes = 4 /\ b.valor = TamPath
      /\ c \in Escribible /\ c.nombre = "path" /\ c.bytes = TamPath /\ c.valor = 0
  <2>1. a \in Escribible /\ a.nombre = "new_size" /\ a.bytes = 4 /\ a.valor = 0
    BY <1>3 DEF Campo, Entero, Escribible, Nombrables
  <2>2. b \in Escribible /\ b.nombre = "size_path" /\ b.bytes = 4 /\ b.valor = TamPath
    BY <1>3 DEF Campo, Entero, Escribible, Nombrables
  <2>3. c \in Escribible /\ c.nombre = "path" /\ c.bytes = TamPath /\ c.valor = 0
    BY <1>3 DEF Campo, Entero, Escribible, Nombrables
  <2> HIDE DEF a, b, c
  <2>4. QED
    BY <2>1, <2>2, <2>3
<1> HIDE DEF a, b, c
<1>5. Bytes(ConTamanio) = 8 + TamPath
  <2>1. {a, b, c} \subseteq Escribible
    BY <1>4
  <2>2. Bytes(ConTamanio) = a.bytes + b.bytes + c.bytes
    BY <1>1, <1>4, <2>1, Bytes3
  <2>3. QED
    BY <1>3, <1>4, <2>2
<1>6. ConTamanio \in Seq(Escribible) /\ Len(ConTamanio) = 3 /\ ConTamanio[1] = a /\ ConTamanio[2] = b /\ ConTamanio[3] = c
  BY <1>1, <1>4
<1>7. Len(ConTamanioDe) = 3 /\ ConTamanioDe[1] = <<"new_size", 4>> /\ ConTamanioDe[2] = <<"size_path", 4>> /\ ConTamanioDe[3] = <<"path", Segun>>
  BY <1>2
<1>8. Calza(ConTamanioDe, ConTamanio)
  <2>1. SUFFICES ASSUME NEW i \in 1..3
        PROVE  /\ ConTamanioDe[i][1] = ConTamanio[i].nombre
               /\ \/ ConTamanioDe[i][2] = ConTamanio[i].bytes
                  \/ /\ ConTamanioDe[i][2] = Segun /\ i # 1
                     /\ ConTamanio[i - 1].bytes > 0 /\ ConTamanio[i - 1].valor = ConTamanio[i].bytes
    BY <1>6, <1>7 DEF Calza
  <2>2. CASE i = 1
    BY <1>3, <1>4, <1>6, <1>7, <2>2
  <2>3. CASE i = 2
    BY <1>3, <1>4, <1>6, <1>7, <2>3
  <2>4. CASE i = 3
    BY <1>3, <1>4, <1>6, <1>7, <2>4
  <2>5. QED
    BY <2>2, <2>3, <2>4
<1>9. QED
  BY <1>5, <1>6, <1>8

(* serializar_rename. *)
LEMMA RenombrarBien ==
  DosPaths \in Seq(Escribible) /\ Calza(RenameDe, DosPaths) /\ Bytes(DosPaths) = 8 + TamPath + TamPath
<1> DEFINE a == Entero("new_size", TamPath)
           b == Campo("new", TamPath, 0)
           c == Entero("old_size", TamPath)
           d == Campo("old", TamPath, 0)
<1>1. DosPaths = <<a, b, c, d>>
  BY DEF DosPaths
<1>2. RenameDe = <<<<"new_size", 4>>, <<"new", Segun>>, <<"old_size", 4>>, <<"old", Segun>>>>
  BY DEF RenameDe, EnteroDe, SegunDe
<1>3. TamPath \in Nat /\ TamPath > 0 /\ TamBuff \in Nat
  BY MensajesSupuesto
<1>4. /\ a \in Escribible /\ a.nombre = "new_size" /\ a.bytes = 4 /\ a.valor = TamPath
      /\ b \in Escribible /\ b.nombre = "new" /\ b.bytes = TamPath /\ b.valor = 0
      /\ c \in Escribible /\ c.nombre = "old_size" /\ c.bytes = 4 /\ c.valor = TamPath
      /\ d \in Escribible /\ d.nombre = "old" /\ d.bytes = TamPath /\ d.valor = 0
  <2>1. a \in Escribible /\ a.nombre = "new_size" /\ a.bytes = 4 /\ a.valor = TamPath
    BY <1>3 DEF Campo, Entero, Escribible, Nombrables
  <2>2. b \in Escribible /\ b.nombre = "new" /\ b.bytes = TamPath /\ b.valor = 0
    BY <1>3 DEF Campo, Entero, Escribible, Nombrables
  <2>3. c \in Escribible /\ c.nombre = "old_size" /\ c.bytes = 4 /\ c.valor = TamPath
    BY <1>3 DEF Campo, Entero, Escribible, Nombrables
  <2>4. d \in Escribible /\ d.nombre = "old" /\ d.bytes = TamPath /\ d.valor = 0
    BY <1>3 DEF Campo, Entero, Escribible, Nombrables
  <2> HIDE DEF a, b, c, d
  <2>5. QED
    BY <2>1, <2>2, <2>3, <2>4
<1> HIDE DEF a, b, c, d
<1>5. Bytes(DosPaths) = 8 + TamPath + TamPath
  <2>1. {a, b, c, d} \subseteq Escribible
    BY <1>4
  <2>2. Bytes(DosPaths) = a.bytes + b.bytes + c.bytes + d.bytes
    BY <1>1, <1>4, <2>1, Bytes4
  <2>3. QED
    BY <1>3, <1>4, <2>2
<1>6. DosPaths \in Seq(Escribible) /\ Len(DosPaths) = 4 /\ DosPaths[1] = a /\ DosPaths[2] = b /\ DosPaths[3] = c /\ DosPaths[4] = d
  BY <1>1, <1>4
<1>7. Len(RenameDe) = 4 /\ RenameDe[1] = <<"new_size", 4>> /\ RenameDe[2] = <<"new", Segun>> /\ RenameDe[3] = <<"old_size", 4>> /\ RenameDe[4] = <<"old", Segun>>
  BY <1>2
<1>8. Calza(RenameDe, DosPaths)
  <2>1. SUFFICES ASSUME NEW i \in 1..4
        PROVE  /\ RenameDe[i][1] = DosPaths[i].nombre
               /\ \/ RenameDe[i][2] = DosPaths[i].bytes
                  \/ /\ RenameDe[i][2] = Segun /\ i # 1
                     /\ DosPaths[i - 1].bytes > 0 /\ DosPaths[i - 1].valor = DosPaths[i].bytes
    BY <1>6, <1>7 DEF Calza
  <2>2. CASE i = 1
    BY <1>3, <1>4, <1>6, <1>7, <2>2
  <2>3. CASE i = 2
    BY <1>3, <1>4, <1>6, <1>7, <2>3
  <2>4. CASE i = 3
    BY <1>3, <1>4, <1>6, <1>7, <2>4
  <2>5. CASE i = 4
    BY <1>3, <1>4, <1>6, <1>7, <2>5
  <2>6. QED
    BY <2>2, <2>3, <2>4, <2>5
<1>9. QED
  BY <1>5, <1>6, <1>8

UnPath   == <<Campo("path", TamPath, 0)>>
UnPathDe == <<<<"path", TamPath>>>>

(* serializar_path. *)
LEMMA PathBien ==
  UnPath \in Seq(Escribible) /\ Calza(UnPathDe, UnPath) /\ Bytes(UnPath) = TamPath
<1> DEFINE a == Campo("path", TamPath, 0)
<1>1. UnPath = <<a>>
  BY DEF UnPath
<1>2. UnPathDe = <<<<"path", TamPath>>>>
  BY DEF UnPathDe
<1>3. TamPath \in Nat /\ TamPath > 0 /\ TamBuff \in Nat
  BY MensajesSupuesto
<1>4. /\ a \in Escribible /\ a.nombre = "path" /\ a.bytes = TamPath /\ a.valor = 0
  <2>1. a \in Escribible /\ a.nombre = "path" /\ a.bytes = TamPath /\ a.valor = 0
    BY <1>3 DEF Campo, Entero, Escribible, Nombrables
  <2> HIDE DEF a
  <2>2. QED
    BY <2>1
<1> HIDE DEF a
<1>5. Bytes(UnPath) = TamPath
  <2>1. a \in Escribible
    BY <1>4
  <2>2. Bytes(UnPath) = a.bytes
    BY <1>1, <1>4, <2>1, Bytes1
  <2>3. QED
    BY <1>3, <1>4, <2>2
<1>6. UnPath \in Seq(Escribible) /\ Len(UnPath) = 1 /\ UnPath[1] = a
  BY <1>1, <1>4
<1>7. Len(UnPathDe) = 1 /\ UnPathDe[1] = <<"path", TamPath>>
  BY <1>2
<1>8. Calza(UnPathDe, UnPath)
  <2>1. SUFFICES ASSUME NEW i \in 1..1
        PROVE  /\ UnPathDe[i][1] = UnPath[i].nombre
               /\ \/ UnPathDe[i][2] = UnPath[i].bytes
                  \/ /\ UnPathDe[i][2] = Segun /\ i # 1
                     /\ UnPath[i - 1].bytes > 0 /\ UnPath[i - 1].valor = UnPath[i].bytes
    BY <1>6, <1>7 DEF Calza
  <2>2. CASE i = 1
    BY <1>3, <1>4, <1>6, <1>7, <2>2
  <2>3. QED
    BY <2>2
<1>9. QED
  BY <1>5, <1>6, <1>8

AtributosDe == <<EnteroDe("size"), <<"modif_time", 8>>, <<"tipo", 1>>>>

(* serializar_getattr. *)
LEMMA AtributosBien ==
  Atributos \in Seq(Escribible) /\ Calza(AtributosDe, Atributos) /\ Bytes(Atributos) = 13
<1> DEFINE a == Entero("size", 0)
           b == Campo("modif_time", 8, 0)
           c == Campo("tipo", 1, 0)
<1>1. Atributos = <<a, b, c>>
  BY DEF Atributos
<1>2. AtributosDe = <<<<"size", 4>>, <<"modif_time", 8>>, <<"tipo", 1>>>>
  BY DEF AtributosDe, EnteroDe
<1>3. TamPath \in Nat /\ TamPath > 0 /\ TamBuff \in Nat
  BY MensajesSupuesto
<1>4. /\ a \in Escribible /\ a.nombre = "size" /\ a.bytes = 4 /\ a.valor = 0
      /\ b \in Escribible /\ b.nombre = "modif_time" /\ b.bytes = 8 /\ b.valor = 0
      /\ c \in Escribible /\ c.nombre = "tipo" /\ c.bytes = 1 /\ c.valor = 0
  <2>1. a \in Escribible /\ a.nombre = "size" /\ a.bytes = 4 /\ a.valor = 0
    BY <1>3 DEF Campo, Entero, Escribible, Nombrables
  <2>2. b \in Escribible /\ b.nombre = "modif_time" /\ b.bytes = 8 /\ b.valor = 0
    BY <1>3 DEF Campo, Entero, Escribible, Nombrables
  <2>3. c \in Escribible /\ c.nombre = "tipo" /\ c.bytes = 1 /\ c.valor = 0
    BY <1>3 DEF Campo, Entero, Escribible, Nombrables
  <2> HIDE DEF a, b, c
  <2>4. QED
    BY <2>1, <2>2, <2>3
<1> HIDE DEF a, b, c
<1>5. Bytes(Atributos) = 13
  <2>1. {a, b, c} \subseteq Escribible
    BY <1>4
  <2>2. Bytes(Atributos) = a.bytes + b.bytes + c.bytes
    BY <1>1, <1>4, <2>1, Bytes3
  <2>3. QED
    BY <1>3, <1>4, <2>2
<1>6. Atributos \in Seq(Escribible) /\ Len(Atributos) = 3 /\ Atributos[1] = a /\ Atributos[2] = b /\ Atributos[3] = c
  BY <1>1, <1>4
<1>7. Len(AtributosDe) = 3 /\ AtributosDe[1] = <<"size", 4>> /\ AtributosDe[2] = <<"modif_time", 8>> /\ AtributosDe[3] = <<"tipo", 1>>
  BY <1>2
<1>8. Calza(AtributosDe, Atributos)
  <2>1. SUFFICES ASSUME NEW i \in 1..3
        PROVE  /\ AtributosDe[i][1] = Atributos[i].nombre
               /\ \/ AtributosDe[i][2] = Atributos[i].bytes
                  \/ /\ AtributosDe[i][2] = Segun /\ i # 1
                     /\ Atributos[i - 1].bytes > 0 /\ Atributos[i - 1].valor = Atributos[i].bytes
    BY <1>6, <1>7 DEF Calza
  <2>2. CASE i = 1
    BY <1>3, <1>4, <1>6, <1>7, <2>2
  <2>3. CASE i = 2
    BY <1>3, <1>4, <1>6, <1>7, <2>3
  <2>4. CASE i = 3
    BY <1>3, <1>4, <1>6, <1>7, <2>4
  <2>5. QED
    BY <2>2, <2>3, <2>4
<1>9. QED
  BY <1>5, <1>6, <1>8

(* serializar_lista_ent_dir: the deserializer takes as many names as there are, each of *)
(* the length written before it.                                                    *)
NombresDe(cant) == [i \in 1..(2 * cant) |-> IF i % 2 = 1 THEN EnteroDe("tam_elem") ELSE SegunDe("elem")]

LEMMA NombresBien ==
  ASSUME NEW cant \in Nat
  PROVE  Nombres(cant) \in Seq(Escribible) /\ Calza(NombresDe(cant), Nombres(cant))
<1> DEFINE a == Entero("tam_elem", TamElem)
           b == Campo("elem", TamElem, 0)
           s == Nombres(cant)
           t == NombresDe(cant)
           n == 2 * cant
<1>1. TamElem \in Nat /\ n \in Nat
  BY MensajesSupuesto
<1>2. a \in Escribible /\ a.nombre = "tam_elem" /\ a.bytes = 4 /\ a.valor = TamElem
  BY <1>1 DEF Campo, Entero, Escribible, Nombrables
<1>3. b \in Escribible /\ b.nombre = "elem" /\ b.bytes = TamElem
  BY <1>1 DEF Campo, Escribible, Nombrables
<1>4. s = [i \in 1..n |-> IF i % 2 = 1 THEN a ELSE b]
  BY DEF Nombres
<1>5. t = [i \in 1..n |-> IF i % 2 = 1 THEN <<"tam_elem", 4>> ELSE <<"elem", Segun>>]
  BY DEF NombresDe, EnteroDe, SegunDe
<1> HIDE DEF a, b, s, t, n
<1>6. s \in Seq(Escribible) /\ Len(s) = n /\ Len(t) = n
  BY <1>1, <1>2, <1>3, <1>4, <1>5
<1>7. Calza(t, s)
  <2>1. SUFFICES ASSUME NEW i \in 1..n
        PROVE  /\ t[i][1] = s[i].nombre
               /\ \/ t[i][2] = s[i].bytes
                  \/ /\ t[i][2] = Segun /\ i # 1
                     /\ s[i - 1].bytes > 0 /\ s[i - 1].valor = s[i].bytes
    BY <1>6 DEF Calza
  <2>2. CASE i % 2 = 1
    BY <1>2, <1>4, <1>5, <2>2
  <2>3. CASE i % 2 # 1
    <3>1. i # 1 /\ i - 1 \in 1..n /\ (i - 1) % 2 = 1
      BY <1>1, <2>3
    <3>2. s[i] = b /\ t[i] = <<"elem", Segun>> /\ s[i - 1] = a
      BY <1>4, <1>5, <2>3, <3>1
    <3>3. QED
      BY <1>2, <1>3, <3>1, <3>2
  <2>4. QED
    BY <2>2, <2>3
<1>8. QED
  BY <1>6, <1>7 DEF s, t

(* The requests: what atender_cliente reads after the size is all the body, which the  *)
(* serializer and the call count each its own way.                                   *)
LEMMA PedidoBien ==
  ASSUME NEW op \in Pedibles
  PROVE  /\ Cuerpo(op) \in Seq(Escribible) /\ Calza(Toma(op), Cuerpo(op))
         /\ Bytes(Cuerpo(op)) = PorLeer(op, TamDe(op)) /\ Bytes(Cuerpo(op)) > 0
         /\ Enviado(op) = 8 + Bytes(Cuerpo(op)) /\ TamDe(op) \in Nat
<1>1. TamPath \in Nat /\ TamPath > 0 /\ TamBuff \in Nat
  BY MensajesSupuesto
<1>2. CASE op \in DePath
  <2>1. Cuerpo(op) = UnPath /\ Toma(op) = UnPathDe
    BY <1>2 DEF Cuerpo, Toma, UnPath, UnPathDe, DePath
  <2>2. TamDe(op) = TamPath /\ PorLeer(op, TamDe(op)) = TamPath /\ Enviado(op) = TamPath + 8
    BY <1>1, <1>2 DEF TamDe, PorLeer, Enviado, DePath
  <2>3. QED
    BY <1>1, <2>1, <2>2, PathBien
<1>3. CASE op \in {"READ", "WRITE"}
  <2>1. Cuerpo(op) = ConBuffer /\ Toma(op) = ConBufferDe
    BY <1>3 DEF Cuerpo, Toma, DePath
  <2>2. TamDe(op) = 20 + TamBuff + TamPath /\ PorLeer(op, TamDe(op)) = TamDe(op) - 8 /\ Enviado(op) = TamDe(op)
    BY <1>1, <1>3 DEF TamDe, PorLeer, Enviado, DePath
  <2>3. QED
    BY <1>1, <2>1, <2>2, BufferBien
<1>4. CASE op = "OPEN"
  <2>1. Cuerpo(op) = DeAbrir /\ Toma(op) = DeAbrirDe
    BY <1>4 DEF Cuerpo, Toma, DePath, DeAbrir, DeAbrirDe
  <2>2. TamDe(op) = 24 + TamPath /\ PorLeer(op, TamDe(op)) = TamDe(op) - 8 /\ Enviado(op) = TamDe(op)
    BY <1>1, <1>4 DEF TamDe, PorLeer, Enviado, DePath
  <2>3. QED
    BY <1>1, <2>1, <2>2, AbrirBien
<1>5. CASE op = "UTIMES"
  <2>1. Cuerpo(op) = ConFecha /\ Toma(op) = ConFechaDe
    BY <1>5 DEF Cuerpo, Toma, DePath
  <2>2. TamDe(op) = 20 + TamPath /\ PorLeer(op, TamDe(op)) = TamDe(op) - 8 /\ Enviado(op) = TamDe(op)
    BY <1>1, <1>5 DEF TamDe, PorLeer, Enviado, DePath
  <2>3. QED
    BY <1>1, <2>1, <2>2, FechaBien
<1>6. CASE op = "TRUNCATE"
  <2>1. Cuerpo(op) = ConTamanio /\ Toma(op) = ConTamanioDe
    BY <1>6 DEF Cuerpo, Toma, DePath
  <2>2. TamDe(op) = 16 + TamPath /\ PorLeer(op, TamDe(op)) = TamDe(op) - 8 /\ Enviado(op) = TamDe(op)
    BY <1>1, <1>6 DEF TamDe, PorLeer, Enviado, DePath
  <2>3. QED
    BY <1>1, <2>1, <2>2, TamanioBien
<1>7. CASE op = "RENAME"
  <2>1. Cuerpo(op) = DosPaths /\ Toma(op) = RenameDe
    BY <1>7 DEF Cuerpo, Toma, DePath
  <2>2. TamDe(op) = 16 + TamPath + TamPath /\ PorLeer(op, TamDe(op)) = TamDe(op) - 8 /\ Enviado(op) = TamDe(op)
    BY <1>1, <1>7 DEF TamDe, PorLeer, Enviado, DePath
  <2>3. QED
    BY <1>1, <2>1, <2>2, RenombrarBien
<1>8. QED
  BY <1>2, <1>3, <1>4, <1>5, <1>6, <1>7 DEF Pedibles

(* The number of an operation, and the operation of a number. *)
LEMMA Codigos ==
  ASSUME NEW op \in Pedibles \cup {"ERROR"}
  PROVE  Codigo(op) \in Nat /\ Operaciones[Codigo(op) + 1] = op
<1>1. \E i \in DOMAIN Operaciones : Operaciones[i] = op
  BY DEF Operaciones, Pedibles, DePath
<1>2. DOMAIN Operaciones = 1..16
  BY DEF Operaciones
<1> DEFINE k == CHOOSE i \in DOMAIN Operaciones : Operaciones[i] = op
<1>3. k \in 1..16 /\ Operaciones[k] = op
  BY <1>1, <1>2
<1> HIDE DEF k
<1>4. Codigo(op) = k - 1
  BY DEF Codigo, k
<1>5. QED
  BY <1>3, <1>4

LEMMA NoEsError ==
  ASSUME NEW op \in Pedibles
  PROVE  Codigo(op) # Codigo("ERROR")
<1>1. op # "ERROR"
  BY DEF Pedibles, DePath
<1>2. QED
  BY <1>1, Codigos

LEMMA UnaPalabra ==
  ASSUME NEW de, NEW nombre \in Nombrables, NEW valor \in Nat, NEW w, w = Palabra(de, nombre, valor)
  PROVE  /\ w \in Seq(Byte(de)) /\ Len(w) = 4 /\ w # <<>>
         /\ Head(w).valor = valor /\ Head(w).de = de /\ DelCampo(nombre, w, de)
<1> DEFINE c == Entero(nombre, valor)
<1>1. c \in Escribible /\ c.bytes = 4 /\ c.nombre = nombre /\ c.valor = valor
  BY DEF Entero, Campo, Escribible
<1>2. w = EnBytes(de, c)
  BY DEF Palabra
<1> HIDE DEF c
<1>3. /\ w \in Seq(Byte(de)) /\ Len(w) = 4
      /\ \A j \in 1..4 : w[j] = [de |-> de, campo |-> nombre, valor |-> valor]
  <2> DEFINE e == EnBytes(de, c)
  <2>1. /\ e \in Seq(Byte(de)) /\ Len(e) = c.bytes
        /\ \A j \in 1..c.bytes : e[j] = [de |-> de, campo |-> c.nombre, valor |-> c.valor]
    BY <1>1, UnCampo
  <2> HIDE DEF e
  <2>2. w = e
    BY <1>2 DEF e
  <2>3. QED
    BY <1>1, <2>1, <2>2
<1>4. w # <<>> /\ Head(w) = w[1] /\ DOMAIN w = 1..4
  <2> DEFINE S == Byte(de)
  <2>1. w \in Seq(S) /\ Len(w) = 4
    BY <1>3
  <2> HIDE DEF S
  <2>2. DOMAIN w = 1..Len(w)
    BY <2>1
  <2>3. w # <<>>
    <3>1. SUFFICES ASSUME w = <<>> PROVE FALSE
      OBVIOUS
    <3>2. Len(w) = 0
      BY <3>1
    <3>3. QED
      BY <2>1, <3>2
  <2>4. Head(w) = w[1]
    BY <2>1, <2>3
  <2>5. QED
    BY <2>1, <2>2, <2>3, <2>4
<1>5. DelCampo(nombre, w, de)
  BY <1>3, <1>4 DEF DelCampo, Range
<1>6. QED
  BY <1>3, <1>4, <1>5

(* recv takes the first bytes and leaves the others. *)
LEMMA Partir ==
  ASSUME NEW S, NEW a \in Seq(S), NEW b \in Seq(S), NEW n, n = Len(a)
  PROVE  Primeros(a \o b, n) = a /\ Resto(a \o b, n) = b
<1> DEFINE z == a \o b
<1>1. /\ z \in Seq(S) /\ Len(z) = Len(a) + Len(b) /\ Len(a) \in Nat /\ Len(b) \in Nat
      /\ \A j \in 1..Len(a) : z[j] = a[j]
      /\ \A j \in 1..Len(b) : z[Len(a) + j] = b[j]
  BY Pegado
<1> HIDE DEF z
<1> DEFINE t == Len(b)
           k == Len(z)
           x == SubSeq(z, 1, n)
           y == SubSeq(z, n + 1, k)
<1>2. /\ n \in Nat /\ t \in Nat /\ k = n + t /\ k <= Len(z) /\ n <= Len(z)
      /\ \A j \in 1..n : z[j] = a[j]
      /\ \A j \in 1..t : z[n + j] = b[j]
  BY <1>1
<1>3. y \in Seq(S) /\ Len(y) = t /\ \A j \in 1..t : y[j] = z[n + j]
  <2> DEFINE yy == y
  <2>1. yy = SubSeq(z, n + 1, k)
    OBVIOUS
  <2>2. z \in Seq(S) /\ n \in Nat /\ t \in Nat /\ k = n + t /\ k <= Len(z)
    BY <1>1, <1>2
  <2> HIDE DEF yy, t, k
  <2>3. yy \in Seq(S) /\ Len(yy) = t /\ \A j \in 1..t : yy[j] = z[n + j]
    BY <2>1, <2>2, Pedazo
  <2>4. QED
    BY <2>3 DEF yy
<1>4. x \in Seq(S) /\ Len(x) = n /\ \A j \in 1..n : x[j] = z[j]
  BY <1>1, <1>2
<1> HIDE DEF x, y, t, k
<1>5. x = a
  <2>1. Len(x) = Len(a) /\ \A j \in 1..Len(a) : x[j] = a[j]
    BY <1>2, <1>4
  <2>2. QED
    BY <1>4, <2>1, SeqEqual
<1>6. y = b
  <2>1. Len(y) = Len(b) /\ \A j \in 1..Len(b) : y[j] = b[j]
    BY <1>2, <1>3 DEF t
  <2>2. QED
    BY <1>3, <2>1, SeqEqual
<1>7. QED
  BY <1>5, <1>6 DEF Primeros, Resto, x, y, z, k

LEMMA TomarTodo ==
  ASSUME NEW S, NEW a \in Seq(S), NEW n, n = Len(a)
  PROVE  Primeros(a, n) = a /\ Resto(a, n) = <<>>
<1> DEFINE b == <<>>
<1>1. b \in Seq(S) /\ a \o b = a
  OBVIOUS
<1> HIDE DEF b
<1>2. Primeros(a \o b, n) = a /\ Resto(a \o b, n) = b
  BY <1>1, Partir
<1>3. QED
  BY <1>1, <1>2 DEF b

POp(h, op)  == Palabra(h, "op", Codigo(op))
PTam(h, op) == Palabra(h, "tam", TamDe(op))
Args(h, op) == Empacar(h, Cuerpo(op))

(* A request is its operation, its size and its arguments, and the server reads as many *)
(* bytes of them as were sent.                                                         *)
LEMMA PedidoEs ==
  ASSUME NEW h, NEW op \in Pedibles
  PROVE  /\ Pedido(h, op) = POp(h, op) \o (PTam(h, op) \o Args(h, op))
         /\ POp(h, op) \in Seq(Byte(h)) /\ PTam(h, op) \in Seq(Byte(h)) /\ Args(h, op) \in Seq(Byte(h))
         /\ PTam(h, op) \o Args(h, op) \in Seq(Byte(h))
         /\ Len(POp(h, op)) = 4 /\ Len(PTam(h, op)) = 4
         /\ Len(Args(h, op)) = PorLeer(op, TamDe(op)) /\ Args(h, op) # <<>>
<1> DEFINE S == Byte(h)
           a == POp(h, op)
           b == PTam(h, op)
           c == Args(h, op)
           n == Bytes(Cuerpo(op))
<1>1. a \in Seq(S) /\ Len(a) = 4
  <2>1. Codigo(op) \in Nat /\ "op" \in Nombrables
    BY Codigos DEF Nombrables
  <2>2. QED
    BY <2>1, UnaPalabra DEF POp
<1>2. b \in Seq(S) /\ Len(b) = 4
  <2>1. TamDe(op) \in Nat /\ "tam" \in Nombrables
    BY PedidoBien DEF Nombrables
  <2>2. QED
    BY <2>1, UnaPalabra DEF PTam
<1>3. c \in Seq(S) /\ Len(c) = n /\ n \in Nat
  BY PedidoBien, CuentaLoEscrito DEF Args
<1>4. n = PorLeer(op, TamDe(op)) /\ n > 0 /\ Enviado(op) = 8 + n
  BY PedidoBien
<1>5. Pedido(h, op) = SubSeq(a \o b \o c, 1, 8 + n)
  BY <1>4 DEF Pedido, POp, PTam, Args
<1> HIDE DEF S, a, b, c, n
<1>6. b \o c \in Seq(S) /\ Len(b \o c) = 4 + n
  <2>1. b \o c \in Seq(S) /\ Len(b \o c) = Len(b) + Len(c)
    BY <1>2, <1>3, Pegado
  <2>2. QED
    BY <1>2, <1>3, <2>1
<1> DEFINE z == a \o (b \o c)
           k == 8 + n
<1>7. z \in Seq(S) /\ k = Len(z)
  <2>1. z \in Seq(S) /\ Len(z) = Len(a) + Len(b \o c)
    BY <1>1, <1>6, Pegado
  <2>2. QED
    BY <1>1, <1>3, <1>6, <2>1
<1>8. a \o b \o c = z
  BY <1>1, <1>2, <1>3
<1> HIDE DEF z, k
<1>9. SubSeq(z, 1, k) = z
  BY <1>7, TomarTodo DEF Primeros
<1>10. Pedido(h, op) = z
  BY <1>5, <1>8, <1>9 DEF k
<1>11. c # <<>>
  BY <1>3, <1>4
<1>12. QED
  BY <1>1, <1>2, <1>3, <1>4, <1>6, <1>10, <1>11 DEF S, a, b, c, z

-----------------------------------------------------------------------------
(* The replies.  Tras is what follows the operation in one that is not an error. *)
ConCuerpo == {"GETATTR", "READ"}
TamResp(op, cant) ==
  CASE op = "GETATTR" -> 4 * 2 + 8 + 4 + 1
    [] op = "READDIR" -> Bytes(Nombres(cant)) + 12
    [] op = "READ"    -> TamDe("READ")
CuerpoResp(op, cant) ==
  CASE op = "GETATTR" -> Atributos
    [] op = "READDIR" -> Nombres(cant)
    [] op = "READ"    -> ConBuffer

PErr(h)               == Palabra(h, "op", Codigo("ERROR"))
PError(h)             == Palabra(h, "error", 0)
PRes(h)               == Palabra(h, "res", TamBuff)
PCant(h, cant)        == Palabra(h, "cant", cant)
PTamR(h, op, cant)    == Palabra(h, "tam", TamResp(op, cant))
PCuerpo(h, op, cant)  == Empacar(h, CuerpoResp(op, cant))
TamYCuerpo(h, op, cant) == PTamR(h, op, cant) \o PCuerpo(h, op, cant)

Tras(h, op, cant) ==
  IF op \in ConCuerpo THEN TamYCuerpo(h, op, cant)
  ELSE IF op = "READDIR" THEN PCant(h, cant) \o TamYCuerpo(h, op, cant)
  ELSE IF op = "WRITE" THEN PRes(h) ELSE <<>>

(* The body of a reply has the fields that are taken, and the size it is said to have. *)
LEMMA UnCuerpo ==
  ASSUME NEW op \in ConCuerpo \cup {"READDIR"}, NEW cant \in Nat
  PROVE  /\ CuerpoResp(op, cant) \in Seq(Escribible)
         /\ Calza(TomaRespuesta(op, cant), CuerpoResp(op, cant))
         /\ TamResp(op, cant) \in Nat /\ TamResp(op, cant) - Cabecera(op) = Bytes(CuerpoResp(op, cant))
<1>1. TamPath \in Nat /\ TamPath > 0 /\ TamBuff \in Nat
  BY MensajesSupuesto
<1>2. CASE op = "GETATTR"
  <2>1. CuerpoResp(op, cant) = Atributos /\ TomaRespuesta(op, cant) = AtributosDe
    BY <1>2 DEF CuerpoResp, TomaRespuesta, AtributosDe
  <2>2. TamResp(op, cant) = 21 /\ Cabecera(op) = 8
    BY <1>2 DEF TamResp, Cabecera
  <2>3. QED
    BY <2>1, <2>2, AtributosBien
<1>3. CASE op = "READ"
  <2>1. CuerpoResp(op, cant) = ConBuffer /\ TomaRespuesta(op, cant) = ConBufferDe
    BY <1>3 DEF CuerpoResp, TomaRespuesta
  <2>2. TamDe("READ") = 20 + TamBuff + TamPath
    BY <1>1 DEF TamDe, DePath
  <2>3. TamResp(op, cant) = 20 + TamBuff + TamPath /\ Cabecera(op) = 8
    BY <1>3, <2>2 DEF TamResp, Cabecera
  <2>4. QED
    BY <1>1, <2>1, <2>3, BufferBien
<1>4. CASE op = "READDIR"
  <2>1. CuerpoResp(op, cant) = Nombres(cant) /\ TomaRespuesta(op, cant) = NombresDe(cant)
    BY <1>4 DEF CuerpoResp, TomaRespuesta, NombresDe
  <2>2. TamResp(op, cant) = Bytes(Nombres(cant)) + 12 /\ Cabecera(op) = 12
    BY <1>4 DEF TamResp, Cabecera
  <2>3. Nombres(cant) \in Seq(Escribible) /\ Calza(NombresDe(cant), Nombres(cant))
    BY NombresBien
  <2>4. Bytes(Nombres(cant)) \in Nat
    BY <2>3, CuentaLoEscrito
  <2>5. QED
    BY <2>1, <2>2, <2>3, <2>4
<1>5. QED
  BY <1>2, <1>3, <1>4 DEF ConCuerpo

(* The integers of the messages. *)
LEMMA LasPalabras ==
  ASSUME NEW h, NEW op \in Pedibles, NEW cant \in Nat
  PROVE  /\ POp(h, op) \in Seq(Byte(h)) /\ Len(POp(h, op)) = 4 /\ DelCampo("op", POp(h, op), h)
         /\ Head(POp(h, op)).valor = Codigo(op) /\ Head(POp(h, op)).de = h /\ POp(h, op) # <<>>
         /\ PErr(h) \in Seq(Byte(h)) /\ Len(PErr(h)) = 4 /\ DelCampo("op", PErr(h), h)
         /\ Head(PErr(h)).valor = Codigo("ERROR")
         /\ PError(h) \in Seq(Byte(h)) /\ Len(PError(h)) = 4 /\ DelCampo("error", PError(h), h)
         /\ PRes(h) \in Seq(Byte(h)) /\ Len(PRes(h)) = 4 /\ DelCampo("res", PRes(h), h)
         /\ PCant(h, cant) \in Seq(Byte(h)) /\ Len(PCant(h, cant)) = 4 /\ DelCampo("cant", PCant(h, cant), h)
         /\ Head(PCant(h, cant)).valor = cant
         /\ PTam(h, op) \in Seq(Byte(h)) /\ Len(PTam(h, op)) = 4 /\ DelCampo("tam", PTam(h, op), h)
         /\ Head(PTam(h, op)).valor = TamDe(op) /\ PTam(h, op) # <<>>
<1>1. POp(h, op) \in Seq(Byte(h)) /\ Len(POp(h, op)) = 4 /\ DelCampo("op", POp(h, op), h)
      /\ Head(POp(h, op)).valor = Codigo(op) /\ Head(POp(h, op)).de = h /\ POp(h, op) # <<>>
  <2> DEFINE v == Codigo(op)
             w == POp(h, op)
  <2>1. v \in Nat /\ "op" \in Nombrables /\ w = Palabra(h, "op", v)
    BY Codigos DEF Nombrables, POp
  <2> HIDE DEF v, w
  <2>2. w \in Seq(Byte(h)) /\ Len(w) = 4 /\ DelCampo("op", w, h) /\ Head(w).valor = v /\ Head(w).de = h
          /\ w # <<>>
    BY <2>1, UnaPalabra
  <2>3. QED
    BY <2>2 DEF v, w
<1>2. PErr(h) \in Seq(Byte(h)) /\ Len(PErr(h)) = 4 /\ DelCampo("op", PErr(h), h)
      /\ Head(PErr(h)).valor = Codigo("ERROR")
  <2>1. Codigo("ERROR") \in Nat /\ "op" \in Nombrables
    BY Codigos DEF Nombrables
  <2>2. QED
    BY <2>1, UnaPalabra DEF PErr
<1>3. PError(h) \in Seq(Byte(h)) /\ Len(PError(h)) = 4 /\ DelCampo("error", PError(h), h)
  <2>1. 0 \in Nat /\ "error" \in Nombrables
    BY DEF Nombrables
  <2>2. QED
    BY <2>1, UnaPalabra DEF PError
<1>4. PRes(h) \in Seq(Byte(h)) /\ Len(PRes(h)) = 4 /\ DelCampo("res", PRes(h), h)
  <2>1. TamBuff \in Nat /\ "res" \in Nombrables
    BY MensajesSupuesto DEF Nombrables
  <2>2. QED
    BY <2>1, UnaPalabra DEF PRes
<1>5. PCant(h, cant) \in Seq(Byte(h)) /\ Len(PCant(h, cant)) = 4 /\ DelCampo("cant", PCant(h, cant), h)
      /\ Head(PCant(h, cant)).valor = cant
  <2>1. "cant" \in Nombrables
    BY DEF Nombrables
  <2>2. QED
    BY <2>1, UnaPalabra DEF PCant
<1>6. PTam(h, op) \in Seq(Byte(h)) /\ Len(PTam(h, op)) = 4 /\ DelCampo("tam", PTam(h, op), h)
      /\ Head(PTam(h, op)).valor = TamDe(op) /\ PTam(h, op) # <<>>
  <2>1. TamDe(op) \in Nat /\ "tam" \in Nombrables
    BY PedidoBien DEF Nombrables
  <2>2. QED
    BY <2>1, UnaPalabra DEF PTam
<1>7. QED
  BY <1>1, <1>2, <1>3, <1>4, <1>5, <1>6

(* What the caller reads of a body is what the server wrote. *)
LEMMA ElCuerpo ==
  ASSUME NEW h, NEW op \in ConCuerpo \cup {"READDIR"}, NEW cant \in Nat
  PROVE  /\ PTamR(h, op, cant) \in Seq(Byte(h)) /\ Len(PTamR(h, op, cant)) = 4
         /\ DelCampo("tam", PTamR(h, op, cant), h)
         /\ PCuerpo(h, op, cant) \in Seq(Byte(h)) /\ TamYCuerpo(h, op, cant) \in Seq(Byte(h))
         /\ Len(PCuerpo(h, op, cant)) = Head(PTamR(h, op, cant)).valor - Cabecera(op)
         /\ LET d == Deserializar(TomaRespuesta(op, cant), PCuerpo(h, op, cant))
            IN  DeLosCampos(d.campos, h) /\ d.leido = Len(PCuerpo(h, op, cant))
<1>1. PTamR(h, op, cant) \in Seq(Byte(h)) /\ Len(PTamR(h, op, cant)) = 4 /\ DelCampo("tam", PTamR(h, op, cant), h)
      /\ Head(PTamR(h, op, cant)).valor = TamResp(op, cant)
  <2>1. TamResp(op, cant) \in Nat /\ "tam" \in Nombrables
    BY UnCuerpo DEF Nombrables
  <2>2. QED
    BY <2>1, UnaPalabra DEF PTamR
<1> DEFINE campos == CuerpoResp(op, cant)
           toma   == TomaRespuesta(op, cant)
           bytes  == PCuerpo(h, op, cant)
<1>2. campos \in Seq(Escribible) /\ Calza(toma, campos) /\ bytes = Empacar(h, campos)
  BY UnCuerpo DEF PCuerpo
<1>3. TamResp(op, cant) - Cabecera(op) = Bytes(campos)
  BY UnCuerpo
<1> HIDE DEF campos, toma, bytes
<1>4. bytes \in Seq(Byte(h)) /\ Len(bytes) = Bytes(campos)
  BY <1>2, CuentaLoEscrito
<1>5. DeLosCampos(Deserializar(toma, bytes).campos, h) /\ Deserializar(toma, bytes).leido = Len(bytes)
  BY <1>2, LoEscritoSeLee
<1>6. TamYCuerpo(h, op, cant) \in Seq(Byte(h))
  <2> DEFINE S == Byte(h)
             a == PTamR(h, op, cant)
  <2>1. a \in Seq(S) /\ bytes \in Seq(S) /\ TamYCuerpo(h, op, cant) = a \o bytes
    BY <1>1, <1>4 DEF TamYCuerpo, bytes
  <2> HIDE DEF S, a
  <2>2. a \o bytes \in Seq(S)
    BY <2>1, Pegado
  <2>3. QED
    BY <2>1, <2>2 DEF S
<1>7. QED
  BY <1>1, <1>3, <1>4, <1>5, <1>6 DEF bytes, toma, campos

LEMMA Asociado ==
  ASSUME NEW S, NEW a \in Seq(S), NEW b \in Seq(S), NEW c \in Seq(S)
  PROVE  a \o b \o c = a \o (b \o c)
OBVIOUS

(* A reply that is no error: the operation and what follows it. *)
LEMMA ExitoEs ==
  ASSUME NEW h, NEW op \in Pedibles, NEW cant \in Nat
  PROVE  Exito(h, op, cant) = POp(h, op) \o Tras(h, op, cant) /\ Tras(h, op, cant) \in Seq(Byte(h))
<1> DEFINE S == Byte(h)
           a == POp(h, op)
<1>1. a \in Seq(S)
  BY LasPalabras
<1>2. CASE op \in ConCuerpo
  <2> DEFINE b == PTamR(h, op, cant)
             c == PCuerpo(h, op, cant)
  <2>1. Exito(h, op, cant) = a \o b \o c
    <3>1. CASE op = "GETATTR"
      BY <3>1 DEF Exito, POp, PTamR, PCuerpo, TamResp, CuerpoResp
    <3>2. CASE op = "READ"
      BY <3>2 DEF Exito, POp, PTamR, PCuerpo, TamResp, CuerpoResp
    <3>3. QED
      BY <1>2, <3>1, <3>2 DEF ConCuerpo
  <2>2. b \in Seq(S) /\ c \in Seq(S) /\ TamYCuerpo(h, op, cant) = b \o c /\ TamYCuerpo(h, op, cant) \in Seq(S)
    BY <1>2, ElCuerpo DEF TamYCuerpo
  <2>3. Tras(h, op, cant) = b \o c /\ Tras(h, op, cant) \in Seq(S)
    BY <1>2, <2>2 DEF Tras
  <2> HIDE DEF S, a, b, c
  <2>4. Exito(h, op, cant) = a \o (b \o c)
    BY <1>1, <2>1, <2>2, Asociado
  <2>5. QED
    BY <2>3, <2>4 DEF S, a
<1>3. CASE op = "READDIR"
  <2> DEFINE b == PTamR(h, op, cant)
             c == PCuerpo(h, op, cant)
             e == PCant(h, cant)
  <2>1. Exito(h, op, cant) = a \o e \o b \o c
    BY <1>3 DEF Exito, POp, PTamR, PCuerpo, TamResp, CuerpoResp, PCant
  <2>2. b \in Seq(S) /\ c \in Seq(S) /\ TamYCuerpo(h, op, cant) = b \o c /\ e \in Seq(S)
    BY <1>3, ElCuerpo, LasPalabras DEF TamYCuerpo
  <2>3. Tras(h, op, cant) = e \o (b \o c)
    BY <1>3, <2>2 DEF Tras, ConCuerpo
  <2> HIDE DEF S, a, b, c, e
  <2>4. a \o e \in Seq(S) /\ b \o c \in Seq(S) /\ e \o (b \o c) \in Seq(S)
    BY <1>1, <2>2, Pegado
  <2> DEFINE x == a \o e
             y == b \o c
  <2>5. Exito(h, op, cant) = x \o b \o c /\ x \in Seq(S) /\ y \in Seq(S)
    BY <2>1, <2>4
  <2>6. x \o y = a \o (e \o y)
    <3>1. y \in Seq(S)
      BY <2>5
    <3> HIDE DEF y
    <3>2. QED
      BY <1>1, <2>2, <3>1, Asociado
  <2>7. x \o b \o c = x \o y
    <3>1. x \in Seq(S) /\ b \in Seq(S) /\ c \in Seq(S)
      BY <2>2, <2>5
    <3> HIDE DEF x
    <3>2. x \o b \o c = x \o (b \o c)
      BY <3>1, Asociado
    <3>3. QED
      BY <3>2
  <2>8. Exito(h, op, cant) = a \o (e \o (b \o c))
    BY <2>5, <2>6, <2>7
  <2>9. Tras(h, op, cant) = e \o (b \o c) /\ e \o (b \o c) \in Seq(S)
    BY <2>3, <2>4
  <2>10. QED
    BY <2>8, <2>9 DEF S, a
<1>4. CASE op = "WRITE"
  <2>1. Exito(h, op, cant) = a \o PRes(h)
    BY <1>4 DEF Exito, POp, PRes
  <2>2. Tras(h, op, cant) = PRes(h) /\ PRes(h) \in Seq(S)
    BY <1>4, LasPalabras DEF Tras, ConCuerpo
  <2>3. QED
    BY <2>1, <2>2
<1>5. CASE op \notin ConCuerpo \cup {"READDIR", "WRITE"}
  <2>1. Exito(h, op, cant) = a /\ Tras(h, op, cant) = <<>>
    BY <1>5 DEF Exito, POp, Tras, ConCuerpo
  <2> HIDE DEF a
  <2>2. a = a \o <<>> /\ <<>> \in Seq(S)
    BY <1>1
  <2>3. QED
    BY <2>1, <2>2 DEF a
<1>6. QED
  BY <1>2, <1>3, <1>4, <1>5

(* What may be sent: the reply, an error the caller reads all of, one it waits for more *)
(* of, or nothing.                                                                  *)
LEMMA LasRespuestas ==
  ASSUME NEW h, NEW op \in Pedibles, NEW r \in Respuestas(h, op)
  PROVE  \/ r = <<>>
         \/ r = PErr(h)
         \/ r = PErr(h) \o PError(h) /\ TrasError(op) = <<"error">>
         \/ \E cant \in Cants : r = POp(h, op) \o Tras(h, op, cant)
<1>1. CASE \E cant \in Cants : r = Exito(h, op, cant)
  <2>1. PICK cant \in Cants : r = Exito(h, op, cant)
    BY <1>1
  <2>2. cant \in Nat
    BY MensajesSupuesto
  <2>3. QED
    BY <2>1, <2>2, ExitoEs
<1>2. CASE r = ErrorCorto(h)
  BY <1>2 DEF ErrorCorto, PErr
<1>3. CASE r = ErrorLargo(h) /\ op \in {"OPEN", "RMDIR", "RENAME"}
  BY <1>3 DEF ErrorCorto, ErrorLargo, PErr, PError, TrasError
<1>4. CASE r = <<>>
  BY <1>4
<1>5. QED
  BY <1>1, <1>2, <1>3, <1>4 DEF Respuestas

-----------------------------------------------------------------------------
(* The invariant: where a call is, of the one thread that there is.  The request is in *)
(* the socket or in the server, field by field; then the reply is, or in the caller.   *)
EnReposo(h) ==
  llamada[h] = Nada /\ haciaServidor = <<>> /\ haciaCliente = <<>> /\ atencion = SinPedido

Atiende(op, tam, datos) == atencion = [op |-> op, tam |-> tam, datos |-> datos]

PorLlegar(h, op) ==
  \/ haciaServidor = POp(h, op) \o (PTam(h, op) \o Args(h, op)) /\ Atiende(<<>>, <<>>, <<>>)
  \/ haciaServidor = PTam(h, op) \o Args(h, op) /\ Atiende(POp(h, op), <<>>, <<>>)
  \/ haciaServidor = Args(h, op) /\ Atiende(POp(h, op), PTam(h, op), <<>>)
  \/ haciaServidor = <<>> /\ Atiende(POp(h, op), PTam(h, op), Args(h, op))

Pidiendo(h, op) ==
  /\ llamada[h] = op /\ haciaCliente = <<>> /\ faltan[h] = <<"op">> /\ leido[h] = <<>>
  /\ PorLlegar(h, op)

(* What was read, what there is to read and what is in the socket. *)
Lee(h, l, f, c) == leido[h] = l /\ faltan[h] = f /\ haciaCliente = c

OpLeida(h, op)          == <<"op", POp(h, op)>>
ErrLeido(h)             == <<"op", PErr(h)>>
ErrorLeido(h)           == <<"error", PError(h)>>
ResLeido(h)             == <<"res", PRes(h)>>
CantLeida(h, cant)      == <<"cant", PCant(h, cant)>>
TamLeido(h, op, cant)   == <<"tam", PTamR(h, op, cant)>>
CuerpoLeido(h, op, cant) == <<"cuerpo", PCuerpo(h, op, cant)>>

LeyendoError(h, op) ==
  \/ Lee(h, <<ErrLeido(h)>>, TrasError(op), <<>>)
  \/ Lee(h, <<ErrLeido(h)>>, TrasError(op), PError(h)) /\ TrasError(op) = <<"error">>
  \/ Lee(h, <<ErrLeido(h), ErrorLeido(h)>>, <<>>, <<>>)

LeyendoCuerpo(h, op, cant) ==
  \/ Lee(h, <<OpLeida(h, op), TamLeido(h, op, cant)>>, <<"cuerpo">>, PCuerpo(h, op, cant))
  \/ Lee(h, <<OpLeida(h, op), TamLeido(h, op, cant), CuerpoLeido(h, op, cant)>>, <<>>, <<>>)

LeyendoLista(h, op, cant) ==
  \/ Lee(h, <<OpLeida(h, op), CantLeida(h, cant)>>, <<"tam", "cuerpo">>, TamYCuerpo(h, op, cant))
  \/ Lee(h, <<OpLeida(h, op), CantLeida(h, cant), TamLeido(h, op, cant)>>, <<"cuerpo">>,
         PCuerpo(h, op, cant))
  \/ Lee(h, <<OpLeida(h, op), CantLeida(h, cant), TamLeido(h, op, cant), CuerpoLeido(h, op, cant)>>,
         <<>>, <<>>)

LeyendoExito(h, op, cant) ==
  \/ Lee(h, <<OpLeida(h, op)>>, TrasExito(op), Tras(h, op, cant))
  \/ op = "WRITE" /\ Lee(h, <<OpLeida(h, op), ResLeido(h)>>, <<>>, <<>>)
  \/ op \in ConCuerpo /\ LeyendoCuerpo(h, op, cant)
  \/ op = "READDIR" /\ LeyendoLista(h, op, cant)

Leyendo(h, op) ==
  \/ \E r \in Respuestas(h, op) : Lee(h, <<>>, <<"op">>, r)
  \/ LeyendoError(h, op)
  \/ \E cant \in Cants : LeyendoExito(h, op, cant)

Respondida(h, op) ==
  llamada[h] = op /\ haciaServidor = <<>> /\ atencion = SinPedido /\ Leyendo(h, op)

EstaEn(h) == EnReposo(h) \/ \E op \in Pide : Pidiendo(h, op) \/ Respondida(h, op)

Dominios == DOMAIN llamada = Hilos /\ DOMAIN faltan = Hilos /\ DOMAIN leido = Hilos
SocketInv(h) == Dominios /\ (vivo => EstaEn(h))

-----------------------------------------------------------------------------
(* The steps.  A recv of n bytes, of those that are there. *)
LEMMA RecibirEs ==
  ASSUME NEW h, NEW a \in Seq(Byte(h)), NEW b \in Seq(Byte(h)), NEW n, n = Len(a)
  PROVE  Primeros(a \o b, n) = a /\ Resto(a \o b, n) = b
<1> DEFINE S == Byte(h)
<1>1. a \in Seq(S) /\ b \in Seq(S)
  OBVIOUS
<1> HIDE DEF S
<1>2. QED
  BY <1>1, Partir

LEMMA RecibirTodo ==
  ASSUME NEW h, NEW a \in Seq(Byte(h)), NEW n, n = Len(a)
  PROVE  Primeros(a, n) = a /\ Resto(a, n) = <<>>
<1> DEFINE S == Byte(h)
<1>1. a \in Seq(S)
  OBVIOUS
<1> HIDE DEF S
<1>2. QED
  BY <1>1, TomarTodo

LEMMA NadaQueLeer ==
  ASSUME NEW n \in Nat, n > 0, Recibibles(<<>>, n)
  PROVE  FALSE
<1>1. Len(<<>>) = 0
  OBVIOUS
<1>2. QED
  BY <1>1 DEF Recibibles

LEMMA Pedibilidad == Pide \subseteq Pedibles /\ Nada \notin Pide
BY SocketSupuesto

LEMMA RespuestaEsBytes ==
  ASSUME NEW h, NEW op \in Pedibles, NEW r \in Respuestas(h, op)
  PROVE  <<>> \o r = r
<1> DEFINE S == Byte(h)
           e == PErr(h)
           f == PError(h)
           a == POp(h, op)
<1>1. e \in Seq(S) /\ f \in Seq(S) /\ a \in Seq(S)
  <2>1. 0 \in Nat
    OBVIOUS
  <2>2. QED
    BY <2>1, LasPalabras
<1>2. \/ r = <<>> \/ r = e \/ r = e \o f
      \/ \E cant \in Cants : r = a \o Tras(h, op, cant)
  BY LasRespuestas
<1>3. \A cant \in Cants : Tras(h, op, cant) \in Seq(S)
  BY ExitoEs, MensajesSupuesto
<1> HIDE DEF S, e, f, a
<1>4. CASE \E cant \in Cants : r = a \o Tras(h, op, cant)
  <2>1. PICK cant \in Cants : r = a \o Tras(h, op, cant)
    BY <1>4
  <2> DEFINE t == Tras(h, op, cant)
  <2>2. t \in Seq(S) /\ r = a \o t
    BY <1>3, <2>1
  <2> HIDE DEF t
  <2>3. r \in Seq(S)
    BY <1>1, <2>2, Pegado
  <2>4. QED
    BY <2>3
<1>5. CASE r = e \o f
  <2>1. r \in Seq(S)
    BY <1>1, <1>5, Pegado
  <2>2. QED
    BY <2>1
<1>6. CASE r = <<>> \/ r = e
  BY <1>1, <1>6
<1>7. QED
  BY <1>2, <1>4, <1>5, <1>6

(* The server has the request before it, or part of it. *)
LEMMA LeeLaOp ==
  ASSUME NEW h, NEW op \in Pide, Pidiendo(h, op), LeerOp
  PROVE  Pidiendo(h, op)'
<1>1. op \in Pedibles /\ 0 \in Nat
  BY Pedibilidad
<1>2. /\ POp(h, op) \in Seq(Byte(h)) /\ PTam(h, op) \o Args(h, op) \in Seq(Byte(h))
      /\ Len(POp(h, op)) = 4
  BY <1>1, PedidoEs
<1>3. POp(h, op) # <<>>
  BY <1>1, LasPalabras
<1>4. atencion.op = <<>> /\ UNCHANGED <<haciaCliente, llamada, faltan, leido>>
  BY DEF LeerOp, LeerPalabra
<1>5. /\ haciaServidor = POp(h, op) \o (PTam(h, op) \o Args(h, op))
      /\ atencion = [op |-> <<>>, tam |-> <<>>, datos |-> <<>>]
  BY <1>3, <1>4 DEF Pidiendo, PorLlegar, Atiende
<1>6. Primeros(haciaServidor, 4) = POp(h, op) /\ Resto(haciaServidor, 4) = PTam(h, op) \o Args(h, op)
  BY <1>2, <1>5, RecibirEs
<1>7. atencion' = [atencion EXCEPT !["op"] = POp(h, op)] /\ haciaServidor' = PTam(h, op) \o Args(h, op)
  BY <1>6 DEF LeerOp, LeerPalabra
<1>8. atencion' = [op |-> POp(h, op), tam |-> <<>>, datos |-> <<>>]
  BY <1>5, <1>7
<1>9. PorLlegar(h, op)'
  BY <1>7, <1>8 DEF PorLlegar, Atiende
<1>10. QED
  BY <1>4, <1>9 DEF Pidiendo

LEMMA LeeElTam ==
  ASSUME NEW h, NEW op \in Pide, Pidiendo(h, op), LeerTam
  PROVE  Pidiendo(h, op)'
<1>1. op \in Pedibles /\ 0 \in Nat
  BY Pedibilidad
<1>2. /\ PTam(h, op) \in Seq(Byte(h)) /\ Args(h, op) \in Seq(Byte(h)) /\ Len(PTam(h, op)) = 4
  BY <1>1, PedidoEs
<1>3. PTam(h, op) # <<>>
  BY <1>1, LasPalabras
<1>4. /\ atencion.op # <<>> /\ atencion.tam = <<>>
      /\ UNCHANGED <<haciaCliente, llamada, faltan, leido>>
  BY DEF LeerTam, LeerPalabra
<1>5. /\ haciaServidor = PTam(h, op) \o Args(h, op)
      /\ atencion = [op |-> POp(h, op), tam |-> <<>>, datos |-> <<>>]
  BY <1>3, <1>4 DEF Pidiendo, PorLlegar, Atiende
<1>6. Primeros(haciaServidor, 4) = PTam(h, op) /\ Resto(haciaServidor, 4) = Args(h, op)
  BY <1>2, <1>5, RecibirEs
<1>7. atencion' = [atencion EXCEPT !["tam"] = PTam(h, op)] /\ haciaServidor' = Args(h, op)
  BY <1>6 DEF LeerTam, LeerPalabra
<1>8. atencion' = [op |-> POp(h, op), tam |-> PTam(h, op), datos |-> <<>>]
  BY <1>5, <1>7
<1>9. PorLlegar(h, op)'
  BY <1>7, <1>8 DEF PorLlegar, Atiende
<1>10. QED
  BY <1>4, <1>9 DEF Pidiendo

(* What is asked for is what was written. *)
LEMMA LaOpPedida ==
  ASSUME NEW h, NEW op \in Pide, atencion.op = POp(h, op)
  PROVE  OpPedida = op /\ Head(atencion.op).de = h
<1>1. op \in Pedibles /\ 0 \in Nat
  BY Pedibilidad
<1>2. Head(POp(h, op)).valor = Codigo(op) /\ Head(POp(h, op)).de = h
  BY <1>1, LasPalabras
<1>3. Operaciones[Codigo(op) + 1] = op
  BY <1>1, Codigos
<1>4. QED
  BY <1>2, <1>3 DEF OpPedida

LEMMA LeeLosArgumentos ==
  ASSUME NEW h, NEW op \in Pide, Pidiendo(h, op), LeerArgumentos
  PROVE  Pidiendo(h, op)'
<1>1. op \in Pedibles /\ 0 \in Nat
  BY Pedibilidad
<1>2. Args(h, op) \in Seq(Byte(h)) /\ Len(Args(h, op)) = PorLeer(op, TamDe(op)) /\ Args(h, op) # <<>>
  BY <1>1, PedidoEs
<1>3. Head(PTam(h, op)).valor = TamDe(op)
  BY <1>1, LasPalabras
<1>4. /\ atencion.tam # <<>> /\ atencion.datos = <<>>
      /\ UNCHANGED <<haciaCliente, llamada, faltan, leido>>
  BY DEF LeerArgumentos
<1>5. /\ haciaServidor = Args(h, op)
      /\ atencion = [op |-> POp(h, op), tam |-> PTam(h, op), datos |-> <<>>]
  BY <1>2, <1>4 DEF Pidiendo, PorLlegar, Atiende
<1>6. OpPedida = op
  BY <1>5, LaOpPedida
<1> DEFINE n == PorLeer(OpPedida, Head(atencion.tam).valor)
<1>7. n = Len(Args(h, op))
  BY <1>2, <1>3, <1>5, <1>6
<1>8. atencion' = [atencion EXCEPT !.datos = Primeros(haciaServidor, n)] /\ haciaServidor' = Resto(haciaServidor, n)
  BY DEF LeerArgumentos
<1> HIDE DEF n
<1>9. Primeros(haciaServidor, n) = Args(h, op) /\ Resto(haciaServidor, n) = <<>>
  BY <1>2, <1>5, <1>7, RecibirTodo
<1>10. atencion' = [op |-> POp(h, op), tam |-> PTam(h, op), datos |-> Args(h, op)] /\ haciaServidor' = <<>>
  BY <1>5, <1>8, <1>9
<1>11. PorLlegar(h, op)'
  BY <1>10 DEF PorLlegar, Atiende
<1>12. QED
  BY <1>4, <1>11 DEF Pidiendo

LEMMA TodoLeido ==
  ASSUME NEW h, NEW op \in Pide, Pidiendo(h, op), atencion.datos # <<>>
  PROVE  /\ haciaServidor = <<>>
         /\ atencion = [op |-> POp(h, op), tam |-> PTam(h, op), datos |-> Args(h, op)]
BY DEF Pidiendo, PorLlegar, Atiende

LEMMA SeResponde ==
  ASSUME NEW h, NEW op \in Pide, Pidiendo(h, op), Responder
  PROVE  Respondida(h, op)'
<1>1. op \in Pedibles
  BY Pedibilidad
<1>2. atencion.datos # <<>> /\ atencion' = SinPedido /\ UNCHANGED <<haciaServidor, llamada, faltan, leido>>
  BY DEF Responder
<1>3. haciaServidor = <<>> /\ atencion.op = POp(h, op)
  BY <1>2, TodoLeido
<1>4. OpPedida = op /\ Head(atencion.op).de = h
  BY <1>3, LaOpPedida
<1>5. PICK r \in Respuestas(Head(atencion.op).de, OpPedida) : haciaCliente' = haciaCliente \o r
  BY DEF Responder
<1>6. r \in Respuestas(h, op) /\ haciaCliente' = <<>> \o r
  BY <1>4, <1>5 DEF Pidiendo
<1>7. haciaCliente' = r
  BY <1>1, <1>6, RespuestaEsBytes
<1>8. Lee(h, <<>>, <<"op">>, r)'
  BY <1>2, <1>7 DEF Pidiendo, Lee
<1>9. Leyendo(h, op)'
  BY <1>6, <1>8 DEF Leyendo
<1>10. QED
  BY <1>2, <1>3, <1>9 DEF Pidiendo, Respondida

(* With nothing of a request, the server waits. *)
LEMMA NadaQueAtender ==
  ASSUME haciaServidor = <<>>, atencion = SinPedido, AtenderCliente
  PROVE  FALSE
<1>1. ~LeerOp
  <2>1. SUFFICES ASSUME LeerOp PROVE FALSE
    OBVIOUS
  <2>2. Recibibles(<<>>, 4)
    BY <2>1 DEF LeerOp, LeerPalabra
  <2>3. QED
    BY <2>2, NadaQueLeer
<1>2. ~LeerTam
  BY DEF LeerTam, LeerPalabra, SinPedido
<1>3. ~LeerArgumentos /\ ~Responder /\ ~Morir
  BY DEF LeerArgumentos, Responder, Morir, SinPedido
<1>4. QED
  BY <1>1, <1>2, <1>3 DEF AtenderCliente

(* The server's steps, all. *)
LEMMA AtiendeBien ==
  ASSUME NEW h, vivo, EstaEn(h), AtenderCliente
  PROVE  vivo' => EstaEn(h)'
<1>1. ~EnReposo(h)
  BY NadaQueAtender DEF EnReposo
<1>2. PICK op \in Pide : Pidiendo(h, op) \/ Respondida(h, op)
  BY <1>1 DEF EstaEn
<1>3. Pidiendo(h, op)
  BY <1>2, NadaQueAtender DEF Respondida
<1>4. CASE LeerOp
  BY <1>3, <1>4, LeeLaOp DEF EstaEn
<1>5. CASE LeerTam
  BY <1>3, <1>5, LeeElTam DEF EstaEn
<1>6. CASE LeerArgumentos
  BY <1>3, <1>6, LeeLosArgumentos DEF EstaEn
<1>7. CASE Responder
  BY <1>3, <1>7, SeResponde DEF EstaEn
<1>8. CASE Morir
  BY <1>8 DEF Morir
<1>9. QED
  BY <1>4, <1>5, <1>6, <1>7, <1>8 DEF AtenderCliente

LEMMA LlamaBien ==
  ASSUME NEW h \in Hilos, Dominios, EstaEn(h), Llamar(h)
  PROVE  EstaEn(h)'
<1>1. llamada[h] = Nada
  BY DEF Llamar
<1>2. EnReposo(h)
  BY <1>1, Pedibilidad DEF EstaEn, Pidiendo, Respondida
<1>3. PICK op \in Pide : /\ llamada' = [llamada EXCEPT ![h] = op]
                         /\ haciaServidor' = haciaServidor \o Pedido(h, op)
  BY DEF Llamar
<1>4. op \in Pedibles
  BY Pedibilidad
<1>5. haciaServidor' = POp(h, op) \o (PTam(h, op) \o Args(h, op))
  <2> DEFINE S == Byte(h)
             a == POp(h, op)
             b == PTam(h, op) \o Args(h, op)
  <2>1. a \in Seq(S) /\ b \in Seq(S) /\ Pedido(h, op) = a \o b
    BY <1>4, PedidoEs
  <2>2. haciaServidor' = <<>> \o (a \o b)
    BY <1>2, <1>3, <2>1 DEF EnReposo
  <2> HIDE DEF S, a, b
  <2>3. a \o b \in Seq(S)
    BY <2>1, Pegado
  <2>4. haciaServidor' = a \o b
    BY <2>2, <2>3
  <2>5. QED
    BY <2>4 DEF a, b
<1>6. /\ llamada'[h] = op /\ faltan'[h] = <<"op">> /\ leido'[h] = <<>>
      /\ haciaCliente' = <<>> /\ atencion' = [op |-> <<>>, tam |-> <<>>, datos |-> <<>>]
  BY <1>2, <1>3 DEF Llamar, Dominios, EnReposo, SinPedido
<1>7. PorLlegar(h, op)'
  BY <1>5, <1>6 DEF PorLlegar, Atiende
<1>8. QED
  BY <1>6, <1>7 DEF Pidiendo, EstaEn

(* A call that read all of its reply left nothing. *)
LEMMA NadaQuedaSuyo ==
  ASSUME NEW h, NEW op \in Pide, Respondida(h, op), faltan[h] = <<>>
  PROVE  haciaCliente = <<>>
<1>1. op \in Pedibles /\ Leyendo(h, op)
  BY Pedibilidad DEF Respondida
<1>2. <<"op">> # <<>> /\ <<"error">> # <<>> /\ <<"cuerpo">> # <<>> /\ <<"tam", "cuerpo">> # <<>>
  OBVIOUS
<1>3. CASE \E r \in Respuestas(h, op) : Lee(h, <<>>, <<"op">>, r)
  BY <1>2, <1>3 DEF Lee
<1>4. CASE LeyendoError(h, op)
  BY <1>2, <1>4 DEF Lee, LeyendoError
<1>5. CASE \E cant \in Cants : LeyendoExito(h, op, cant)
  <2>1. PICK cant \in Cants : LeyendoExito(h, op, cant)
    BY <1>5
  <2>2. TrasExito(op) = <<>> => Tras(h, op, cant) = <<>>
    BY <1>2 DEF TrasExito, Tras, ConCuerpo
  <2>3. QED
    BY <1>2, <2>1, <2>2 DEF Lee, LeyendoExito, LeyendoCuerpo, LeyendoLista
<1>6. QED
  BY <1>1, <1>3, <1>4, <1>5 DEF Leyendo

LEMMA VuelveBien ==
  ASSUME NEW h \in Hilos, Dominios, EstaEn(h), Volver(h)
  PROVE  EstaEn(h)'
<1>1. llamada[h] # Nada /\ faltan[h] = <<>>
  BY DEF Volver
<1>2. PICK op \in Pide : Pidiendo(h, op) \/ Respondida(h, op)
  BY <1>1 DEF EstaEn, EnReposo
<1>3. Respondida(h, op)
  <2>1. <<"op">> # <<>>
    OBVIOUS
  <2>2. QED
    BY <1>1, <1>2, <2>1 DEF Pidiendo
<1>4. haciaCliente = <<>>
  BY <1>1, <1>3, NadaQuedaSuyo
<1>5. QED
  BY <1>3, <1>4 DEF Respondida, Volver, Dominios, EstaEn, EnReposo

-----------------------------------------------------------------------------
(* A field of the reply: the bytes a of it, and b after them. *)
LEMMA UnaLectura ==
  ASSUME NEW h \in Hilos, Dominios, Recibir(h),
         NEW l, NEW f, NEW a \in Seq(Byte(h)), NEW b \in Seq(Byte(h)), NEW campo, NEW l2, NEW f2,
         leido[h] = l, faltan[h] = f, haciaCliente = a \o b,
         Head(f) = campo, TamCampo(h, campo) = Len(a),
         f2 = Siguen(h, campo, a), l2 = Append(l, <<campo, a>>)
  PROVE  Lee(h, l2, f2, b)'
<1> DEFINE n == TamCampo(h, campo)
           datos == Primeros(haciaCliente, n)
<1>1. datos = a /\ Resto(haciaCliente, n) = b
  BY RecibirEs
<1>2. /\ haciaCliente' = Resto(haciaCliente, n)
      /\ leido' = [leido EXCEPT ![h] = Append(leido[h], <<campo, datos>>)]
      /\ faltan' = [faltan EXCEPT ![h] = Siguen(h, campo, datos)]
  BY DEF Recibir
<1> HIDE DEF n, datos
<1>3. haciaCliente' = b
  BY <1>1, <1>2
<1>4. leido'[h] = Append(leido[h], <<campo, a>>) /\ faltan'[h] = Siguen(h, campo, a)
  BY <1>1, <1>2 DEF Dominios
<1>5. QED
  BY <1>3, <1>4 DEF Lee

LEMMA UltimaLectura ==
  ASSUME NEW h \in Hilos, Dominios, Recibir(h),
         NEW l, NEW f, NEW a \in Seq(Byte(h)), NEW campo, NEW l2, NEW f2,
         leido[h] = l, faltan[h] = f, haciaCliente = a,
         Head(f) = campo, TamCampo(h, campo) = Len(a),
         f2 = Siguen(h, campo, a), l2 = Append(l, <<campo, a>>)
  PROVE  Lee(h, l2, f2, <<>>)'
<1> DEFINE S == Byte(h)
           b == <<>>
<1>1. b \in Seq(S) /\ haciaCliente = a \o b
  <2>1. a \in Seq(S)
    OBVIOUS
  <2> HIDE DEF S
  <2>2. QED
    BY <2>1
<1> HIDE DEF b
<1>2. Lee(h, l2, f2, b)'
  BY <1>1, UnaLectura
<1>3. QED
  BY <1>2 DEF b

LEMMA SinLectura ==
  ASSUME NEW h, Recibir(h), haciaCliente = <<>>, NEW f, faltan[h] = f, NEW campo, Head(f) = campo, 
         campo \in {"op", "error", "res", "cant", "tam"}
  PROVE  FALSE
<1>1. TamCampo(h, campo) = 4
  BY DEF TamCampo
<1>2. Recibibles(<<>>, 4)
  BY <1>1 DEF Recibir
<1>3. QED
  BY <1>2, NadaQueLeer

LEMMA ValorLeido ==
  ASSUME NEW h, NEW i \in DOMAIN leido[h], NEW campo, leido[h][i][1] = campo,
         \A j \in DOMAIN leido[h] : leido[h][j][1] = campo => j = i
  PROVE  ValorDe(h, campo) = Head(leido[h][i][2]).valor
<1> DEFINE k == CHOOSE j \in DOMAIN leido[h] : leido[h][j][1] = campo
<1>1. k \in DOMAIN leido[h] /\ leido[h][k][1] = campo
  OBVIOUS
<1>2. k = i
  BY <1>1
<1> HIDE DEF k
<1>3. ValorDe(h, campo) = Head(leido[h][k][2]).valor
  BY DEF ValorDe, k
<1>4. QED
  BY <1>2, <1>3

(* The first integer of the reply. *)
LEMMA LeePrimero ==
  ASSUME NEW h \in Hilos, Dominios, Recibir(h), NEW op \in Pide, llamada[h] = op,
         NEW r \in Respuestas(h, op), Lee(h, <<>>, <<"op">>, r)
  PROVE  Leyendo(h, op)'
<1>1. op \in Pedibles /\ 0 \in Nat
  BY Pedibilidad
<1>2. leido[h] = <<>> /\ faltan[h] = <<"op">> /\ haciaCliente = r
  BY DEF Lee
<1>3. Head(<<"op">>) = "op" /\ TamCampo(h, "op") = 4
  BY DEF TamCampo
<1>4. /\ POp(h, op) \in Seq(Byte(h)) /\ Len(POp(h, op)) = 4 /\ Head(POp(h, op)).valor = Codigo(op)
      /\ PErr(h) \in Seq(Byte(h)) /\ Len(PErr(h)) = 4 /\ Head(PErr(h)).valor = Codigo("ERROR")
      /\ PError(h) \in Seq(Byte(h))
  BY <1>1, LasPalabras
<1>5. /\ Siguen(h, "op", PErr(h)) = TrasError(op)
      /\ Siguen(h, "op", POp(h, op)) = TrasExito(op)
  BY <1>1, <1>4, NoEsError DEF Siguen
<1>6. Append(<<>>, <<"op", PErr(h)>>) = <<ErrLeido(h)>> /\ Append(<<>>, <<"op", POp(h, op)>>) = <<OpLeida(h, op)>>
  BY Suma1 DEF ErrLeido, OpLeida
<1>7. CASE r = <<>>
  BY <1>2, <1>3, <1>7, SinLectura
<1>8. CASE r = PErr(h)
  <2>1. Lee(h, <<ErrLeido(h)>>, TrasError(op), <<>>)'
    BY <1>2, <1>3, <1>4, <1>5, <1>6, <1>8, UltimaLectura
  <2>2. QED
    BY <2>1 DEF Leyendo, LeyendoError
<1>9. CASE r = PErr(h) \o PError(h) /\ TrasError(op) = <<"error">>
  <2>1. Lee(h, <<ErrLeido(h)>>, TrasError(op), PError(h))'
    BY <1>2, <1>3, <1>4, <1>5, <1>6, <1>9, UnaLectura
  <2>2. QED
    BY <1>9, <2>1 DEF Leyendo, LeyendoError
<1>10. CASE \E cant \in Cants : r = POp(h, op) \o Tras(h, op, cant)
  <2>1. PICK cant \in Cants : r = POp(h, op) \o Tras(h, op, cant)
    BY <1>10
  <2>2. Tras(h, op, cant) \in Seq(Byte(h))
    BY <1>1, MensajesSupuesto, ExitoEs
  <2>3. Lee(h, <<OpLeida(h, op)>>, TrasExito(op), Tras(h, op, cant))'
    BY <1>2, <1>3, <1>4, <1>5, <1>6, <2>1, <2>2, UnaLectura
  <2>4. QED
    BY <2>3 DEF Leyendo, LeyendoExito
<1>11. QED
  BY <1>1, <1>7, <1>8, <1>9, <1>10, LasRespuestas

LEMMA LeeElError ==
  ASSUME NEW h \in Hilos, Dominios, Recibir(h), NEW op \in Pide, LeyendoError(h, op)
  PROVE  LeyendoError(h, op)'
<1>1. op \in Pedibles /\ 0 \in Nat
  BY Pedibilidad
<1>2. faltan[h] # <<>>
  BY DEF Recibir
<1>3. Head(<<"error">>) = "error" /\ TamCampo(h, "error") = 4 /\ Tail(<<"error">>) = <<>>
  BY Colas DEF TamCampo
<1>4. PError(h) \in Seq(Byte(h)) /\ Len(PError(h)) = 4
  BY <1>1, LasPalabras
<1>5. CASE Lee(h, <<ErrLeido(h)>>, TrasError(op), <<>>)
  <2>1. faltan[h] = <<"error">> /\ haciaCliente = <<>>
    BY <1>2, <1>5 DEF Lee, TrasError
  <2>2. QED
    BY <1>3, <2>1, SinLectura
<1>6. CASE Lee(h, <<ErrLeido(h)>>, TrasError(op), PError(h)) /\ TrasError(op) = <<"error">>
  <2>1. leido[h] = <<ErrLeido(h)>> /\ faltan[h] = <<"error">> /\ haciaCliente = PError(h)
    BY <1>6 DEF Lee
  <2>2. Siguen(h, "error", PError(h)) = <<>>
    BY <1>3, <2>1 DEF Siguen
  <2>3. Append(<<ErrLeido(h)>>, <<"error", PError(h)>>) = <<ErrLeido(h), ErrorLeido(h)>>
    BY Suma2 DEF ErrorLeido
  <2>4. Lee(h, <<ErrLeido(h), ErrorLeido(h)>>, <<>>, <<>>)'
    BY <1>3, <1>4, <2>1, <2>2, <2>3, UltimaLectura
  <2>5. QED
    BY <2>4 DEF LeyendoError
<1>7. CASE Lee(h, <<ErrLeido(h), ErrorLeido(h)>>, <<>>, <<>>)
  BY <1>2, <1>7 DEF Lee
<1>8. QED
  BY <1>5, <1>6, <1>7 DEF LeyendoError

LEMMA Dominio2 ==
  ASSUME NEW a, NEW b
  PROVE  DOMAIN <<a, b>> = 1..2 /\ <<a, b>>[1] = a /\ <<a, b>>[2] = b
OBVIOUS

LEMMA Dominio3 ==
  ASSUME NEW a, NEW b, NEW c
  PROVE  DOMAIN <<a, b, c>> = 1..3 /\ <<a, b, c>>[1] = a /\ <<a, b, c>>[2] = b /\ <<a, b, c>>[3] = c
OBVIOUS

LEMMA Dominio4 ==
  ASSUME NEW a, NEW b, NEW c, NEW d
  PROVE  /\ DOMAIN <<a, b, c, d>> = 1..4 /\ <<a, b, c, d>>[1] = a /\ <<a, b, c, d>>[2] = b
         /\ <<a, b, c, d>>[3] = c /\ <<a, b, c, d>>[4] = d
OBVIOUS

(* The integer that each field begins with. *)
LEMMA ElTamLeido ==
  ASSUME NEW h, NEW op, NEW cant, NEW l, leido[h] = l,
         \/ l = <<OpLeida(h, op), TamLeido(h, op, cant)>>
         \/ l = <<OpLeida(h, op), CantLeida(h, cant), TamLeido(h, op, cant)>>
  PROVE  ValorDe(h, "tam") = Head(PTamR(h, op, cant)).valor
<1>1. /\ OpLeida(h, op)[1] = "op" /\ CantLeida(h, cant)[1] = "cant"
      /\ TamLeido(h, op, cant)[1] = "tam" /\ TamLeido(h, op, cant)[2] = PTamR(h, op, cant)
  BY DEF OpLeida, CantLeida, TamLeido
<1>2. CASE l = <<OpLeida(h, op), TamLeido(h, op, cant)>>
  <2>1. DOMAIN leido[h] = 1..2 /\ leido[h][1][1] = "op" /\ leido[h][2] = TamLeido(h, op, cant)
    BY <1>1, <1>2, Dominio2
  <2>2. /\ 2 \in DOMAIN leido[h] /\ leido[h][2][1] = "tam"
        /\ \A j \in DOMAIN leido[h] : leido[h][j][1] = "tam" => j = 2
    BY <1>1, <2>1
  <2>3. ValorDe(h, "tam") = Head(leido[h][2][2]).valor
    BY <2>2, ValorLeido
  <2>4. QED
    BY <1>1, <2>1, <2>3
<1>3. CASE l = <<OpLeida(h, op), CantLeida(h, cant), TamLeido(h, op, cant)>>
  <2>1. /\ DOMAIN leido[h] = 1..3 /\ leido[h][1][1] = "op" /\ leido[h][2][1] = "cant"
        /\ leido[h][3] = TamLeido(h, op, cant)
    BY <1>1, <1>3, Dominio3
  <2>2. /\ 3 \in DOMAIN leido[h] /\ leido[h][3][1] = "tam"
        /\ \A j \in DOMAIN leido[h] : leido[h][j][1] = "tam" => j = 3
    BY <1>1, <2>1
  <2>3. ValorDe(h, "tam") = Head(leido[h][3][2]).valor
    BY <2>2, ValorLeido
  <2>4. QED
    BY <1>1, <2>1, <2>3
<1>4. QED
  BY <1>2, <1>3

LEMMA LeeCuerpo ==
  ASSUME NEW h \in Hilos, Dominios, Recibir(h), NEW op \in ConCuerpo \cup {"READDIR"}, llamada[h] = op,
         NEW cant \in Nat, NEW l, NEW l2, Lee(h, l, <<"cuerpo">>, PCuerpo(h, op, cant)),
         \/ l = <<OpLeida(h, op), TamLeido(h, op, cant)>>
         \/ l = <<OpLeida(h, op), CantLeida(h, cant), TamLeido(h, op, cant)>>,
         l2 = Append(l, CuerpoLeido(h, op, cant))
  PROVE  Lee(h, l2, <<>>, <<>>)'
<1>1. leido[h] = l /\ faltan[h] = <<"cuerpo">> /\ haciaCliente = PCuerpo(h, op, cant)
  BY DEF Lee
<1>2. Head(<<"cuerpo">>) = "cuerpo" /\ Tail(<<"cuerpo">>) = <<>>
  BY Colas
<1>3. TamCampo(h, "cuerpo") = ValorDe(h, "tam") - Cabecera(op)
  BY DEF TamCampo
<1>4. ValorDe(h, "tam") = Head(PTamR(h, op, cant)).valor
  BY <1>1, ElTamLeido
<1>5. PCuerpo(h, op, cant) \in Seq(Byte(h))
      /\ Len(PCuerpo(h, op, cant)) = Head(PTamR(h, op, cant)).valor - Cabecera(op)
  BY ElCuerpo
<1>6. TamCampo(h, "cuerpo") = Len(PCuerpo(h, op, cant))
  BY <1>3, <1>4, <1>5
<1>7. Siguen(h, "cuerpo", PCuerpo(h, op, cant)) = <<>>
  BY <1>1, <1>2 DEF Siguen
<1>8. l2 = Append(l, <<"cuerpo", PCuerpo(h, op, cant)>>)
  BY DEF CuerpoLeido
<1>9. QED
  BY <1>1, <1>2, <1>5, <1>6, <1>7, <1>8, UltimaLectura

(* The size of a body, and what it leaves. *)
LEMMA LeeTam ==
  ASSUME NEW h \in Hilos, Dominios, Recibir(h), NEW op \in ConCuerpo \cup {"READDIR"},
         NEW cant \in Nat, NEW l, NEW l2, Lee(h, l, <<"tam", "cuerpo">>, TamYCuerpo(h, op, cant)),
         l2 = Append(l, TamLeido(h, op, cant))
  PROVE  Lee(h, l2, <<"cuerpo">>, PCuerpo(h, op, cant))'
<1>1. leido[h] = l /\ faltan[h] = <<"tam", "cuerpo">>
      /\ haciaCliente = PTamR(h, op, cant) \o PCuerpo(h, op, cant)
  BY DEF Lee, TamYCuerpo
<1>2. Head(<<"tam", "cuerpo">>) = "tam" /\ Tail(<<"tam", "cuerpo">>) = <<"cuerpo">>
  BY Colas
<1>3. PTamR(h, op, cant) \in Seq(Byte(h)) /\ PCuerpo(h, op, cant) \in Seq(Byte(h))
      /\ TamCampo(h, "tam") = Len(PTamR(h, op, cant))
  BY ElCuerpo DEF TamCampo
<1>4. Siguen(h, "tam", PTamR(h, op, cant)) = <<"cuerpo">>
  BY <1>1, <1>2 DEF Siguen
<1>5. l2 = Append(l, <<"tam", PTamR(h, op, cant)>>)
  BY DEF TamLeido
<1>6. QED
  BY <1>1, <1>2, <1>3, <1>4, <1>5, UnaLectura

LEMMA NoHayMas ==
  ASSUME NEW h, Recibir(h), NEW l, NEW c
  PROVE  ~Lee(h, l, <<>>, c)
BY DEF Lee, Recibir

LEMMA LeeConCuerpo ==
  ASSUME NEW h \in Hilos, Dominios, Recibir(h), NEW op \in ConCuerpo, llamada[h] = op,
         NEW cant \in Nat, LeyendoCuerpo(h, op, cant)
  PROVE  LeyendoCuerpo(h, op, cant)'
<1> DEFINE l  == <<OpLeida(h, op), TamLeido(h, op, cant)>>
           l2 == <<OpLeida(h, op), TamLeido(h, op, cant), CuerpoLeido(h, op, cant)>>
<1>1. Lee(h, l, <<"cuerpo">>, PCuerpo(h, op, cant))
  BY NoHayMas DEF LeyendoCuerpo
<1>2. l2 = Append(l, CuerpoLeido(h, op, cant))
  BY Suma3
<1>3. \/ l = <<OpLeida(h, op), TamLeido(h, op, cant)>>
      \/ l = <<OpLeida(h, op), CantLeida(h, cant), TamLeido(h, op, cant)>>
  OBVIOUS
<1> HIDE DEF l, l2
<1>4. Lee(h, l2, <<>>, <<>>)'
  BY <1>1, <1>2, <1>3, LeeCuerpo
<1>5. QED
  BY <1>4 DEF LeyendoCuerpo, l2

LEMMA LeeLista ==
  ASSUME NEW h \in Hilos, Dominios, Recibir(h), NEW op, op = "READDIR", llamada[h] = op,
         NEW cant \in Nat, LeyendoLista(h, op, cant)
  PROVE  LeyendoLista(h, op, cant)'
<1> DEFINE l  == <<OpLeida(h, op), CantLeida(h, cant)>>
           l2 == <<OpLeida(h, op), CantLeida(h, cant), TamLeido(h, op, cant)>>
           l3 == <<OpLeida(h, op), CantLeida(h, cant), TamLeido(h, op, cant), CuerpoLeido(h, op, cant)>>
<1>1. \/ Lee(h, l, <<"tam", "cuerpo">>, TamYCuerpo(h, op, cant))
      \/ Lee(h, l2, <<"cuerpo">>, PCuerpo(h, op, cant))
  BY NoHayMas DEF LeyendoLista
<1>2. l2 = Append(l, TamLeido(h, op, cant)) /\ l3 = Append(l2, CuerpoLeido(h, op, cant))
  BY Suma3, Suma4
<1>3. \/ l2 = <<OpLeida(h, op), TamLeido(h, op, cant)>>
      \/ l2 = <<OpLeida(h, op), CantLeida(h, cant), TamLeido(h, op, cant)>>
  OBVIOUS
<1>4. op \in ConCuerpo \cup {"READDIR"}
  OBVIOUS
<1> HIDE DEF l, l2, l3
<1>5. CASE Lee(h, l, <<"tam", "cuerpo">>, TamYCuerpo(h, op, cant))
  <2>1. Lee(h, l2, <<"cuerpo">>, PCuerpo(h, op, cant))'
    BY <1>2, <1>4, <1>5, LeeTam
  <2>2. QED
    BY <2>1 DEF LeyendoLista, l2
<1>6. CASE Lee(h, l2, <<"cuerpo">>, PCuerpo(h, op, cant))
  <2>1. Lee(h, l3, <<>>, <<>>)'
    BY <1>2, <1>3, <1>4, <1>6, LeeCuerpo
  <2>2. QED
    BY <2>1 DEF LeyendoLista, l3
<1>7. QED
  BY <1>1, <1>5, <1>6

(* What follows the operation in a reply that is no error. *)
LEMMA LeeElResto ==
  ASSUME NEW h \in Hilos, Dominios, Recibir(h), NEW op \in Pide, llamada[h] = op, NEW cant \in Nat,
         Lee(h, <<OpLeida(h, op)>>, TrasExito(op), Tras(h, op, cant))
  PROVE  LeyendoExito(h, op, cant)'
<1>1. op \in Pedibles
  BY Pedibilidad
<1> DEFINE l == <<OpLeida(h, op)>>
<1>2. leido[h] = l /\ faltan[h] = TrasExito(op) /\ haciaCliente = Tras(h, op, cant) /\ faltan[h] # <<>>
  BY DEF Lee, Recibir
<1>3. CASE op \in ConCuerpo
  <2>1. TrasExito(op) = <<"tam", "cuerpo">> /\ Tras(h, op, cant) = TamYCuerpo(h, op, cant)
    BY <1>3 DEF TrasExito, Tras, ConCuerpo
  <2> DEFINE l2 == <<OpLeida(h, op), TamLeido(h, op, cant)>>
  <2>2. l2 = Append(l, TamLeido(h, op, cant))
    BY Suma2
  <2>3. Lee(h, l, <<"tam", "cuerpo">>, TamYCuerpo(h, op, cant))
    BY <2>1
  <2> HIDE DEF l, l2
  <2>4. Lee(h, l2, <<"cuerpo">>, PCuerpo(h, op, cant))'
    BY <1>3, <2>2, <2>3, LeeTam
  <2>5. QED
    BY <1>3, <2>4 DEF LeyendoExito, LeyendoCuerpo, l2
<1>4. CASE op = "READDIR"
  <2>1. TrasExito(op) = <<"cant", "tam", "cuerpo">> /\ Tras(h, op, cant) = PCant(h, cant) \o TamYCuerpo(h, op, cant)
    BY <1>4 DEF TrasExito, Tras, ConCuerpo
  <2>2. PCant(h, cant) \in Seq(Byte(h)) /\ Len(PCant(h, cant)) = 4
    BY <1>1, LasPalabras
  <2>3. TamYCuerpo(h, op, cant) \in Seq(Byte(h))
    BY <1>4, ElCuerpo
  <2>4. /\ Head(<<"cant", "tam", "cuerpo">>) = "cant" /\ TamCampo(h, "cant") = 4
        /\ Tail(<<"cant", "tam", "cuerpo">>) = <<"tam", "cuerpo">>
    BY Colas DEF TamCampo
  <2>5. <<"tam", "cuerpo">> = Siguen(h, "cant", PCant(h, cant))
    BY <1>2, <2>1, <2>4 DEF Siguen
  <2> DEFINE l2 == <<OpLeida(h, op), CantLeida(h, cant)>>
  <2>6. l2 = Append(l, <<"cant", PCant(h, cant)>>)
    BY Suma2 DEF CantLeida
  <2> HIDE DEF l, l2
  <2>7. Lee(h, l2, <<"tam", "cuerpo">>, TamYCuerpo(h, op, cant))'
    BY <1>2, <2>1, <2>2, <2>3, <2>4, <2>5, <2>6, UnaLectura
  <2>8. QED
    BY <1>4, <2>7 DEF LeyendoExito, LeyendoLista, l2
<1>5. CASE op = "WRITE"
  <2>1. TrasExito(op) = <<"res">> /\ Tras(h, op, cant) = PRes(h)
    BY <1>5 DEF TrasExito, Tras, ConCuerpo
  <2>2. PRes(h) \in Seq(Byte(h)) /\ Len(PRes(h)) = 4
    BY <1>1, LasPalabras
  <2>3. Head(<<"res">>) = "res" /\ TamCampo(h, "res") = 4 /\ Tail(<<"res">>) = <<>>
    BY Colas DEF TamCampo
  <2>4. <<>> = Siguen(h, "res", PRes(h))
    BY <1>2, <2>1, <2>3 DEF Siguen
  <2> DEFINE l2 == <<OpLeida(h, op), ResLeido(h)>>
  <2>5. l2 = Append(l, <<"res", PRes(h)>>)
    BY Suma2 DEF ResLeido
  <2> HIDE DEF l, l2
  <2>6. Lee(h, l2, <<>>, <<>>)'
    BY <1>2, <2>1, <2>2, <2>3, <2>4, <2>5, UltimaLectura
  <2>7. QED
    BY <1>5, <2>6 DEF LeyendoExito, l2
<1>6. CASE op \notin ConCuerpo \cup {"READDIR", "WRITE"}
  BY <1>2, <1>6 DEF TrasExito, ConCuerpo
<1>7. QED
  BY <1>3, <1>4, <1>5, <1>6

LEMMA LeeBien ==
  ASSUME NEW h \in Hilos, Dominios, Recibir(h), EstaEn(h)
  PROVE  EstaEn(h)'
<1>1. llamada[h] # Nada
  BY DEF Recibir
<1>2. PICK op \in Pide : Pidiendo(h, op) \/ Respondida(h, op)
  BY <1>1 DEF EstaEn, EnReposo
<1>3. Respondida(h, op)
  <2>1. SUFFICES ASSUME Pidiendo(h, op) PROVE FALSE
    BY <1>2
  <2>2. haciaCliente = <<>> /\ faltan[h] = <<"op">> /\ Head(<<"op">>) = "op"
    BY <2>1, Colas DEF Pidiendo
  <2>3. QED
    BY <2>2, SinLectura
<1>4. llamada[h] = op /\ haciaServidor = <<>> /\ atencion = SinPedido /\ Leyendo(h, op)
  BY <1>3 DEF Respondida
<1>5. llamada' = llamada /\ haciaServidor' = haciaServidor /\ atencion' = atencion
  BY DEF Recibir
<1>6. Leyendo(h, op)'
  <2>1. CASE \E r \in Respuestas(h, op) : Lee(h, <<>>, <<"op">>, r)
    BY <1>4, <2>1, LeePrimero
  <2>2. CASE LeyendoError(h, op)
    BY <2>2, LeeElError DEF Leyendo
  <2>3. CASE \E cant \in Cants : LeyendoExito(h, op, cant)
    <3>1. PICK cant \in Cants : LeyendoExito(h, op, cant)
      BY <2>3
    <3>2. cant \in Nat
      BY MensajesSupuesto
    <3>3. CASE Lee(h, <<OpLeida(h, op)>>, TrasExito(op), Tras(h, op, cant))
      <4>1. LeyendoExito(h, op, cant)'
        BY <1>4, <3>2, <3>3, LeeElResto
      <4>2. QED
        BY <4>1 DEF Leyendo
    <3>4. CASE op = "WRITE" /\ Lee(h, <<OpLeida(h, op), ResLeido(h)>>, <<>>, <<>>)
      BY <3>4, NoHayMas
    <3>5. CASE op \in ConCuerpo /\ LeyendoCuerpo(h, op, cant)
      <4>1. LeyendoCuerpo(h, op, cant)'
        BY <1>4, <3>2, <3>5, LeeConCuerpo
      <4>2. QED
        BY <3>5, <4>1 DEF Leyendo, LeyendoExito
    <3>6. CASE op = "READDIR" /\ LeyendoLista(h, op, cant)
      <4>1. LeyendoLista(h, op, cant)'
        BY <1>4, <3>2, <3>6, LeeLista
      <4>2. QED
        BY <3>6, <4>1 DEF Leyendo, LeyendoExito
    <3>7. QED
      BY <3>1, <3>3, <3>4, <3>5, <3>6 DEF LeyendoExito
  <2>4. QED
    BY <1>4, <2>1, <2>2, <2>3 DEF Leyendo
<1>7. Respondida(h, op)'
  BY <1>4, <1>5, <1>6 DEF Respondida
<1>8. QED
  BY <1>7 DEF EstaEn

-----------------------------------------------------------------------------
(* The invariant is inductive: with one thread, each end moves when the other waits. *)
LEMMA SocketInicio ==
  ASSUME NEW h \in Hilos, SocketInit
  PROVE  SocketInv(h)
BY DEF SocketInit, SocketInv, Dominios, EstaEn, EnReposo

LEMMA SocketPaso ==
  ASSUME NEW h, Hilos = {h}, SocketInv(h), [SocketNext]_socketVars
  PROVE  SocketInv(h)'
<1>1. h \in Hilos
  OBVIOUS
<1>2. Dominios /\ (vivo => EstaEn(h))
  BY DEF SocketInv
<1>3. CASE AtenderCliente
  <2>1. vivo /\ UNCHANGED <<llamada, faltan, leido>>
    BY <1>3 DEF AtenderCliente, LeerOp, LeerTam, LeerPalabra, LeerArgumentos, Responder, Morir
  <2>2. Dominios'
    BY <1>2, <2>1 DEF Dominios
  <2>3. vivo' => EstaEn(h)'
    BY <1>2, <1>3, <2>1, AtiendeBien
  <2>4. QED
    BY <2>2, <2>3 DEF SocketInv
<1>4. CASE Llamar(h)
  <2>1. vivo /\ Dominios'
    BY <1>1, <1>2, <1>4 DEF Llamar, Dominios
  <2>2. EstaEn(h)'
    BY <1>1, <1>2, <1>4, <2>1, LlamaBien
  <2>3. QED
    BY <2>1, <2>2 DEF SocketInv
<1>5. CASE Recibir(h)
  <2>1. vivo /\ Dominios'
    BY <1>1, <1>2, <1>5 DEF Recibir, Dominios
  <2>2. EstaEn(h)'
    BY <1>1, <1>2, <1>5, <2>1, LeeBien
  <2>3. QED
    BY <2>1, <2>2 DEF SocketInv
<1>6. CASE Volver(h)
  <2>1. vivo /\ Dominios'
    BY <1>1, <1>2, <1>6 DEF Volver, Dominios
  <2>2. EstaEn(h)'
    BY <1>1, <1>2, <1>6, <2>1, VuelveBien
  <2>3. QED
    BY <2>1, <2>2 DEF SocketInv
<1>7. CASE UNCHANGED socketVars
  <2>1. /\ haciaServidor' = haciaServidor /\ haciaCliente' = haciaCliente /\ llamada' = llamada
        /\ faltan' = faltan /\ leido' = leido /\ atencion' = atencion /\ vivo' = vivo
    BY <1>7 DEF socketVars
  <2>2. Dominios'
    BY <1>2, <2>1 DEF Dominios
  <2>3. EnReposo(h)' = EnReposo(h)
    BY <2>1 DEF EnReposo
  <2>4. \A op \in Pide : Pidiendo(h, op)' = Pidiendo(h, op)
    BY <2>1 DEF Pidiendo, PorLlegar, Atiende
  <2>5. \A op \in Pide : Respondida(h, op)' = Respondida(h, op)
    <3>1. TAKE op \in Pide
    <3>2. Leyendo(h, op)' = Leyendo(h, op)
      BY <2>1 DEF Leyendo, Lee, LeyendoError, LeyendoExito, LeyendoCuerpo, LeyendoLista
    <3>3. QED
      BY <2>1, <3>2 DEF Respondida
  <2>6. QED
    BY <1>2, <2>1, <2>2, <2>3, <2>4, <2>5 DEF SocketInv, EstaEn
<1>8. QED
  BY <1>3, <1>4, <1>5, <1>6, <1>7 DEF SocketNext, Hilo

LEMMA EntoncesPedidoEntero ==
  ASSUME NEW h, Hilos = {h}, SocketInv(h)
  PROVE  PedidoEntero
<1>1. SUFFICES ASSUME vivo, atencion.datos # <<>> PROVE PedidoEntero
  BY DEF PedidoEntero
<1>2. EstaEn(h)
  BY <1>1 DEF SocketInv
<1>3. PICK op \in Pide : Pidiendo(h, op)
  BY <1>1, <1>2 DEF EstaEn, EnReposo, Respondida, SinPedido
<1>4. op \in Pedibles /\ 0 \in Nat
  BY Pedibilidad
<1>5. llamada[h] = op /\ atencion = [op |-> POp(h, op), tam |-> PTam(h, op), datos |-> Args(h, op)]
  BY <1>1, <1>3, TodoLeido DEF Pidiendo
<1>6. atencion.op = POp(h, op) /\ atencion.tam = PTam(h, op) /\ atencion.datos = Args(h, op)
  BY <1>5
<1>7. OpPedida = op /\ Head(atencion.op).de = h
  BY <1>6, LaOpPedida
<1>8. DelCampo("op", POp(h, op), h) /\ DelCampo("tam", PTam(h, op), h)
  BY <1>4, LasPalabras
<1> DEFINE bytes == Args(h, op)
           toma  == Toma(op)
           campos == Cuerpo(op)
<1>9. campos \in Seq(Escribible) /\ Calza(toma, campos) /\ bytes = Empacar(h, campos)
  BY <1>4, PedidoBien DEF Args
<1> HIDE DEF bytes, toma, campos
<1>10. DeLosCampos(Deserializar(toma, bytes).campos, h) /\ Deserializar(toma, bytes).leido = Len(bytes)
  BY <1>9, LoEscritoSeLee
<1>11. QED
  BY <1>5, <1>6, <1>7, <1>8, <1>10 DEF PedidoEntero, bytes, toma

(* A field that is no body, of the call of h; and a body, that it reads as it was sent. *)
CampoPropio(h, x)  == x[1] # "cuerpo" /\ DelCampo(x[1], x[2], h)
CuerpoEntero(h, x) == x[1] = "cuerpo" /\ CuerpoPropio(h, x[2])
LeidoPropio(h)     == \A i \in DOMAIN leido[h] : CampoPropio(h, leido[h][i]) \/ CuerpoEntero(h, leido[h][i])

LEMMA CamposPropios ==
  ASSUME NEW h, NEW op \in Pedibles, NEW cant \in Nat
  PROVE  /\ CampoPropio(h, OpLeida(h, op)) /\ CampoPropio(h, ErrLeido(h)) /\ CampoPropio(h, ErrorLeido(h))
         /\ CampoPropio(h, ResLeido(h)) /\ CampoPropio(h, CantLeida(h, cant))
         /\ op \in ConCuerpo \cup {"READDIR"} => CampoPropio(h, TamLeido(h, op, cant))
<1>1. CampoPropio(h, OpLeida(h, op)) /\ CampoPropio(h, ErrLeido(h)) /\ CampoPropio(h, ErrorLeido(h))
  BY LasPalabras DEF CampoPropio, OpLeida, ErrLeido, ErrorLeido
<1>2. CampoPropio(h, ResLeido(h)) /\ CampoPropio(h, CantLeida(h, cant))
  BY LasPalabras DEF CampoPropio, ResLeido, CantLeida
<1>3. op \in ConCuerpo \cup {"READDIR"} => CampoPropio(h, TamLeido(h, op, cant))
  BY ElCuerpo DEF CampoPropio, TamLeido
<1>4. QED
  BY <1>1, <1>2, <1>3

LEMMA CuerposEnteros ==
  ASSUME NEW h, NEW op \in ConCuerpo \cup {"READDIR"}, llamada[h] = op, NEW cant \in Nat,
         op = "READDIR" => ValorDe(h, "cant") = cant
  PROVE  CuerpoEntero(h, CuerpoLeido(h, op, cant))
<1> DEFINE k == IF op = "READDIR" THEN ValorDe(h, "cant") ELSE 0
<1>1. TomaRespuesta(op, k) = TomaRespuesta(op, cant)
  <2>1. CASE op = "READDIR"
    BY <2>1
  <2>2. CASE op = "GETATTR"
    BY <2>2 DEF TomaRespuesta
  <2>3. CASE op = "READ"
    BY <2>3 DEF TomaRespuesta
  <2>4. QED
    BY <2>1, <2>2, <2>3 DEF ConCuerpo
<1> DEFINE datos == PCuerpo(h, op, cant)
           d     == Deserializar(TomaRespuesta(op, cant), datos)
<1>2. DeLosCampos(d.campos, h) /\ d.leido = Len(datos)
  BY ElCuerpo
<1>3. CuerpoPropio(h, datos) =
        /\ DeLosCampos(Deserializar(TomaRespuesta(op, k), datos).campos, h)
        /\ Deserializar(TomaRespuesta(op, k), datos).leido = Len(datos)
  BY DEF CuerpoPropio
<1> HIDE DEF k
<1>4. CuerpoPropio(h, datos)
  BY <1>1, <1>2, <1>3
<1>5. QED
  BY <1>4 DEF CuerpoEntero, CuerpoLeido

LEMMA Propios1 ==
  ASSUME NEW h, NEW a, leido[h] = <<a>>, CampoPropio(h, a)
  PROVE  LeidoPropio(h)
<1>1. DOMAIN <<a>> = 1..1 /\ <<a>>[1] = a
  OBVIOUS
<1>2. QED
  BY <1>1 DEF LeidoPropio

LEMMA Propios2 ==
  ASSUME NEW h, NEW a, NEW b, leido[h] = <<a, b>>, CampoPropio(h, a), CampoPropio(h, b)
  PROVE  LeidoPropio(h)
BY Dominio2 DEF LeidoPropio

LEMMA Propios3 ==
  ASSUME NEW h, NEW a, NEW b, NEW c, leido[h] = <<a, b, c>>, CampoPropio(h, a), CampoPropio(h, b),
         CampoPropio(h, c) \/ CuerpoEntero(h, c)
  PROVE  LeidoPropio(h)
BY Dominio3 DEF LeidoPropio

LEMMA Propios4 ==
  ASSUME NEW h, NEW a, NEW b, NEW c, NEW d, leido[h] = <<a, b, c, d>>, CampoPropio(h, a), CampoPropio(h, b),
         CampoPropio(h, c), CuerpoEntero(h, d)
  PROVE  LeidoPropio(h)
BY Dominio4 DEF LeidoPropio

LEMMA LaListaLeida ==
  ASSUME NEW h, NEW op, op = "READDIR", op \in Pedibles, llamada[h] = op, NEW cant \in Nat, NEW l,
         l = <<OpLeida(h, op), CantLeida(h, cant), TamLeido(h, op, cant), CuerpoLeido(h, op, cant)>>,
         leido[h] = l
  PROVE  CuerpoEntero(h, CuerpoLeido(h, op, cant))
<1>1. /\ DOMAIN leido[h] = 1..4 /\ leido[h][1] = OpLeida(h, op) /\ leido[h][2] = CantLeida(h, cant)
      /\ leido[h][3] = TamLeido(h, op, cant) /\ leido[h][4] = CuerpoLeido(h, op, cant)
  BY Dominio4
<1>2. /\ OpLeida(h, op)[1] = "op" /\ CantLeida(h, cant)[1] = "cant" /\ CantLeida(h, cant)[2] = PCant(h, cant)
      /\ TamLeido(h, op, cant)[1] = "tam" /\ CuerpoLeido(h, op, cant)[1] = "cuerpo"
  BY DEF OpLeida, CantLeida, TamLeido, CuerpoLeido
<1>3. /\ 2 \in DOMAIN leido[h] /\ leido[h][2][1] = "cant"
      /\ \A j \in DOMAIN leido[h] : leido[h][j][1] = "cant" => j = 2
  BY <1>1, <1>2
<1>4. ValorDe(h, "cant") = Head(leido[h][2][2]).valor
  BY <1>3, ValorLeido
<1>5. ValorDe(h, "cant") = cant
  <2>1. Head(PCant(h, cant)).valor = cant
    BY LasPalabras
  <2>2. leido[h][2][2] = PCant(h, cant)
    BY <1>1, <1>2
  <2>3. QED
    BY <1>4, <2>1, <2>2
<1>6. QED
  BY <1>5, CuerposEnteros

(* All that a call has read is of its own reply. *)
LEMMA LeidoEsPropio ==
  ASSUME NEW h, NEW op \in Pide, Respondida(h, op)
  PROVE  LeidoPropio(h)
<1>1. op \in Pedibles /\ llamada[h] = op /\ Leyendo(h, op) /\ 0 \in Nat
  BY Pedibilidad DEF Respondida
<1>2. CASE \E r \in Respuestas(h, op) : Lee(h, <<>>, <<"op">>, r)
  BY <1>2 DEF Lee, LeidoPropio
<1>3. CASE LeyendoError(h, op)
  <2>1. CampoPropio(h, ErrLeido(h)) /\ CampoPropio(h, ErrorLeido(h))
    BY <1>1, CamposPropios
  <2>2. leido[h] = <<ErrLeido(h)>> \/ leido[h] = <<ErrLeido(h), ErrorLeido(h)>>
    BY <1>3 DEF LeyendoError, Lee
  <2>3. QED
    BY <2>1, <2>2, Propios1, Propios2
<1>4. CASE \E cant \in Cants : LeyendoExito(h, op, cant)
  <2>1. PICK cant \in Cants : LeyendoExito(h, op, cant)
    BY <1>4
  <2>2. cant \in Nat
    BY MensajesSupuesto
  <2>3. /\ CampoPropio(h, OpLeida(h, op)) /\ CampoPropio(h, ResLeido(h)) /\ CampoPropio(h, CantLeida(h, cant))
        /\ op \in ConCuerpo \cup {"READDIR"} => CampoPropio(h, TamLeido(h, op, cant))
    BY <1>1, <2>2, CamposPropios
  <2>4. CASE leido[h] = <<OpLeida(h, op)>>
    BY <2>3, <2>4, Propios1
  <2>5. CASE leido[h] = <<OpLeida(h, op), ResLeido(h)>>
    BY <2>3, <2>5, Propios2
  <2>6. CASE op \in ConCuerpo /\ LeyendoCuerpo(h, op, cant)
    <3>1. CuerpoEntero(h, CuerpoLeido(h, op, cant))
      <4>1. op # "READDIR"
        BY <2>6 DEF ConCuerpo
      <4>2. QED
        BY <1>1, <2>2, <2>6, <4>1, CuerposEnteros
    <3>2. \/ leido[h] = <<OpLeida(h, op), TamLeido(h, op, cant)>>
          \/ leido[h] = <<OpLeida(h, op), TamLeido(h, op, cant), CuerpoLeido(h, op, cant)>>
      BY <2>6 DEF LeyendoCuerpo, Lee
    <3>3. CampoPropio(h, TamLeido(h, op, cant))
      BY <2>3, <2>6
    <3>4. QED
      BY <2>3, <3>1, <3>2, <3>3, Propios2, Propios3
  <2>7. CASE op = "READDIR" /\ LeyendoLista(h, op, cant)
    <3>1. CampoPropio(h, TamLeido(h, op, cant))
      BY <2>3, <2>7
    <3>2. CASE leido[h] = <<OpLeida(h, op), CantLeida(h, cant)>>
      BY <2>3, <3>2, Propios2
    <3>3. CASE leido[h] = <<OpLeida(h, op), CantLeida(h, cant), TamLeido(h, op, cant)>>
      BY <2>3, <3>1, <3>3, Propios3
    <3>4. CASE leido[h] = <<OpLeida(h, op), CantLeida(h, cant), TamLeido(h, op, cant), CuerpoLeido(h, op, cant)>>
      <4>1. CuerpoEntero(h, CuerpoLeido(h, op, cant))
        BY <1>1, <2>2, <2>7, <3>4, LaListaLeida
      <4>2. QED
        BY <2>3, <3>1, <3>4, <4>1, Propios4
    <3>5. QED
      BY <2>7, <3>2, <3>3, <3>4 DEF LeyendoLista, Lee
  <2>8. QED
    BY <2>1, <2>4, <2>5, <2>6, <2>7 DEF LeyendoExito, Lee
<1>5. QED
  BY <1>1, <1>2, <1>3, <1>4 DEF Leyendo

LEMMA EntoncesRespuestaPropia ==
  ASSUME NEW h, Hilos = {h}, SocketInv(h)
  PROVE  RespuestaPropia
<1>1. SUFFICES ASSUME vivo, llamada[h] # Nada
               PROVE  /\ \A i \in DOMAIN leido[h] :
                           LET campo == leido[h][i][1] IN
                           IF campo = "cuerpo" THEN CuerpoPropio(h, leido[h][i][2])
                           ELSE DelCampo(campo, leido[h][i][2], h)
                      /\ faltan[h] = <<>> => \A b \in Range(haciaCliente) : b.de # h
  BY DEF RespuestaPropia
<1>2. PICK op \in Pide : Pidiendo(h, op) \/ Respondida(h, op)
  BY <1>1 DEF SocketInv, EstaEn, EnReposo
<1>3. CASE Pidiendo(h, op)
  <2>1. leido[h] = <<>> /\ faltan[h] = <<"op">> /\ <<"op">> # <<>> /\ DOMAIN <<>> = {}
    BY <1>3 DEF Pidiendo
  <2>2. QED
    BY <2>1
<1>4. CASE Respondida(h, op)
  <2>1. LeidoPropio(h)
    BY <1>4, LeidoEsPropio
  <2>2. faltan[h] = <<>> => haciaCliente = <<>>
    BY <1>4, NadaQuedaSuyo
  <2>3. \A i \in DOMAIN leido[h] :
          LET campo == leido[h][i][1] IN
          IF campo = "cuerpo" THEN CuerpoPropio(h, leido[h][i][2]) ELSE DelCampo(campo, leido[h][i][2], h)
    BY <2>1 DEF LeidoPropio, CampoPropio, CuerpoEntero
  <2>4. Range(<<>>) = {}
    BY DEF Range
  <2>5. QED
    BY <2>2, <2>3, <2>4
<1>5. QED
  BY <1>2, <1>3, <1>4

-----------------------------------------------------------------------------
(* FUSE mounted with -s calls sac-cli from one thread.  Then the server never takes for *)
(* the arguments of a request anything but what that thread wrote as such, each one     *)
(* entire, and nothing is left of it for the next: serializar_X, deserializar_X and the *)
(* two ways of counting tam agree for every operation, and for every size of a path or *)
(* of a buffer.                                                                        *)
THEOREM PedidosEnteros ==
  ASSUME NEW h, Hilos = {h}
  PROVE  SocketSpec => []PedidoEntero
<1>1. SocketInit => SocketInv(h)
  BY SocketInicio
<1>2. SocketInv(h) /\ [SocketNext]_socketVars => SocketInv(h)'
  BY SocketPaso
<1>3. SocketInv(h) => PedidoEntero
  BY EntoncesPedidoEntero
<1>4. QED
  BY <1>1, <1>2, <1>3, PTL DEF SocketSpec

(* With that one thread, what a call reads is its own reply, field by field, and when it *)
(* has read what it waits for there is nothing of it in the socket: of an error too,    *)
(* whose length the callers and the cases of the switch do not agree on.  (That it does  *)
(* not always read all it waits for is LlamadaTermina.)                                 *)
THEOREM RespuestasPropias ==
  ASSUME NEW h, Hilos = {h}
  PROVE  SocketSpec => []RespuestaPropia
<1>1. SocketInit => SocketInv(h)
  BY SocketInicio
<1>2. SocketInv(h) /\ [SocketNext]_socketVars => SocketInv(h)'
  BY SocketPaso
<1>3. SocketInv(h) => RespuestaPropia
  BY EntoncesRespuestaPropia
<1>4. QED
  BY <1>1, <1>2, <1>3, PTL DEF SocketSpec

=============================================================================
