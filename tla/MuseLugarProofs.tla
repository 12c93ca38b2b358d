---------------------------- MODULE MuseLugarProofs ----------------------------
(***************************************************************************)
(* Proofs about the room that the programs of MUSE share, never more than     *)
(* there is when they ask only for what MUSE serves, and about the types of    *)
(* what MUSE keeps of them, which need it.                                   *)
(***************************************************************************)
EXTENDS MuseProgramasProofs

-----------------------------------------------------------------------------
(* Pages, as a set: of each of some things, so many. *)
Tiras(K, f) == UNION {{x} \X (1..f[x]) : x \in K}

LEMMA EnTiras ==
  ASSUME NEW K, NEW f, NEW y
  PROVE  y \in Tiras(K, f) <=> \E x \in K : \E i \in 1..f[x] : y = <<x, i>>
BY DEF Tiras

(* The pages of one of them. *)
LEMMA UnaTira ==
  ASSUME NEW x, NEW n \in Nat
  PROVE  IsFiniteSet({x} \X (1..n)) /\ Cardinality({x} \X (1..n)) = n
<1> DEFINE S == 1..n
           T == {x} \X S
           g == [i \in S |-> <<x, i>>]
<1>1. IsFiniteSet(S) /\ Cardinality(S) = n
  BY FS_Interval
<1>2. g \in Bijection(S, T)
  <2>1. g \in [S -> T]
    OBVIOUS
  <2>2. \A i, j \in S : g[i] = g[j] => i = j
    OBVIOUS
  <2>3. \A y \in T : \E i \in S : g[i] = y
    OBVIOUS
  <2> HIDE DEF g, S, T
  <2>4. QED
    BY <2>1, <2>2, <2>3 DEF Bijection, Injection, Surjection, IsInjective
<1> HIDE DEF g, S, T
<1>3. ExistsBijection(S, T)
  BY <1>2 DEF ExistsBijection
<1>4. IsFiniteSet(T) /\ Cardinality(T) = n
  BY <1>1, <1>3, FS_Bijection
<1>5. QED
  BY <1>4 DEF S, T

(* Two sets with nothing in common. *)
LEMMA Apartes ==
  ASSUME NEW X, IsFiniteSet(X), NEW Y, IsFiniteSet(Y), X \cap Y = {}
  PROVE  IsFiniteSet(X \cup Y) /\ Cardinality(X \cup Y) = Cardinality(X) + Cardinality(Y)
<1>1. IsFiniteSet(X \cup Y)
      /\ Cardinality(X \cup Y) = Cardinality(X) + Cardinality(Y) - Cardinality(X \cap Y)
  BY FS_Union
<1>2. Cardinality(X \cap Y) = 0
  BY FS_EmptySet
<1>3. Cardinality(X) \in Nat /\ Cardinality(Y) \in Nat
  BY FS_CardinalityType
<1>4. QED
  BY <1>1, <1>2, <1>3

(* One more. *)
LEMMA UnaMas ==
  ASSUME NEW K, NEW f, IsFiniteSet(Tiras(K, f)), NEW x, x \notin K, NEW g, g[x] \in Nat,
         \A y \in K : g[y] = f[y]
  PROVE  /\ IsFiniteSet(Tiras(K \cup {x}, g))
         /\ Cardinality(Tiras(K \cup {x}, g)) = Cardinality(Tiras(K, f)) + g[x]
<1> DEFINE T == Tiras(K, f)
           U == {x} \X (1..g[x])
<1>1. IsFiniteSet(U) /\ Cardinality(U) = g[x]
  BY UnaTira
<1>2. Tiras(K \cup {x}, g) = T \cup U
  BY DEF Tiras
<1>3. T \cap U = {}
  BY DEF Tiras
<1> HIDE DEF T, U
<1>4. IsFiniteSet(T \cup U) /\ Cardinality(T \cup U) = Cardinality(T) + Cardinality(U)
  BY <1>1, <1>3, Apartes DEF T
<1>5. QED
  BY <1>1, <1>2, <1>4 DEF T

(* No more than there were. *)
LEMMA NoMas ==
  ASSUME NEW K, NEW f, IsFiniteSet(Tiras(K, f)), NEW L, NEW g,
         \A x \in K : f[x] \in Nat, \A x \in L : x \in K /\ g[x] \in Nat /\ g[x] <= f[x]
  PROVE  IsFiniteSet(Tiras(L, g)) /\ Cardinality(Tiras(L, g)) <= Cardinality(Tiras(K, f))
<1>1. Tiras(L, g) \subseteq Tiras(K, f)
  <2> SUFFICES ASSUME NEW y \in Tiras(L, g) PROVE y \in Tiras(K, f)
    OBVIOUS
  <2>1. PICK x \in L : \E i \in 1..g[x] : y = <<x, i>>
    BY EnTiras
  <2>2. PICK i \in 1..g[x] : y = <<x, i>>
    BY <2>1
  <2>3. x \in K /\ i \in 1..f[x]
    OBVIOUS
  <2>4. QED
    BY <2>2, <2>3, EnTiras
<1>2. QED
  BY <1>1, FS_Subset

(* One of them has more, or fewer. *)
LEMMA UnaCambia ==
  ASSUME NEW K, NEW f, IsFiniteSet(Tiras(K, f)), NEW x \in K, NEW g, \A y \in K : f[y] \in Nat,
         g[x] \in Nat, \A y \in K \ {x} : g[y] = f[y]
  PROVE  /\ IsFiniteSet(Tiras(K, g))
         /\ Cardinality(Tiras(K, g)) = Cardinality(Tiras(K, f)) + g[x] - f[x]
<1> DEFINE R == K \ {x}
<1>1. R \cup {x} = K /\ x \notin R
  OBVIOUS
<1> HIDE DEF R
<1>2. IsFiniteSet(Tiras(R, f))
  <2>1. \A y \in R : y \in K /\ f[y] \in Nat /\ f[y] <= f[y]
    BY <1>1
  <2>2. QED
    BY <2>1, NoMas
<1>3. /\ IsFiniteSet(Tiras(K, f)) /\ Cardinality(Tiras(K, f)) = Cardinality(Tiras(R, f)) + f[x]
  <2>1. x \notin R /\ f[x] \in Nat /\ \A y \in R : f[y] = f[y]
    BY <1>1
  <2>2. /\ IsFiniteSet(Tiras(R \cup {x}, f))
        /\ Cardinality(Tiras(R \cup {x}, f)) = Cardinality(Tiras(R, f)) + f[x]
    BY <1>2, <2>1, UnaMas
  <2>3. QED
    BY <1>1, <2>2
<1>4. /\ IsFiniteSet(Tiras(K, g)) /\ Cardinality(Tiras(K, g)) = Cardinality(Tiras(R, f)) + g[x]
  <2>1. \A y \in R : g[y] = f[y]
    BY DEF R
  <2>2. QED
    BY <1>1, <1>2, <2>1, UnaMas
<1>5. Cardinality(Tiras(R, f)) \in Nat
  BY <1>2, FS_CardinalityType
<1>6. QED
  BY <1>3, <1>4, <1>5

(* Others take their place, one each. *)
LEMMA ConOtras ==
  ASSUME NEW K, NEW f, IsFiniteSet(Tiras(K, f)), \A x \in K : f[x] \in Nat,
         NEW L, NEW g, NEW m, \A x \in L : m[x] \in K /\ g[x] \in Nat /\ g[x] <= f[m[x]],
         \A x, y \in L : m[x] = m[y] => x = y
  PROVE  IsFiniteSet(Tiras(L, g)) /\ Cardinality(Tiras(L, g)) <= Cardinality(Tiras(K, f))
<1> DEFINE S == Tiras(L, g)
           T == Tiras(K, f)
           v == [z \in S |-> <<m[z[1]], z[2]>>]
<1>1. \A z \in S : z = <<z[1], z[2]>> /\ z[1] \in L /\ z[2] \in 1..g[z[1]]
  BY EnTiras
<1>2. v \in [S -> T]
  <2> SUFFICES ASSUME NEW z \in S PROVE <<m[z[1]], z[2]>> \in T
    OBVIOUS
  <2>1. z[1] \in L /\ z[2] \in 1..g[z[1]]
    BY <1>1
  <2>2. m[z[1]] \in K /\ z[2] \in 1..f[m[z[1]]]
    BY <2>1
  <2>3. QED
    BY <2>2, EnTiras
<1>3. \A y, z \in S : v[y] = v[z] => y = z
  <2> SUFFICES ASSUME NEW y \in S, NEW z \in S, v[y] = v[z] PROVE y = z
    OBVIOUS
  <2>1. m[y[1]] = m[z[1]] /\ y[2] = z[2]
    OBVIOUS
  <2>2. y[1] = z[1]
    BY <1>1, <2>1
  <2>3. QED
    BY <1>1, <2>1, <2>2
<1> HIDE DEF v, S, T
<1>4. v \in Injection(S, T)
  BY <1>2, <1>3 DEF Injection, IsInjective
<1>5. IsFiniteSet(T)
  BY DEF T
<1>6. IsFiniteSet(S) /\ Cardinality(S) <= Cardinality(T)
  BY <1>4, <1>5, FS_Injection
<1>7. QED
  BY <1>6 DEF S, T

-----------------------------------------------------------------------------
(* The pages of the heaps, in tables of segments. *)

HeapsDe(T)  == {r \in UNION {{p} \X DOMAIN T[p] : p \in Programas} : ~T[r[1]][r[2]].mmapeado}
Cuantas(T)  == [r \in HeapsDe(T) |-> T[r[1]][r[2]].paginas]
DeHeaps(T)  == Tiras(HeapsDe(T), Cuantas(T))
ConTabla(T, p, t) == [T EXCEPT ![p] = t]
TodasBien(T) == DOMAIN T = Programas /\ \A p \in Programas : T[p] \in Seq(Segmento)

LEMMA EnHeaps ==
  ASSUME NEW T, NEW r
  PROVE  r \in HeapsDe(T) <=> \E p \in Programas : \E k \in DOMAIN T[p] : r = <<p, k>> /\ ~T[p][k].mmapeado
BY DEF HeapsDe

LEMMA LasPaginas ==
  PaginasDeHeaps = DeHeaps(tabla)
<1>1. HeapsDeTodos = HeapsDe(tabla)
  BY DEF HeapsDeTodos, HeapsDe
<1>2. \A r \in HeapsDe(tabla) : Cuantas(tabla)[r] = tabla[r[1]][r[2]].paginas
  BY DEF Cuantas
<1>3. QED
  BY <1>1, <1>2 DEF PaginasDeHeaps, DeHeaps, Tiras

LEMMA SusPaginas ==
  ASSUME NEW T, TodasBien(T), NEW r \in HeapsDe(T)
  PROVE  /\ Cuantas(T)[r] \in Nat /\ Cuantas(T)[r] = T[r[1]][r[2]].paginas
         /\ r = <<r[1], r[2]>> /\ r[1] \in Programas /\ r[2] \in DOMAIN T[r[1]] /\ ~T[r[1]][r[2]].mmapeado
<1>1. PICK p \in Programas : \E k \in DOMAIN T[p] : r = <<p, k>> /\ ~T[p][k].mmapeado
  BY EnHeaps
<1>2. PICK k \in DOMAIN T[p] : r = <<p, k>> /\ ~T[p][k].mmapeado
  BY <1>1
<1>3. T[p] \in Seq(Segmento)
  BY DEF TodasBien
<1>4. T[p][k] \in Segmento
  BY <1>3, UnaTabla
<1>5. T[p][k].paginas \in Nat
  BY <1>2, <1>4, CualEs
<1>6. r[1] = p /\ r[2] = k
  BY <1>2
<1>7. Cuantas(T)[r] = T[p][k].paginas
  BY <1>6 DEF Cuantas
<1>8. QED
  BY <1>2, <1>5, <1>6, <1>7

(* A segment of a table changes. *)
LEMMA CambiaTabla ==
  ASSUME NEW T, TodasBien(T), NEW p \in Programas, NEW k \in DOMAIN T[p], NEW s \in Segmento,
         s.mmapeado <=> T[p][k].mmapeado, NEW U, U = ConTabla(T, p, Cambiado(T[p], k, s))
  PROVE  /\ TodasBien(U) /\ HeapsDe(U) = HeapsDe(T)
         /\ \A r \in HeapsDe(T) : Cuantas(U)[r] = IF r = <<p, k>> THEN s.paginas ELSE Cuantas(T)[r]
<1>1. /\ DOMAIN U = Programas /\ U[p] = Cambiado(T[p], k, s) /\ \A q \in Programas \ {p} : U[q] = T[q]
  BY DEF TodasBien, ConTabla
<1>2. /\ U[p] \in Seq(Segmento) /\ DOMAIN U[p] = DOMAIN T[p] /\ U[p][k] = s
      /\ \A j \in DOMAIN T[p] : j # k => U[p][j] = T[p][j]
  <2>1. T[p] \in Seq(Segmento) /\ DOMAIN T[p] = 1..Len(T[p])
    BY UnaTabla DEF TodasBien
  <2>2. QED
    BY <1>1, <2>1, ExceptSeq DEF Cambiado
<1>3. TodasBien(U)
  BY <1>1, <1>2 DEF TodasBien
<1>4. \A q \in Programas : DOMAIN U[q] = DOMAIN T[q] /\ \A j \in DOMAIN T[q] : U[q][j].mmapeado <=> T[q][j].mmapeado
  BY <1>1, <1>2
<1>5. ASSUME NEW r PROVE r \in HeapsDe(U) <=> r \in HeapsDe(T)
  <2>1. r \in HeapsDe(U) <=> \E q \in Programas : \E j \in DOMAIN U[q] : r = <<q, j>> /\ ~U[q][j].mmapeado
    BY EnHeaps
  <2>2. r \in HeapsDe(T) <=> \E q \in Programas : \E j \in DOMAIN T[q] : r = <<q, j>> /\ ~T[q][j].mmapeado
    BY EnHeaps
  <2>3. QED
    BY <1>4, <2>1, <2>2
<1>6. HeapsDe(U) = HeapsDe(T)
  BY <1>5
<1>7. ASSUME NEW r \in HeapsDe(T)
      PROVE  Cuantas(U)[r] = IF r = <<p, k>> THEN s.paginas ELSE Cuantas(T)[r]
  <2>1. /\ Cuantas(T)[r] = T[r[1]][r[2]].paginas /\ r = <<r[1], r[2]>> /\ r[1] \in Programas
        /\ r[2] \in DOMAIN T[r[1]]
    BY SusPaginas
  <2>2. Cuantas(U)[r] = U[r[1]][r[2]].paginas
    BY <1>3, <1>6, SusPaginas
  <2>3. CASE r = <<p, k>>
    BY <1>2, <2>2, <2>3
  <2>4. CASE r # <<p, k>>
    <3>1. r[1] # p \/ r[2] # k
      BY <2>1, <2>4
    <3>2. U[r[1]][r[2]] = T[r[1]][r[2]]
      BY <1>1, <1>2, <2>1, <3>1
    <3>3. QED
      BY <2>1, <2>2, <2>4, <3>2
  <2>5. QED
    BY <2>3, <2>4
<1>8. QED
  BY <1>3, <1>6, <1>7

(* One of heap takes n pages more. *)
LEMMA TomaPaginas ==
  ASSUME NEW T, TodasBien(T), IsFiniteSet(DeHeaps(T)), NEW p \in Programas, NEW k \in DOMAIN T[p],
         ~T[p][k].mmapeado, NEW s \in DeHeap, NEW n \in Int, s.paginas = T[p][k].paginas + n,
         NEW U, U = ConTabla(T, p, Cambiado(T[p], k, s))
  PROVE  /\ TodasBien(U) /\ IsFiniteSet(DeHeaps(U))
         /\ Cardinality(DeHeaps(U)) = Cardinality(DeHeaps(T)) + n
<1> DEFINE K == HeapsDe(T)
           x == <<p, k>>
           f == Cuantas(T)
           g == Cuantas(U)
<1>1. s \in Segmento /\ ~s.mmapeado /\ s.paginas \in Nat
  BY DEF Segmento, DeHeap
<1>0. T[p][k] \in Segmento
  BY UnaTabla DEF TodasBien
<1>2. s.mmapeado <=> T[p][k].mmapeado
  BY <1>0, <1>1, CualEs
<1>3. TodasBien(U) /\ HeapsDe(U) = K /\ \A r \in K : g[r] = IF r = x THEN s.paginas ELSE f[r]
  <2>1. /\ TodasBien(U) /\ HeapsDe(U) = HeapsDe(T)
        /\ \A r \in HeapsDe(T) : Cuantas(U)[r] = IF r = <<p, k>> THEN s.paginas ELSE Cuantas(T)[r]
    <3> HIDE DEF K, x, f, g
    <3>1. QED
      BY <1>1, <1>2, CambiaTabla
  <2>2. QED
    BY <2>1
<1>4. x \in K /\ f[x] = T[p][k].paginas
  <2>1. x \in K
    BY EnHeaps
  <2>2. QED
    BY <2>1, SusPaginas
<1>5. \A y \in K : f[y] \in Nat
  BY SusPaginas
<1>6. IsFiniteSet(Tiras(K, f))
  BY DEF DeHeaps
<1> HIDE DEF K, x, f, g
<1>7. g[x] \in Nat /\ \A y \in K \ {x} : g[y] = f[y]
  BY <1>1, <1>3, <1>4
<1>8. IsFiniteSet(Tiras(K, g)) /\ Cardinality(Tiras(K, g)) = Cardinality(Tiras(K, f)) + g[x] - f[x]
  BY <1>4, <1>5, <1>6, <1>7, UnaCambia
<1>9. DeHeaps(U) = Tiras(K, g) /\ DeHeaps(T) = Tiras(K, f)
  BY <1>3 DEF DeHeaps, K, f, g
<1>10. g[x] - f[x] = n /\ g[x] \in Nat /\ f[x] \in Nat
  BY <1>1, <1>3, <1>4, <1>5
<1>11. Cardinality(Tiras(K, f)) \in Nat
  BY <1>6, FS_CardinalityType
<1>12. QED
  BY <1>3, <1>8, <1>9, <1>10, <1>11

(* A segment is added. *)
LEMMA AgregaPaginas ==
  ASSUME NEW T, TodasBien(T), IsFiniteSet(DeHeaps(T)), NEW p \in Programas, NEW s \in Segmento,
         NEW n \in Nat, n = (IF s.mmapeado THEN 0 ELSE s.paginas), NEW U, U = ConTabla(T, p, Append(T[p], s))
  PROVE  /\ TodasBien(U) /\ IsFiniteSet(DeHeaps(U))
         /\ Cardinality(DeHeaps(U)) = Cardinality(DeHeaps(T)) + n
<1> DEFINE K == HeapsDe(T)
           m == Len(T[p]) + 1
           x == <<p, m>>
           f == Cuantas(T)
           g == Cuantas(U)
<1>1. T[p] \in Seq(Segmento) /\ DOMAIN T[p] = 1..Len(T[p]) /\ Len(T[p]) \in Nat
  BY UnaTabla DEF TodasBien
<1>2. /\ DOMAIN U = Programas /\ U[p] = Append(T[p], s) /\ \A q \in Programas \ {p} : U[q] = T[q]
  BY DEF TodasBien, ConTabla
<1>3. /\ U[p] \in Seq(Segmento) /\ DOMAIN U[p] = DOMAIN T[p] \cup {m} /\ m \notin DOMAIN T[p]
      /\ U[p][m] = s /\ \A j \in DOMAIN T[p] : U[p][j] = T[p][j]
  <2> DEFINE u == Append(T[p], s)
  <2>1. /\ u \in Seq(Segmento) /\ DOMAIN u = 1..(Len(T[p]) + 1) /\ u[Len(T[p]) + 1] = s
        /\ \A j \in 1..Len(T[p]) : u[j] = T[p][j]
    BY <1>1, AppendProperties
  <2> HIDE DEF u
  <2>2. U[p] = u
    BY <1>2 DEF u
  <2>3. QED
    BY <1>1, <2>1, <2>2
<1>4. TodasBien(U)
  BY <1>2, <1>3 DEF TodasBien
<1> HIDE DEF m
<1>5. \A r : r \in HeapsDe(U) <=> r \in K \/ (r = x /\ ~s.mmapeado)
  <2> SUFFICES ASSUME NEW r PROVE r \in HeapsDe(U) <=> r \in K \/ (r = x /\ ~s.mmapeado)
    OBVIOUS
  <2>1. ASSUME r \in HeapsDe(U) PROVE r \in K \/ (r = x /\ ~s.mmapeado)
    <3>1. PICK q \in Programas : \E k \in DOMAIN U[q] : r = <<q, k>> /\ ~U[q][k].mmapeado
      BY <2>1, EnHeaps
    <3>2. PICK k \in DOMAIN U[q] : r = <<q, k>> /\ ~U[q][k].mmapeado
      BY <3>1
    <3>3. CASE q = p /\ k = m
      BY <1>3, <3>2, <3>3
    <3>4. CASE ~(q = p /\ k = m)
      <4>1. k \in DOMAIN T[q] /\ U[q][k] = T[q][k]
        BY <1>2, <1>3, <3>2, <3>4
      <4>2. QED
        BY <3>2, <4>1, EnHeaps
    <3>5. QED
      BY <3>3, <3>4
  <2>2. ASSUME r \in K PROVE r \in HeapsDe(U)
    <3>1. PICK q \in Programas : \E k \in DOMAIN T[q] : r = <<q, k>> /\ ~T[q][k].mmapeado
      BY <2>2, EnHeaps
    <3>2. PICK k \in DOMAIN T[q] : r = <<q, k>> /\ ~T[q][k].mmapeado
      BY <3>1
    <3>3. k \in DOMAIN U[q] /\ U[q][k] = T[q][k]
      BY <1>2, <1>3, <3>2
    <3>4. QED
      BY <3>2, <3>3, EnHeaps
  <2>3. ASSUME r = x, ~s.mmapeado PROVE r \in HeapsDe(U)
    <3>1. m \in DOMAIN U[p] /\ ~U[p][m].mmapeado
      BY <1>3, <2>3
    <3>2. QED
      BY <2>3, <3>1, EnHeaps
  <2>4. QED
    BY <2>1, <2>2, <2>3
<1>6. \A r \in K : g[r] = f[r]
  <2> SUFFICES ASSUME NEW r \in K PROVE g[r] = f[r]
    OBVIOUS
  <2>1. /\ f[r] = T[r[1]][r[2]].paginas /\ r[1] \in Programas /\ r[2] \in DOMAIN T[r[1]]
    BY SusPaginas
  <2>2. g[r] = U[r[1]][r[2]].paginas
    BY <1>4, <1>5, SusPaginas
  <2>3. U[r[1]][r[2]] = T[r[1]][r[2]]
    BY <1>2, <1>3, <2>1
  <2>4. QED
    BY <2>1, <2>2, <2>3
<1>7. x \notin K
  <2>1. x \in K => x[2] \in DOMAIN T[x[1]]
    BY SusPaginas
  <2>2. QED
    BY <1>3, <2>1
<1>8. IsFiniteSet(Tiras(K, f)) /\ \A y \in K : f[y] \in Nat
  BY SusPaginas DEF DeHeaps
<1>9. Cardinality(Tiras(K, f)) \in Nat
  BY <1>8, FS_CardinalityType
<1>10. CASE s.mmapeado
  <2>1. HeapsDe(U) = K
    BY <1>5, <1>10
  <2>2. DeHeaps(U) = DeHeaps(T)
    <3> HIDE DEF K, f, g
    <3>1. Tiras(K, g) = Tiras(K, f)
      BY <1>6 DEF Tiras
    <3>2. QED
      BY <2>1, <3>1 DEF DeHeaps, K, f, g
  <2>3. QED
    BY <1>4, <1>9, <1>10, <2>2 DEF DeHeaps
<1>11. CASE ~s.mmapeado
  <2>1. HeapsDe(U) = K \cup {x}
    BY <1>5, <1>11
  <2>2. g[x] = s.paginas
    <3>1. x \in HeapsDe(U)
      BY <2>1
    <3>2. x[1] = p /\ x[2] = m
      OBVIOUS
    <3> HIDE DEF x
    <3>3. g[x] = U[x[1]][x[2]].paginas
      BY <1>4, <3>1, SusPaginas
    <3>4. QED
      BY <1>3, <3>2, <3>3
  <2>3. g[x] \in Nat /\ g[x] = n
    BY <1>11, <2>2
  <2> DEFINE d == DeHeaps(U)
             e == DeHeaps(T)
  <2>4. d = Tiras(K \cup {x}, g) /\ e = Tiras(K, f)
    BY <2>1 DEF DeHeaps
  <2> HIDE DEF K, f, g, x, d, e
  <2>5. /\ IsFiniteSet(Tiras(K \cup {x}, g))
        /\ Cardinality(Tiras(K \cup {x}, g)) = Cardinality(Tiras(K, f)) + g[x]
    <3>1. x \notin K /\ g[x] \in Nat /\ (\A y \in K : g[y] = f[y]) /\ IsFiniteSet(Tiras(K, f))
      BY <1>6, <1>7, <1>8, <2>3
    <3>2. QED
      BY <3>1, UnaMas
  <2>6. IsFiniteSet(d) /\ Cardinality(d) = Cardinality(e) + n
    BY <2>3, <2>4, <2>5
  <2>7. QED
    BY <1>4, <2>6 DEF d, e
<1>12. QED
  BY <1>10, <1>11

(* A segment goes, and those after it move. *)
LEMMA SalenPaginas ==
  ASSUME NEW T, TodasBien(T), IsFiniteSet(DeHeaps(T)), NEW p \in Programas, NEW k \in DOMAIN T[p],
         NEW U, U = ConTabla(T, p, RemoveAt(T[p], k))
  PROVE  /\ TodasBien(U) /\ IsFiniteSet(DeHeaps(U))
         /\ Cardinality(DeHeaps(U)) <= Cardinality(DeHeaps(T))
<1> DEFINE K == HeapsDe(T)
           L == HeapsDe(U)
           f == Cuantas(T)
           g == Cuantas(U)
           m == [r \in L |-> IF r[1] # p \/ r[2] < k THEN r ELSE <<p, r[2] + 1>>]
<1>1. T[p] \in Seq(Segmento) /\ DOMAIN T[p] = 1..Len(T[p]) /\ Len(T[p]) \in Nat
  BY UnaTabla DEF TodasBien
<1>2. /\ DOMAIN U = Programas /\ U[p] = RemoveAt(T[p], k) /\ \A q \in Programas \ {p} : U[q] = T[q]
  BY DEF TodasBien, ConTabla
<1>3. /\ U[p] \in Seq(Segmento) /\ DOMAIN U[p] = 1..(Len(T[p]) - 1)
      /\ \A j \in 1..(Len(T[p]) - 1) : U[p][j] = IF j < k THEN T[p][j] ELSE T[p][j + 1]
  <2> DEFINE u == RemoveAt(T[p], k)
  <2>1. /\ u \in Seq(Segmento) /\ DOMAIN u = 1..(Len(T[p]) - 1)
        /\ \A j \in 1..(Len(T[p]) - 1) : u[j] = IF j < k THEN T[p][j] ELSE T[p][j + 1]
    BY <1>1, QuitaPosicion
  <2> HIDE DEF u
  <2>2. QED
    BY <1>2, <2>1 DEF u
<1>4. TodasBien(U)
  BY <1>2, <1>3 DEF TodasBien
<1>5. \A r \in L : /\ r = <<r[1], r[2]>> /\ r[1] \in Programas /\ r[2] \in DOMAIN U[r[1]]
                   /\ ~U[r[1]][r[2]].mmapeado /\ g[r] = U[r[1]][r[2]].paginas /\ g[r] \in Nat
  BY <1>4, SusPaginas
<1>6. ASSUME NEW r \in L PROVE m[r] \in K /\ g[r] \in Nat /\ g[r] <= f[m[r]]
  <2> DEFINE q == r[1]
             j == IF r[1] # p \/ r[2] < k THEN r[2] ELSE r[2] + 1
  <2>1. m[r] = <<q, j>>
    BY <1>5
  <2>2. q \in Programas /\ j \in DOMAIN T[q] /\ U[q][r[2]] = T[q][j]
    <3>1. CASE q # p
      BY <1>2, <1>5, <3>1
    <3>2. CASE q = p
      <4>1. r[2] \in 1..(Len(T[p]) - 1)
        BY <1>3, <1>5, <3>2
      <4> DEFINE i == r[2]
      <4>2. k \in 1..Len(T[p]) /\ i \in 1..(Len(T[p]) - 1) /\ j = (IF i < k THEN i ELSE i + 1)
        BY <1>1, <3>2, <4>1
      <4>3. U[p][i] = IF i < k THEN T[p][i] ELSE T[p][i + 1]
        BY <1>3, <4>1
      <4> HIDE DEF i, j, m, L, K, f, g
      <4>4. j \in 1..Len(T[p]) /\ U[p][i] = T[p][j]
        BY <1>1, <4>2, <4>3
      <4>5. QED
        BY <1>1, <3>2, <4>4 DEF i
    <3>3. QED
      BY <3>1, <3>2
  <2>3. ~T[q][j].mmapeado /\ g[r] = T[q][j].paginas /\ g[r] \in Nat
    BY <1>5, <2>2
  <2> HIDE DEF q, j
  <2>4. <<q, j>> \in K
    BY <2>2, <2>3, EnHeaps
  <2>5. f[<<q, j>>] = T[q][j].paginas
    BY <2>4, SusPaginas
  <2>6. QED
    BY <2>1, <2>3, <2>4, <2>5
<1>7. ASSUME NEW r \in L, NEW z \in L, m[r] = m[z] PROVE r = z
  <2>1. /\ r = <<r[1], r[2]>> /\ z = <<z[1], z[2]>>
        /\ (r[1] = p => r[2] \in Nat) /\ (z[1] = p => z[2] \in Nat)
    <3> HIDE DEF m, L, g
    <3>1. \A y \in L : y = <<y[1], y[2]>> /\ (y[1] = p => y[2] \in Nat)
      BY <1>3, <1>5
    <3>2. r \in L /\ z \in L
      BY <1>7
    <3>3. QED
      BY <3>1, <3>2
  <2>2. k \in Nat
    BY <1>1
  <2>3. m[r] = (IF r[1] # p \/ r[2] < k THEN r ELSE <<p, r[2] + 1>>)
    OBVIOUS
  <2>4. m[z] = (IF z[1] # p \/ z[2] < k THEN z ELSE <<p, z[2] + 1>>)
    OBVIOUS
  <2>5. m[r][1] = r[1] /\ m[z][1] = z[1]
    BY <2>1, <2>3, <2>4
  <2> HIDE DEF m, L
  <2>6. r[1] = z[1]
    BY <1>7, <2>5
  <2>7. CASE r[1] # p
    BY <1>7, <2>3, <2>4, <2>6, <2>7
  <2>8. CASE r[1] = p
    <3>1. m[r][2] = (IF r[2] < k THEN r[2] ELSE r[2] + 1) /\ m[z][2] = (IF z[2] < k THEN z[2] ELSE z[2] + 1)
      BY <2>1, <2>3, <2>4, <2>6, <2>8
    <3>2. r[2] = z[2]
      BY <1>7, <2>1, <2>2, <2>6, <2>8, <3>1
    <3>3. QED
      BY <2>1, <2>6, <3>2
  <2>9. QED
    BY <2>7, <2>8
<1>8. IsFiniteSet(Tiras(K, f)) /\ \A y \in K : f[y] \in Nat
  BY SusPaginas DEF DeHeaps
<1> DEFINE d == DeHeaps(U)
           e == DeHeaps(T)
<1>9. d = Tiras(L, g) /\ e = Tiras(K, f)
  BY DEF DeHeaps
<1> HIDE DEF K, L, f, g, m, d, e
<1>10. IsFiniteSet(Tiras(L, g)) /\ Cardinality(Tiras(L, g)) <= Cardinality(Tiras(K, f))
  BY <1>6, <1>7, <1>8, ConOtras
<1>11. QED
  BY <1>4, <1>9, <1>10 DEF d, e

-----------------------------------------------------------------------------
(* The pages of the lists that have an entry; and the room that a handler has taken  *)
(* for a mapping it has not put in its table.                                      *)

ListasDe(ms)      == {ms[i].lista : i \in DOMAIN ms}
Largas(ms, h)     == [l \in 1..Listas |-> IF l \in ListasDe(ms) THEN Len(h[l]) ELSE 0]
DeMapas(ms, h)    == Tiras(1..Listas, Largas(ms, h))
Aparta(punto, l)  == IF punto \in Mapeando THEN PaginasDelArchivo(l.usa.archivo) ELSE 0
Apartan(ps, ls)   == [p \in Programas |-> Aparta(ps[p], ls[p])]
Apartadas(ps, ls) == Tiras(Programas, Apartan(ps, ls))

(* What is left, what there is in heaps and mappings, and what is taken for mappings   *)
(* that are on their way, is never more than all the pages.                          *)
Tomadas(T, ms, h, ps, ls) ==
  Cardinality(DeHeaps(T)) + Cardinality(DeMapas(ms, h)) + Cardinality(Apartadas(ps, ls))
Finitas(T, ms, h, ps, ls) ==
  IsFiniteSet(DeHeaps(T)) /\ IsFiniteSet(DeMapas(ms, h)) /\ IsFiniteSet(Apartadas(ps, ls))
LugarInv ==
  /\ SegInv /\ lugar \in Nat /\ Finitas(tabla, mapeos, hojas, pc, loc)
  /\ lugar + TamPag * Tomadas(tabla, mapeos, hojas, pc, loc) <= Paginas * TamPag

LEMMA LasMapeadas ==
  ASSUME SegInv
  PROVE  PaginasMapeadas = DeMapas(mapeos, hojas)
<1> DEFINE f == Largas(mapeos, hojas)
           K == 1..Listas
<1>1. ConLargo(hojas) /\ \A l \in K : DOMAIN hojas[l] = 1..Len(hojas[l])
  <2>1. Paginadas(hojas)
    BY DEF SegInv, Globales, Paginadas
  <2>2. ASSUME NEW l \in K PROVE DOMAIN hojas[l] = 1..Len(hojas[l])
    <3>1. PICK S : hojas[l] \in Seq(S)
      BY <2>1 DEF Paginadas
    <3>2. QED
      BY <3>1, UnaTabla
  <2>3. QED
    BY <2>1, <2>2, Largos
<1>2. ListasDeEntradas = ListasDe(mapeos) /\ ListasDe(mapeos) \subseteq K
  <2>1. \A i \in DOMAIN mapeos : mapeos[i].lista \in K
    BY SonEntradas DEF Entrada
  <2>2. QED
    BY <2>1 DEF ListasDeEntradas, ListasDe
<1>3. \A l \in K : f[l] = IF l \in ListasDe(mapeos) THEN Len(hojas[l]) ELSE 0
  BY DEF Largas
<1> HIDE DEF f
<1>4. \A l \in K \ ListasDe(mapeos) : 1..f[l] = {}
  BY <1>3
<1>5. \A l \in ListasDe(mapeos) : 1..f[l] = DOMAIN hojas[l]
  BY <1>1, <1>2, <1>3
<1>6. UNION {{l} \X (1..f[l]) : l \in K} = UNION {{l} \X DOMAIN hojas[l] : l \in ListasDe(mapeos)}
  <2>1. \A l \in K \ ListasDe(mapeos) : {l} \X (1..f[l]) = {}
    BY <1>4
  <2>2. \A l \in ListasDe(mapeos) : l \in K /\ {l} \X (1..f[l]) = {l} \X DOMAIN hojas[l]
    BY <1>2, <1>5
  <2> HIDE DEF K
  <2>3. QED
    BY <2>1, <2>2
<1>7. QED
  BY <1>2, <1>6 DEF PaginasMapeadas, DeMapas, Tiras, f

LEMMA LugarBasta == LugarInv => LugarCierto
<1> SUFFICES ASSUME LugarInv PROVE LugarCierto
  OBVIOUS
<1> DEFINE a == Cardinality(DeHeaps(tabla))
           b == Cardinality(DeMapas(mapeos, hojas))
           c == Cardinality(Apartadas(pc, loc))
<1>1. a \in Nat /\ b \in Nat /\ c \in Nat
  BY FS_CardinalityType DEF LugarInv, Finitas
<1>2. lugar \in Nat /\ lugar + TamPag * (a + b + c) <= Paginas * TamPag
  BY DEF LugarInv, Tomadas
<1>3. Cardinality(PaginasDeHeaps) = a /\ Cardinality(PaginasMapeadas) = b
  BY LasPaginas, LasMapeadas DEF LugarInv
<1> HIDE DEF a, b, c
<1>4. TamPag \in Nat /\ Paginas \in Nat /\ Paginas * TamPag \in Nat
  BY SegmentosSupuesto, ProductoNat
<1> DEFINE m == TamPag * (a + b)
           n == TamPag * (a + b + c)
<1>5. m \in Nat /\ n \in Nat /\ m <= n
  <2>1. (a + b) \in Nat /\ (a + b + c) \in Nat /\ a + b <= a + b + c
    BY <1>1
  <2>2. (a + b) * TamPag \in Nat /\ (a + b) * TamPag <= (a + b + c) * TamPag
    BY <1>4, <2>1, ProductoNat
  <2>3. TamPag * (a + b) = (a + b) * TamPag /\ TamPag * (a + b + c) = (a + b + c) * TamPag
    BY <1>4, <2>1
  <2>4. (a + b + c) * TamPag \in Nat
    BY <1>4, <2>1, ProductoNat
  <2>5. QED
    BY <2>2, <2>3, <2>4
<1> DEFINE t == Paginas * TamPag
<1>6. lugar + n <= t /\ t \in Nat
  BY <1>2, <1>4
<1> HIDE DEF m, n, t
<1>7. lugar + m <= t
  BY <1>2, <1>5, <1>6
<1>8. QED
  BY <1>3, <1>7 DEF LugarCierto, m, t

(* Nothing is multiplied by the size of a page twice. *)
LEMMA Reparte ==
  ASSUME NEW l \in Nat, NEW k \in Nat, NEW x \in Nat, NEW y \in Nat, NEW n \in Int, NEW t \in Nat,
         NEW j \in Nat, y <= x + n, j <= l - n * k, l + k * x <= t
  PROVE  j + k * y <= t
<1>1. x + n \in Nat
  OBVIOUS
<1>2. y * k <= (x + n) * k
  BY <1>1, ProductoNat
<1>3. (x + n) * k = x * k + n * k /\ k * y = y * k /\ k * x = x * k
  OBVIOUS
<1> DEFINE a == x * k
           b == n * k
           c == y * k
<1>4. a \in Int /\ b \in Int /\ c \in Int
  OBVIOUS
<1>5. c <= a + b /\ j <= l - b /\ l + a <= t
  BY <1>2, <1>3
<1> HIDE DEF a, b, c
<1>6. j + c <= t
  BY <1>4, <1>5
<1>7. QED
  BY <1>3, <1>6 DEF c

LEMMA HojasDeArchivo ==
  ASSUME NEW a \in Archivos
  PROVE  PaginasDelArchivo(a) \in Nat
<1>1. Largo[a] \in Nat /\ TamPag \in Nat /\ TamPag > 0
  BY SegmentosSupuesto
<1>2. Largo[a] + TamPag - 1 \in Nat
  BY <1>1
<1>3. QED
  BY <1>1, <1>2 DEF PaginasDelArchivo

LEMMA ApartaNat ==
  ASSUME NEW punto, NEW l, punto \in Mapeando => l.usa \in Usos
  PROVE  Aparta(punto, l) \in Nat /\ (punto \notin Mapeando => Aparta(punto, l) = 0)
         /\ (punto \in Mapeando => Aparta(punto, l) = PaginasDelArchivo(l.usa.archivo))
BY HojasDeArchivo DEF Aparta, Usos

(* A handler takes a pages for heaps and b for lists, and leaves what it had apart. *)
LEMMA PasoLugar ==
  ASSUME LugarInv, SegInv', NEW p \in Programas, NEW punto, NEW l, Ir(p, punto, l),
         punto \in Mapeando => l.usa \in Usos, NEW a \in Int, NEW b \in Int,
         IsFiniteSet(DeHeaps(tabla')), Cardinality(DeHeaps(tabla')) <= Cardinality(DeHeaps(tabla)) + a,
         IsFiniteSet(DeMapas(mapeos', hojas')),
         Cardinality(DeMapas(mapeos', hojas')) <= Cardinality(DeMapas(mapeos, hojas)) + b,
         lugar' \in Nat, lugar' <= lugar - (a + b + Aparta(punto, l) - Aparta(pc[p], loc[p])) * TamPag
  PROVE  LugarInv'
<1> DEFINE f == Apartan(pc, loc)
           g == Apartan(pc', loc')
           n == Aparta(punto, l)
           m == Aparta(pc[p], loc[p])
<1>1. /\ DOMAIN pc = Programas /\ DOMAIN loc = Programas
      /\ \A q \in Programas : pc[q] \in Mapeando => loc[q].usa \in Usos
  BY SusDatos DEF LugarInv, SegInv, Globales
<1>2. pc'[p] = punto /\ loc'[p] = l /\ \A q \in Programas \ {p} : pc'[q] = pc[q] /\ loc'[q] = loc[q]
  BY <1>1 DEF Ir
<1>3. n \in Nat /\ m \in Nat /\ \A q \in Programas : f[q] \in Nat
  <2>1. \A q \in Programas : Aparta(pc[q], loc[q]) \in Nat
    BY <1>1, ApartaNat
  <2>2. n \in Nat
    BY ApartaNat
  <2>3. QED
    BY <2>1, <2>2 DEF Apartan
<1>4. f[p] = m /\ g[p] = n /\ \A q \in Programas \ {p} : g[q] = f[q]
  BY <1>2 DEF Apartan
<1> HIDE DEF n, m, f, g
<1>5. IsFiniteSet(Tiras(Programas, f))
  BY DEF LugarInv, Finitas, Apartadas, f
<1>6. IsFiniteSet(Tiras(Programas, g)) /\ Cardinality(Tiras(Programas, g)) = Cardinality(Tiras(Programas, f)) + n - m
  <2>1. g[p] \in Nat
    BY <1>3, <1>4
  <2>2. IsFiniteSet(Tiras(Programas, g))
        /\ Cardinality(Tiras(Programas, g)) = Cardinality(Tiras(Programas, f)) + g[p] - f[p]
    BY <1>3, <1>4, <1>5, <2>1, UnaCambia
  <2>3. QED
    BY <1>4, <2>2
<1> DEFINE x1 == Cardinality(DeHeaps(tabla))
           x2 == Cardinality(DeMapas(mapeos, hojas))
           x3 == Cardinality(Tiras(Programas, f))
           y1 == Cardinality(DeHeaps(tabla'))
           y2 == Cardinality(DeMapas(mapeos', hojas'))
           y3 == Cardinality(Tiras(Programas, g))
           x == x1 + x2 + x3
           y == y1 + y2 + y3
           k == a + b + n - m
           t == Paginas * TamPag
<1>7. x1 \in Nat /\ x2 \in Nat /\ x3 \in Nat /\ y1 \in Nat /\ y2 \in Nat /\ y3 \in Nat
  BY <1>5, <1>6, FS_CardinalityType DEF LugarInv, Finitas
<1>8. y1 <= x1 + a /\ y2 <= x2 + b /\ y3 = x3 + n - m
  BY <1>6
<1>9. lugar \in Nat /\ lugar + TamPag * x <= t
  BY DEF LugarInv, Tomadas, Apartadas, f
<1>10. TamPag \in Nat /\ t \in Nat
  BY SegmentosSupuesto, ProductoNat
<1>11. lugar' \in Nat /\ lugar' <= lugar - k * TamPag
  BY DEF n, m
<1> HIDE DEF x1, x2, x3, y1, y2, y3, t
<1>12. x \in Nat /\ y \in Nat /\ k \in Int /\ y <= x + k
  BY <1>3, <1>7, <1>8
<1> HIDE DEF x, y, k
<1>13. lugar' + TamPag * y <= t
  BY <1>9, <1>10, <1>11, <1>12, Reparte
<1>14. Tomadas(tabla', mapeos', hojas', pc', loc') = y
  BY DEF Tomadas, Apartadas, g, y, y1, y2, y3
<1>15. Finitas(tabla', mapeos', hojas', pc', loc')
  BY <1>6 DEF Finitas, Apartadas, g
<1>16. QED
  BY <1>11, <1>13, <1>14, <1>15 DEF LugarInv, t

(* The lists that have an entry do not grow, nor have others one. *)
LEMMA MapasMenos ==
  ASSUME LugarInv, SegInv', ListasDe(mapeos') \subseteq ListasDe(mapeos),
         \A l \in 1..Listas : Len(hojas'[l]) <= Len(hojas[l])
  PROVE  /\ IsFiniteSet(DeMapas(mapeos', hojas'))
         /\ Cardinality(DeMapas(mapeos', hojas')) <= Cardinality(DeMapas(mapeos, hojas))
<1> DEFINE K == 1..Listas
           f == Largas(mapeos, hojas)
           g == Largas(mapeos', hojas')
<1>1. ConLargo(hojas) /\ ConLargo(hojas')
  BY Largos DEF LugarInv, SegInv, Globales, Paginadas
<1>2. \A x \in K : f[x] = IF x \in ListasDe(mapeos) THEN Len(hojas[x]) ELSE 0
  BY DEF Largas
<1>3. \A x \in K : g[x] = IF x \in ListasDe(mapeos') THEN Len(hojas'[x]) ELSE 0
  BY DEF Largas
<1>4. IsFiniteSet(Tiras(K, f))
  BY DEF LugarInv, Finitas, DeMapas
<1> HIDE DEF f, g
<1>5. \A x \in K : f[x] \in Nat /\ x \in K /\ g[x] \in Nat /\ g[x] <= f[x]
  BY <1>1, <1>2, <1>3 DEF ConLargo
<1> HIDE DEF K
<1>6. IsFiniteSet(Tiras(K, g)) /\ Cardinality(Tiras(K, g)) <= Cardinality(Tiras(K, f))
  BY <1>4, <1>5, NoMas
<1>7. QED
  BY <1>6 DEF DeMapas, K, f, g

(* A handler takes nothing of the room. *)
LEMMA NadaToma ==
  ASSUME LugarInv, SegInv', NEW p \in Programas, NEW punto, NEW l, Ir(p, punto, l), punto \notin Mapeando,
         IsFiniteSet(DeHeaps(tabla')), Cardinality(DeHeaps(tabla')) <= Cardinality(DeHeaps(tabla)),
         ListasDe(mapeos') \subseteq ListasDe(mapeos),
         \A i \in 1..Listas : Len(hojas'[i]) <= Len(hojas[i]), lugar' = lugar
  PROVE  LugarInv'
<1>1. /\ IsFiniteSet(DeMapas(mapeos', hojas'))
      /\ Cardinality(DeMapas(mapeos', hojas')) <= Cardinality(DeMapas(mapeos, hojas))
  BY MapasMenos
<1> DEFINE m == Aparta(pc[p], loc[p])
           a == 0
<1>2. Aparta(punto, l) = 0 /\ m \in Nat
  <2>1. pc[p] \in Mapeando => loc[p].usa \in Usos
    BY SusDatos DEF LugarInv
  <2>2. QED
    BY <2>1, ApartaNat
<1>3. IsFiniteSet(DeHeaps(tabla)) /\ IsFiniteSet(DeMapas(mapeos, hojas)) /\ lugar \in Nat
  BY DEF LugarInv, Finitas
<1>4. Cardinality(DeHeaps(tabla)) \in Nat /\ Cardinality(DeMapas(mapeos, hojas)) \in Nat
      /\ Cardinality(DeHeaps(tabla')) \in Nat /\ Cardinality(DeMapas(mapeos', hojas')) \in Nat
  BY <1>1, <1>3, FS_CardinalityType
<1>5. /\ Cardinality(DeHeaps(tabla')) <= Cardinality(DeHeaps(tabla)) + a
      /\ Cardinality(DeMapas(mapeos', hojas')) <= Cardinality(DeMapas(mapeos, hojas)) + a
  BY <1>1, <1>4
<1>6. lugar' <= lugar - (a + a + Aparta(punto, l) - m) * TamPag
  <2>1. (a + a + Aparta(punto, l) - m) * TamPag = -(m * TamPag)
    BY <1>2, SegmentosSupuesto
  <2>2. m * TamPag \in Nat
    BY <1>2, ProductoNat, SegmentosSupuesto
  <2> DEFINE y == m * TamPag
  <2> HIDE DEF y, m
  <2>3. lugar' <= lugar - (-y)
    BY <1>3, <2>2 DEF y
  <2>4. QED
    BY <2>1, <2>3 DEF y
<1>7. a \in Int /\ lugar' \in Nat /\ (punto \in Mapeando => l.usa \in Usos)
  BY <1>3
<1> HIDE DEF m, a
<1>8. QED
  BY <1>1, <1>5, <1>6, <1>7, PasoLugar DEF m

(* Its steps in heaps: the lists of pages stay. *)
LEMMA BienTodas ==
  ASSUME TodosCuidadosos, SegInv
  PROVE  TodasBien(tabla)
<1>1. DOMAIN tabla = Programas
  BY DEF SegInv, Globales
<1>2. \A p \in Programas : tabla[p] \in Seq(Segmento)
  BY DEF TodosCuidadosos, SegInv, EnFila
<1>3. QED
  BY <1>1, <1>2 DEF TodasBien

LEMMA MapasIguales ==
  ASSUME LugarInv, SegInv', UNCHANGED <<mapeos, hojas>>
  PROVE  /\ IsFiniteSet(DeMapas(mapeos', hojas'))
         /\ Cardinality(DeMapas(mapeos', hojas')) <= Cardinality(DeMapas(mapeos, hojas)) + 0
<1>1. IsFiniteSet(DeMapas(mapeos, hojas))
  BY DEF LugarInv, Finitas
<1>2. Cardinality(DeMapas(mapeos, hojas)) \in Nat
  BY <1>1, FS_CardinalityType
<1>3. DeMapas(mapeos', hojas') = DeMapas(mapeos, hojas)
  BY DEF DeMapas, Largas, ListasDe
<1>4. QED
  BY <1>1, <1>2, <1>3

LEMMA HeapsIguales ==
  ASSUME LugarInv, tabla' = tabla
  PROVE  /\ IsFiniteSet(DeHeaps(tabla')) /\ Cardinality(DeHeaps(tabla')) <= Cardinality(DeHeaps(tabla))
         /\ Cardinality(DeHeaps(tabla')) <= Cardinality(DeHeaps(tabla)) + 0
<1>1. IsFiniteSet(DeHeaps(tabla))
  BY DEF LugarInv, Finitas
<1>2. Cardinality(DeHeaps(tabla)) \in Nat
  BY <1>1, FS_CardinalityType
<1>3. QED
  BY <1>1, <1>2

LEMMA PasoHeaps ==
  ASSUME LugarInv, SegInv', NEW p \in Programas, NEW punto, NEW l, Ir(p, punto, l), punto \notin Mapeando,
         pc[p] \notin Mapeando, UNCHANGED <<mapeos, hojas>>, NEW a \in Int,
         IsFiniteSet(DeHeaps(tabla')), Cardinality(DeHeaps(tabla')) <= Cardinality(DeHeaps(tabla)) + a,
         lugar' \in Nat, lugar' <= lugar - a * TamPag
  PROVE  LugarInv'
<1>1. /\ IsFiniteSet(DeMapas(mapeos', hojas'))
      /\ Cardinality(DeMapas(mapeos', hojas')) <= Cardinality(DeMapas(mapeos, hojas)) + 0
  BY MapasIguales
<1>2. Aparta(punto, l) = 0 /\ Aparta(pc[p], loc[p]) = 0
  BY DEF Aparta
<1>3. lugar' <= lugar - (a + 0 + Aparta(punto, l) - Aparta(pc[p], loc[p])) * TamPag
  <2>1. a + 0 + Aparta(punto, l) - Aparta(pc[p], loc[p]) = a
    BY <1>2
  <2>2. QED
    BY <2>1
<1> DEFINE b == 0
<1>4. /\ b \in Int /\ Cardinality(DeMapas(mapeos', hojas')) <= Cardinality(DeMapas(mapeos, hojas)) + b
      /\ lugar' <= lugar - (a + b + Aparta(punto, l) - Aparta(pc[p], loc[p])) * TamPag
  BY <1>1, <1>3
<1> HIDE DEF b
<1>5. QED
  BY <1>1, <1>4, PasoLugar

(* One segment of heap takes n pages, or gives them back. *)
LEMMA PasoSegmento ==
  ASSUME LugarInv, TodosCuidadosos, SegInv', NEW p \in Programas, NEW punto, NEW l, Ir(p, punto, l),
         punto \notin Mapeando, pc[p] \notin Mapeando, UNCHANGED <<mapeos, hojas>>, NEW n \in Int,
         NEW k \in DOMAIN tabla[p], ~tabla[p][k].mmapeado, NEW s \in DeHeap,
         s.paginas = tabla[p][k].paginas + n, tabla' = ConTabla(tabla, p, Cambiado(tabla[p], k, s)),
         lugar' \in Nat, lugar' <= lugar - n * TamPag
  PROVE  LugarInv'
<1>1. TodasBien(tabla) /\ IsFiniteSet(DeHeaps(tabla))
  BY BienTodas DEF LugarInv, Finitas
<1>2. IsFiniteSet(DeHeaps(tabla')) /\ Cardinality(DeHeaps(tabla')) = Cardinality(DeHeaps(tabla)) + n
  BY <1>1, TomaPaginas
<1>3. Cardinality(DeHeaps(tabla')) \in Nat
  BY <1>2, FS_CardinalityType
<1>4. Cardinality(DeHeaps(tabla')) <= Cardinality(DeHeaps(tabla)) + n
  BY <1>2, <1>3
<1>5. QED
  BY <1>2, <1>4, PasoHeaps

(* Nothing of it changes its pages. *)
LEMMA PasoRetoque ==
  ASSUME LugarInv, TodosCuidadosos, SegInv', NEW p \in Programas, NEW punto, NEW l, Ir(p, punto, l),
         punto \notin Mapeando, pc[p] \notin Mapeando, UNCHANGED <<mapeos, hojas, lugar>>,
         NEW k \in DOMAIN tabla[p], ~tabla[p][k].mmapeado, NEW s \in DeHeap,
         s.paginas = tabla[p][k].paginas, tabla' = ConTabla(tabla, p, Cambiado(tabla[p], k, s))
  PROVE  LugarInv'
<1> DEFINE n == 0
<1>1. n \in Int /\ s.paginas = tabla[p][k].paginas + n
  BY DEF DeHeap
<1>2. lugar' \in Nat /\ lugar' <= lugar - n * TamPag
  BY SegmentosSupuesto DEF LugarInv
<1> HIDE DEF n
<1>3. QED
  BY <1>1, <1>2, PasoSegmento

LEMMA PasoNada ==
  ASSUME LugarInv, SegInv', NEW p \in Programas, NEW punto, NEW l, Ir(p, punto, l), punto \notin Mapeando,
         tabla' = tabla, lugar' = lugar, ListasDe(mapeos') \subseteq ListasDe(mapeos),
         \A i \in 1..Listas : Len(hojas'[i]) <= Len(hojas[i])
  PROVE  LugarInv'
BY HeapsIguales, NadaToma

LEMMA PasoNadaNada ==
  ASSUME LugarInv, SegInv', NEW p \in Programas, NEW punto, NEW l, Ir(p, punto, l), punto \notin Mapeando,
         UNCHANGED <<tabla, lugar, mapeos>>, MismosLargos(hojas, hojas')
  PROVE  LugarInv'
<1>1. ConLargo(hojas)
  BY Largos DEF LugarInv, SegInv, Globales, Paginadas
<1>2. \A i \in 1..Listas : Len(hojas'[i]) <= Len(hojas[i])
  BY <1>1 DEF MismosLargos, ConLargo
<1>3. ListasDe(mapeos') \subseteq ListasDe(mapeos)
  OBVIOUS
<1>4. QED
  BY <1>2, <1>3, PasoNada

(* The pages of what muse_alloc and muse_free leave of a segment. *)
LEMMA OtrosHeaps ==
  ASSUME NEW s \in DeHeap, NEW hs
  PROVE  [s EXCEPT !.heaps = hs].paginas = s.paginas
BY DEF DeHeap

LEMMA PaginasIguales ==
  ASSUME NEW s \in DeHeap, NEW i, NEW n
  PROVE  /\ Partir(s, i, n).paginas = s.paginas /\ Marcado(s, i, n).paginas = s.paginas
         /\ Renumerado(s).paginas = s.paginas /\ Fundidos(s, i).paginas = s.paginas
<1>1. Partir(s, i, n).paginas = s.paginas
  <2> DEFINE hs == InsertAt([s.heaps EXCEPT ![i].espacio = n, ![i].libre = FALSE], s.heaps[i].indice + 2,
                     Heap(s.heaps[i].dir + n + TamMeta, s.heaps[i].espacio - n - TamMeta, TRUE, s.heaps[i].indice + 1))
  <2>1. Partir(s, i, n) = [s EXCEPT !.heaps = hs]
    BY DEF Partir
  <2> HIDE DEF hs
  <2>2. QED
    BY <2>1, OtrosHeaps
<1>2. Marcado(s, i, n).paginas = s.paginas
  <2> DEFINE hs == [s.heaps EXCEPT ![i].libre = n]
  <2>1. Marcado(s, i, n) = [s EXCEPT !.heaps = hs]
    BY DEF Marcado
  <2> HIDE DEF hs
  <2>2. QED
    BY <2>1, OtrosHeaps
<1>3. Renumerado(s).paginas = s.paginas
  <2> DEFINE hs == [j \in DOMAIN s.heaps |-> [s.heaps[j] EXCEPT !.indice = j - 1]]
  <2>1. Renumerado(s) = [s EXCEPT !.heaps = hs]
    BY DEF Renumerado
  <2> HIDE DEF hs
  <2>2. QED
    BY <2>1, OtrosHeaps
<1>4. Fundidos(s, i).paginas = s.paginas
  <2> DEFINE x == s.heaps[i - 1].espacio + TamMeta + s.heaps[i].espacio
             hs == SinHeap([s.heaps EXCEPT ![i - 1].espacio = x], s.heaps[i])
  <2>1. Fundidos(s, i) = [s EXCEPT !.heaps = hs]
    BY DEF Fundidos
  <2> HIDE DEF hs, x
  <2>2. QED
    BY <2>1, OtrosHeaps
<1>5. QED
  BY <1>1, <1>2, <1>3, <1>4

LEMMA PaginasDeMas ==
  ASSUME NEW s \in DeHeap, NEW n \in Nat, NEW t
  PROVE  /\ ConLiberadas(s, n, t).paginas = s.paginas + n /\ Ampliado(s, n, t).paginas = s.paginas + n
         /\ Rearmado(s).paginas = s.paginas + 1
<1>2. ConLiberadas(s, n, t).paginas = s.paginas + n
  <2> DEFINE h == Last(s.heaps)
             d == h.dir + TamMeta + t
             hs == Append(Front(s.heaps) \o <<Heap(h.dir, t, FALSE, h.indice)>>,
                          Heap(d, TamPag - ((d + TamMeta) % TamPag), TRUE, h.indice + 1))
             m == (s.paginas + n) * TamPag
  <2>1. ConLiberadas(s, n, t) = [s EXCEPT !.paginas = @ + n, !.liberadas = @ - n, !.tamanio = m, !.heaps = hs]
    BY DEF ConLiberadas
  <2> HIDE DEF hs, m
  <2>2. QED
    BY <2>1 DEF DeHeap
<1>3. Ampliado(s, n, t).paginas = s.paginas + n
  <2> DEFINE h == Last(s.heaps)
             hs == InsertAt(Front(s.heaps) \o <<[h EXCEPT !.espacio = t]>>, h.indice + 2,
                     Heap(h.dir + t + TamMeta, n * TamPag - t - TamMeta + h.espacio, TRUE, h.indice + 1))
             m == n * TamPag
  <2>1. Ampliado(s, n, t) = [s EXCEPT !.paginas = @ + n, !.tamanio = @ + m, !.heaps = hs]
    BY DEF Ampliado
  <2> HIDE DEF hs, m
  <2>2. QED
    BY <2>1 DEF DeHeap
<1>4. Rearmado(s).paginas = s.paginas + 1
  <2> DEFINE hs == <<Heap(0, TamPag - TamMeta, TRUE, 0)>>
  <2>1. Rearmado(s) = [s EXCEPT !.paginas = @ + 1, !.heaps = hs]
    BY DEF Rearmado
  <2> HIDE DEF hs
  <2>2. QED
    BY <2>1 DEF DeHeap
<1>5. QED
  BY <1>2, <1>3, <1>4

(* muse_free leaves no more of them. *)
LEMMA PaginasDeMenos ==
  ASSUME NEW s \in DeHeap, NEW i \in 1..Len(s.heaps)
  PROVE  Junto(s, i).paginas \in Nat /\ Junto(s, i).paginas <= s.paginas
<1>1. s.paginas \in Nat /\ s.heaps \in Seq(Metadatos)
  BY DEF DeHeap, Metadatos
<1>2. SinPaginas(s).paginas = 0
  <2> DEFINE n == s.liberadas + s.paginas
             v == <<>>
  <2>1. SinPaginas(s) = [s EXCEPT !.paginas = 0, !.liberadas = n, !.tamanio = 0, !.heaps = v]
    BY DEF SinPaginas
  <2> HIDE DEF n, v
  <2>2. QED
    BY <2>1 DEF DeHeap
<1>3. ASSUME i > 1 PROVE SinCola(s, i).paginas \in Nat /\ SinCola(s, i).paginas <= s.paginas
  <2> DEFINE hs      == s.heaps
             ant     == hs[i - 1]
             quedan  == Min({s.paginas, PaginaDelAnterior(ant) + 1})
             espacio == TamPag - (ant.dir % TamPag) - TamMeta
             us      == SinHeap([hs EXCEPT ![i - 1].espacio = espacio], hs[i])
             m       == quedan * TamPag
             x       == s.liberadas + s.paginas - quedan
  <2>0. DOMAIN hs = 1..Len(hs) /\ Len(hs) \in Nat
    BY <1>1, UnaTabla
  <2>1. i - 1 \in DOMAIN hs
    BY <1>3, <2>0
  <2>2. ant.dir \in Nat
    BY <1>1, <2>1, UnaTabla, DeMeta
  <2>3. PaginaDelAnterior(ant) \in Nat
    <3> HIDE DEF ant
    <3>1. ant.dir + TamMeta \in Nat /\ TamPag \in Nat /\ TamPag > 0
      BY <2>2, SegmentosSupuesto
    <3>2. QED
      BY <3>1 DEF PaginaDelAnterior
  <2>4. quedan \in Nat /\ quedan <= s.paginas
    <3> DEFINE c == PaginaDelAnterior(ant) + 1
               I == {s.paginas, c}
    <3>1. c \in Nat
      BY <2>3
    <3> HIDE DEF c
    <3>2. I \in SUBSET Nat /\ I # {} /\ s.paginas \in I
      BY <1>1, <3>1
    <3> HIDE DEF I
    <3>3. Min(I) \in I /\ Min(I) <= s.paginas
      BY <3>2, MinEsta
    <3>4. quedan = Min(I)
      BY DEF I, c
    <3>5. QED
      BY <3>2, <3>3, <3>4
  <2>5. SinCola(s, i) = [s EXCEPT !.paginas = quedan, !.liberadas = x, !.tamanio = m, !.heaps = us]
    BY DEF SinCola
  <2> HIDE DEF quedan, us, m, x
  <2>6. SinCola(s, i).paginas = quedan
    BY <2>5 DEF DeHeap
  <2>7. QED
    BY <2>4, <2>6
<1>4. Fundidos(s, i).paginas = s.paginas
  BY PaginasIguales
<1>5. \/ Junto(s, i) = s \/ Junto(s, i) = SinPaginas(s) \/ Junto(s, i) = Fundidos(s, i)
      \/ i > 1 /\ Junto(s, i) = SinCola(s, i)
  BY DEF Junto
<1>6. QED
  BY <1>1, <1>2, <1>3, <1>4, <1>5

-----------------------------------------------------------------------------
(* The steps of muse_alloc and muse_free. *)

LEMMA FueraDeMapear ==
  {"alloc", "libre", "revisar", "reservar", "ampliar", "juntar", "cargar", "traer", "tocar", "bajar", "quitar",
   "cerrar", "descontar", "olvidar", "fin", "muerto", "nuevo"} \cap Mapeando = {}
BY DEF Mapeando

LEMMA DecidirLugar ==
  ASSUME LugarInv, TodosCuidadosos, NEW p \in Programas, Decidir(p)
  PROVE  LugarInv'
<1>1. SegInv'
  BY DecidirSeg DEF LugarInv
<1>2. UNCHANGED <<tabla, lugar, mapeos>> /\ MismosLargos(hojas, hojas')
  BY IgualesLargos DEF Decidir, compartidos
<1> DEFINE l == [loc[p] EXCEPT !.seg = 0, !.n = Hojas(loc[p].t + 2 * TamMeta)]
           m == [loc[p] EXCEPT !.seg = 1]
<1>3. Ir(p, "reservar", l) \/ Ir(p, "revisar", m)
  BY DEF Decidir, PedirSegmento
<1> HIDE DEF l, m
<1>4. QED
  BY <1>1, <1>2, <1>3, FueraDeMapear, PasoNadaNada

LEMMA OcuparLugar ==
  ASSUME LugarInv, TodosCuidadosos, NEW p \in Programas, Ocupar(p)
  PROVE  LugarInv'
<1> DEFINE n == loc[p].t
           k == ConEspacio(p, n)
           i == HuecoDe(tabla[p][k], n)
           s == Partir(tabla[p][k], i, n)
<1>0. SegInv /\ SegInv'
  BY OcuparSeg DEF LugarInv
<1>1. /\ ~caido /\ pc[p] = "alloc" /\ k # 0 /\ UNCHANGED <<mapeos, hojas, lugar>>
      /\ tabla' = [tabla EXCEPT ![p][k] = s] /\ Ir(p, "libre", LocalVacio)
  BY DEF Ocupar, Esta, Responder, compartidos
<1>2. k = Elegido(tabla[p], n)
  BY DEF ConEspacio, Elegido
<1> HIDE DEF k
<1>3. /\ tabla[p] \in Seq(Segmento) /\ LocalBien(loc[p]) /\ Momento(hojas, tabla[p], loc[p], pc[p])
  BY <1>0, <1>1, SuFila DEF TodosCuidadosos
<1>4. n \in Nat /\ IndiceAlDia(tabla[p][k], i)
  BY <1>1, <1>2, <1>3 DEF LocalBien, Momento, AlPedir
<1>5. k \in DOMAIN tabla[p] /\ tabla[p][k] \in DeHeap /\ ~tabla[p][k].mmapeado /\ i \in DOMAIN tabla[p][k].heaps
  BY <1>1, <1>2, <1>3, <1>4, EligeSegmento
<1> HIDE DEF i
<1>6. s \in DeHeap /\ s.paginas = tabla[p][k].paginas
  BY <1>4, <1>5, Partido, PaginasIguales
<1> HIDE DEF s
<1>7. tabla' = ConTabla(tabla, p, Cambiado(tabla[p], k, s))
  BY <1>1 DEF ConTabla, Cambiado
<1> HIDE DEF n
<1>8. QED
  BY <1>0, <1>1, <1>5, <1>6, <1>7, FueraDeMapear, PasoRetoque

LEMMA RevisarLugar ==
  ASSUME LugarInv, TodosCuidadosos, NEW p \in Programas, Revisar(p)
  PROVE  LugarInv'
<1> DEFINE k == loc[p].seg
           n == loc[p].t
           t == tabla[p]
           s == t[k]
           rearma == ~s.mmapeado /\ s.heaps = <<>> /\ lugar >= TamPag
           nuevo  == IF rearma THEN Rearmado(s) ELSE s
           l1 == [loc[p] EXCEPT !.n = HojasQueFaltan(nuevo, n)]
           l2 == [loc[p] EXCEPT !.seg = @ + 1]
<1>0. SegInv /\ SegInv' /\ lugar \in Nat
  BY RevisarSeg DEF LugarInv
<1>1. /\ ~caido /\ pc[p] = "revisar" /\ k <= Len(t) /\ UNCHANGED <<mapeos, hojas>>
      /\ tabla' = [tabla EXCEPT ![p][k] = nuevo] /\ lugar' = IF rearma THEN lugar - TamPag ELSE lugar
      /\ Ir(p, "reservar", l1) \/ Ir(p, "revisar", l2)
  BY DEF Revisar, Esta, compartidos, LugarTras
<1> HIDE DEF l1, l2
<1>2. PICK punto \in {"reservar", "revisar"} : \E l : Ir(p, punto, l)
  BY <1>1
<1>3. PICK l : Ir(p, punto, l)
  BY <1>2
<1>4. punto \notin Mapeando /\ pc[p] \notin Mapeando
  BY <1>1, FueraDeMapear
<1>5. /\ t \in Seq(Segmento) /\ LocalBien(loc[p]) /\ Momento(hojas, t, loc[p], pc[p])
      /\ DOMAIN t = 1..Len(t)
  BY <1>0, <1>1, SuFila DEF TodosCuidadosos
<1>6. k \in DOMAIN t
  BY <1>1, <1>5 DEF Momento, AlRevisar, LocalBien
<1>7. CASE ~rearma
  <2>1. nuevo = s /\ lugar' = lugar
    BY <1>1, <1>7
  <2>2. tabla' = tabla
    <3> HIDE DEF nuevo
    <3>1. [t EXCEPT ![k] = s] = t
      BY <1>5, <1>6
    <3>2. tabla' = [tabla EXCEPT ![p] = t]
      BY <1>1, <2>1, <3>1
    <3>3. QED
      BY <1>0, <3>2, SusDatos
  <2>3. MismosLargos(hojas, hojas')
    BY <1>1, IgualesLargos
  <2>4. QED
    BY <1>0, <1>1, <1>3, <1>4, <2>1, <2>2, <2>3, PasoNadaNada
<1>8. CASE rearma
  <2>1. nuevo = Rearmado(s) /\ lugar' = lugar - TamPag /\ ~s.mmapeado /\ lugar >= TamPag
    BY <1>1, <1>8
  <2>2. s \in DeHeap
    BY <1>5, <1>6, <2>1, UnaTabla, CualEs
  <2>3. nuevo \in DeHeap /\ nuevo.paginas = s.paginas + 1
    <3> DEFINE x == 1
    <3>1. x \in Nat
      OBVIOUS
    <3> HIDE DEF x
    <3>2. QED
      BY <2>1, <2>2, <3>1, Vuelve, PaginasDeMas
  <2> HIDE DEF nuevo
  <2>4. tabla' = ConTabla(tabla, p, Cambiado(tabla[p], k, nuevo))
    BY <1>1 DEF ConTabla, Cambiado
  <2> DEFINE u == 1
  <2>5. u \in Int /\ lugar' \in Nat /\ lugar' <= lugar - u * TamPag /\ nuevo.paginas = tabla[p][k].paginas + u
    BY <1>0, <2>1, <2>3, SegmentosSupuesto
  <2>6. k \in DOMAIN tabla[p] /\ ~tabla[p][k].mmapeado
    BY <1>6, <2>1
  <2> HIDE DEF u, k
  <2>7. QED
    BY <1>0, <1>1, <1>3, <1>4, <2>3, <2>4, <2>5, <2>6, PasoSegmento
<1>9. QED
  BY <1>7, <1>8

LEMMA ReservarLugar ==
  ASSUME LugarInv, TodosCuidadosos, NEW p \in Programas, Reservar(p)
  PROVE  LugarInv'
<1> DEFINE l == loc[p]
           t == tabla[p]
           s == IF l.seg = 0 THEN SegmentoNuevo(BaseNueva(p), l.t, l.n) ELSE ConLiberadas(t[l.seg], l.n, l.t)
           m == l.n * TamPag
<1>0. SegInv /\ SegInv' /\ lugar \in Nat
  BY ReservarSeg DEF LugarInv
<1>1. /\ ~caido /\ pc[p] = "reservar" /\ UNCHANGED <<mapeos, hojas>> /\ Ir(p, "libre", LocalVacio)
      /\ \/ UNCHANGED <<lugar, tabla>>
         \/ /\ ~(lugar < m) /\ lugar' = lugar - m
            /\ tabla' = IF l.seg = 0 THEN [tabla EXCEPT ![p] = Append(t, s)]
                        ELSE [tabla EXCEPT ![p][l.seg] = s]
  BY DEF Reservar, Esta, Responder, compartidos
<1> HIDE DEF s
<1>2. /\ t \in Seq(Segmento) /\ Ordenada(hojas, t) /\ Momento(hojas, t, l, pc[p])
      /\ l.seg \in Nat /\ l.n \in Nat /\ l.t \in Nat /\ AlReservar(t, l)
  BY <1>0, <1>1, SuFila DEF TodosCuidadosos, LocalBien, Momento
<1>3. BaseNueva(p) \in Nat
  BY <1>0, <1>2, SusDatos, DondeVa DEF ConLargo
<1>4. m \in Nat
  BY <1>2, ProductoNat, SegmentosSupuesto
<1>5. CASE UNCHANGED <<lugar, tabla>>
  BY <1>0, <1>1, <1>5, IgualesLargos, FueraDeMapear, PasoNadaNada
<1>6. CASE /\ ~(lugar < m) /\ lugar' = lugar - m
           /\ tabla' = IF l.seg = 0 THEN [tabla EXCEPT ![p] = Append(t, s)]
                       ELSE [tabla EXCEPT ![p][l.seg] = s]
  <2>1. lugar' \in Nat /\ lugar' <= lugar - m
    <3> HIDE DEF m
    <3>1. QED
      BY <1>0, <1>4, <1>6
  <2> DEFINE n == l.n
  <2>0. n \in Nat /\ n \in Int /\ lugar' <= lugar - n * TamPag
    BY <1>2, <2>1
  <2>2. CASE l.seg = 0
    <3>1. tabla' = ConTabla(tabla, p, Append(tabla[p], s))
      BY <1>6, <2>2 DEF ConTabla
    <3>2. s = SegmentoNuevo(BaseNueva(p), l.t, n)
      BY <2>2 DEF s
    <3>3. s \in Segmento /\ s \in DeHeap
      BY <1>2, <1>3, <3>2, Nuevo DEF Segmento
    <3>4. s.mmapeado = FALSE /\ s.paginas = n
      BY <3>2 DEF SegmentoNuevo
    <3> HIDE DEF n, t, l, m
    <3>5. n = (IF s.mmapeado THEN 0 ELSE s.paginas)
      BY <3>4
    <3>6. TodasBien(tabla) /\ IsFiniteSet(DeHeaps(tabla))
      BY <1>0, BienTodas DEF LugarInv, Finitas
    <3>7. IsFiniteSet(DeHeaps(tabla')) /\ Cardinality(DeHeaps(tabla')) = Cardinality(DeHeaps(tabla)) + n
      BY <2>0, <3>1, <3>3, <3>5, <3>6, AgregaPaginas
    <3>8. Cardinality(DeHeaps(tabla')) <= Cardinality(DeHeaps(tabla)) + n
      <4>1. Cardinality(DeHeaps(tabla')) \in Nat
        BY <3>7, FS_CardinalityType
      <4>2. QED
        BY <3>7, <4>1
    <3>9. QED
      BY <1>0, <1>1, <2>0, <2>1, <3>7, <3>8, FueraDeMapear, PasoHeaps
  <2>3. CASE l.seg # 0
    <3> DEFINE k == l.seg
    <3>1. k \in DOMAIN tabla[p] /\ ~tabla[p][k].mmapeado /\ t[k].heaps # <<>> /\ n <= t[k].liberadas
      BY <1>2, <2>3 DEF AlReservar, ConMeta
    <3>2. t[k] \in DeHeap
      BY <1>2, <3>1, UnaTabla, CualEs
    <3>3. s = ConLiberadas(t[k], n, l.t)
      BY <2>3 DEF s
    <3>4. s \in DeHeap /\ s.paginas = tabla[p][k].paginas + n
      BY <1>2, <3>1, <3>2, <3>3, Retoma, PaginasDeMas
    <3>5. tabla' = ConTabla(tabla, p, Cambiado(tabla[p], k, s))
      BY <1>6, <2>3 DEF ConTabla, Cambiado
    <3> HIDE DEF n, t, l, m, k
    <3>6. QED
      BY <1>0, <1>1, <2>0, <2>1, <3>1, <3>4, <3>5, FueraDeMapear, PasoSegmento
  <2>4. QED
    BY <2>2, <2>3
<1>7. QED
  BY <1>1, <1>5, <1>6

LEMMA SinLiberadasLugar ==
  ASSUME LugarInv, TodosCuidadosos, NEW p \in Programas, SinLiberadas(p)
  PROVE  LugarInv'
<1> DEFINE l == loc[p]
           t == tabla[p]
           n == Len(t)
           s == Last(t)
           i == Len(s.heaps)
           v == FALSE
           m == Marcado(t[n], i, v)
           r == [loc[p] EXCEPT !.seg = 0, !.n = Hojas(loc[p].t + 2 * TamMeta)]
<1>0. SegInv /\ SegInv' /\ MismosLargos(hojas, hojas)
  BY SinLiberadasSeg, IgualesLargos DEF LugarInv
<1>1. /\ ~caido /\ pc[p] = "revisar" /\ l.seg > n /\ UNCHANGED <<lugar, mapeos, hojas>>
      /\ Ir(p, "ampliar", l) \/ Ir(p, "reservar", r)
      /\ \/ tabla' = tabla
         \/ /\ ~s.mmapeado /\ s.heaps # <<>>
            /\ tabla' = [tabla EXCEPT ![p][n].heaps[i].libre = v]
  BY DEF SinLiberadas, Esta, compartidos, PedirSegmento
<1> HIDE DEF r
<1>2. PICK punto \in {"ampliar", "reservar"} : \E x : Ir(p, punto, x)
  BY <1>1
<1>3. PICK x : Ir(p, punto, x)
  BY <1>2
<1>4. punto \notin Mapeando /\ pc[p] \notin Mapeando
  BY <1>1, FueraDeMapear
<1>5. CASE tabla' = tabla
  BY <1>0, <1>1, <1>3, <1>4, <1>5, PasoNadaNada
<1>6. CASE /\ ~s.mmapeado /\ s.heaps # <<>>
           /\ tabla' = [tabla EXCEPT ![p][n].heaps[i].libre = v]
  <2>1. t \in Seq(Segmento) /\ Momento(hojas, t, l, pc[p])
    BY <1>0, <1>1, SuFila DEF TodosCuidadosos
  <2>2. t # <<>>
    BY <1>1, <2>1 DEF Momento, AlRevisar
  <2>3. s = t[n] /\ n \in DOMAIN t
    BY <2>1, <2>2, Ultimo
  <2>4. t[n] \in DeHeap
    BY <1>6, <2>1, <2>3, UnaTabla, CualEs
  <2>5. t[n].heaps \in Seq(Metadatos)
    BY <2>4 DEF DeHeap, Metadatos
  <2>6. i \in DOMAIN t[n].heaps
    BY <1>6, <2>3, <2>5, Ultimo
  <2>7. tabla' = ConTabla(tabla, p, Cambiado(tabla[p], n, m))
    BY <1>6 DEF ConTabla, Cambiado, Marcado
  <2>8. v \in BOOLEAN /\ ~tabla[p][n].mmapeado /\ n \in DOMAIN tabla[p] /\ tabla[p][n] \in DeHeap
    BY <1>6, <2>3, <2>4
  <2> HIDE DEF i, v
  <2>9. m \in DeHeap /\ m.paginas = tabla[p][n].paginas
    BY <2>6, <2>8, MarcadoIgual, PaginasIguales
  <2> HIDE DEF m, n
  <2>10. QED
    BY <1>0, <1>1, <1>3, <1>4, <2>7, <2>8, <2>9, PasoRetoque
<1>7. QED
  BY <1>1, <1>5, <1>6

LEMMA RenumerarLugar ==
  ASSUME LugarInv, TodosCuidadosos, NEW p \in Programas, Renumerar(p)
  PROVE  LugarInv'
<1> DEFINE t == tabla[p]
           k == loc[p].seg
           s == Renumerado(t[k])
<1>0. SegInv /\ SegInv'
  BY RenumerarSeg DEF LugarInv
<1>1. /\ ~caido /\ pc[p] = "juntar" /\ UNCHANGED <<mapeos, hojas, lugar>> /\ Ir(p, "libre", LocalVacio)
  BY DEF Renumerar, Esta, compartidos, Responder
<1>2. tabla' = [tabla EXCEPT ![p][k] = s]
  BY DEF Renumerar, Renumerado
<1>3. t \in Seq(Segmento) /\ Momento(hojas, t, loc[p], pc[p])
  BY <1>0, <1>1, SuFila DEF TodosCuidadosos
<1>4. k \in DOMAIN tabla[p] /\ ~tabla[p][k].mmapeado
  BY <1>1, <1>3 DEF Momento, AlJuntar
<1>5. t[k] \in DeHeap
  BY <1>3, <1>4, UnaTabla, CualEs
<1>6. s \in DeHeap /\ s.paginas = tabla[p][k].paginas
  BY <1>5, RenumeradoIgual, PaginasIguales
<1> HIDE DEF s
<1>7. tabla' = ConTabla(tabla, p, Cambiado(tabla[p], k, s))
  BY <1>2 DEF ConTabla, Cambiado
<1> HIDE DEF k
<1>8. QED
  BY <1>0, <1>1, <1>4, <1>6, <1>7, FueraDeMapear, PasoRetoque

LEMMA AmpliarLugar ==
  ASSUME LugarInv, TodosCuidadosos, NEW p \in Programas, Ampliar(p)
  PROVE  LugarInv'
<1> DEFINE l == loc[p]
           t == tabla[p]
           k == Len(t)
           h == Last(t[k].heaps)
           n == Hojas(l.t + TamMeta - h.espacio)
           m == n * TamPag
           x == SinSigno(m)
           s == Ampliado(t[k], n, l.t)
<1>0. SegInv /\ SegInv' /\ lugar \in Nat
  BY AmpliarSeg DEF LugarInv
<1>1. /\ ~caido /\ pc[p] = "ampliar" /\ UNCHANGED <<mapeos, hojas>> /\ Ir(p, "libre", LocalVacio)
      /\ \/ UNCHANGED <<lugar, tabla>>
         \/ ~(lugar < x) /\ lugar' = lugar - x /\ tabla' = tabla
         \/ ~(lugar < x) /\ lugar' = lugar - x /\ ~(m >= Palabra) /\ tabla' = [tabla EXCEPT ![p][k] = s]
  BY DEF Ampliar, Esta, Responder, compartidos
<1>2. /\ t \in Seq(Segmento) /\ LocalBien(l) /\ AlAmpliar(t)
  BY <1>0, <1>1, SuFila DEF TodosCuidadosos, Momento
<1>3. k \in DOMAIN t /\ ~t[k].mmapeado /\ t[k].heaps # <<>> /\ IndiceAlDia(t[k], Len(t[k].heaps))
  BY <1>2 DEF AlAmpliar, UltimoAlDia, ConMeta
<1>4. t[k] \in DeHeap
  BY <1>2, <1>3, UnaTabla, CualEs
<1>5. h \in Metadatos
  <2>1. t[k].heaps \in Seq(Metadatos)
    BY <1>4 DEF DeHeap, Metadatos
  <2>2. QED
    BY <1>3, <2>1, Ultimo
<1>6. l.t \in Nat
  BY <1>2 DEF LocalBien
<1>7. n \in Nat
  <2>1. h.espacio \in Int /\ TamMeta \in Int
    BY <1>5, DeMeta, SegmentosSupuesto
  <2> HIDE DEF h
  <2>2. l.t + TamMeta - h.espacio \in Int
    BY <1>6, <2>1
  <2>3. QED
    BY <2>2, HojasNat
<1> HIDE DEF n
<1>8. m \in Nat
  BY <1>7, ProductoNat, SegmentosSupuesto
<1>9. x \in Nat /\ (m < Palabra => x = m)
  <2> HIDE DEF m
  <2>1. x \in Nat /\ Palabra \in Nat
    BY <1>8, HojasNat, SegmentosSupuesto
  <2>2. m < Palabra => x = m
    BY <1>8, <2>1 DEF SinSigno
  <2>3. QED
    BY <2>1, <2>2
<1>10. CASE UNCHANGED <<lugar, tabla>>
  BY <1>0, <1>1, <1>10, IgualesLargos, FueraDeMapear, PasoNadaNada
<1>11. CASE ~(lugar < x) /\ lugar' = lugar - x /\ tabla' = tabla
  <2> DEFINE a == 0
  <2> HIDE DEF x
  <2>1. lugar' \in Nat /\ lugar' <= lugar
    BY <1>0, <1>9, <1>11
  <2>2. a * TamPag = 0 /\ lugar - 0 = lugar
    BY <1>0, SegmentosSupuesto
  <2>3. a \in Int /\ lugar' <= lugar - a * TamPag
    BY <2>1, <2>2
  <2>4. IsFiniteSet(DeHeaps(tabla')) /\ Cardinality(DeHeaps(tabla')) <= Cardinality(DeHeaps(tabla)) + a
    BY <1>11, HeapsIguales
  <2> HIDE DEF a
  <2>5. QED
    BY <1>0, <1>1, <2>1, <2>3, <2>4, FueraDeMapear, PasoHeaps
<1>12. CASE ~(lugar < x) /\ lugar' = lugar - x /\ ~(m >= Palabra) /\ tabla' = [tabla EXCEPT ![p][k] = s]
  <2>1. x = m
    <3> HIDE DEF m, x
    <3>1. Palabra \in Nat
      BY SegmentosSupuesto
    <3>2. QED
      BY <1>8, <1>9, <1>12, <3>1
  <2>2. lugar' \in Nat /\ lugar' <= lugar - m
    <3> HIDE DEF m, x
    <3>1. QED
      BY <1>0, <1>9, <1>12, <2>1
  <2>3. n \in Int /\ lugar' <= lugar - n * TamPag
    BY <1>7, <2>2
  <2>4. s \in DeHeap /\ s.paginas = tabla[p][k].paginas + n
    BY <1>3, <1>4, <1>6, <1>7, Crece, PaginasDeMas
  <2> HIDE DEF s
  <2>5. tabla' = ConTabla(tabla, p, Cambiado(tabla[p], k, s))
    BY <1>12 DEF ConTabla, Cambiado
  <2>6. k \in DOMAIN tabla[p] /\ ~tabla[p][k].mmapeado
    BY <1>3
  <2> HIDE DEF k, m, x
  <2>7. QED
    BY <1>0, <1>1, <2>2, <2>3, <2>4, <2>5, <2>6, FueraDeMapear, PasoSegmento
<1>13. QED
  BY <1>1, <1>10, <1>11, <1>12

LEMMA JuntarLugar ==
  ASSUME LugarInv, TodosCuidadosos, NEW p \in Programas, Juntar(p)
  PROVE  LugarInv'
<1> DEFINE t == tabla[p]
           k == loc[p].seg
           i == loc[p].n
           s == Junto(t[k], i)
           l == [loc[p] EXCEPT !.n = i - 1]
<1>0. SegInv /\ SegInv' /\ lugar \in Nat
  BY JuntarSeg DEF LugarInv
<1>1. /\ ~caido /\ pc[p] = "juntar" /\ i > 0 /\ UNCHANGED <<mapeos, hojas>> /\ Ir(p, "juntar", l)
  BY DEF Juntar, Esta, compartidos
<1>2. /\ tabla' = [tabla EXCEPT ![p][k] = s]
      /\ lugar' = lugar + (t[k].paginas - s.paginas) * TamPag
  BY DEF Juntar, Junto
<1> HIDE DEF l, s
<1>3. /\ t \in Seq(Segmento) /\ LocalBien(loc[p]) /\ Momento(hojas, t, loc[p], pc[p])
  BY <1>0, <1>1, SuFila DEF TodosCuidadosos
<1>4. k \in DOMAIN t /\ ~t[k].mmapeado /\ i <= Len(t[k].heaps) /\ Juntables(t[k].heaps, i)
  BY <1>1, <1>3 DEF Momento, AlJuntar
<1>5. t[k] \in DeHeap /\ t[k].heaps \in Seq(Metadatos) /\ i \in Nat
  BY <1>3, <1>4, UnaTabla, CualEs DEF LocalBien
<1>6. i \in 1..Len(t[k].heaps)
  BY <1>1, <1>4, <1>5, UnaTabla
<1>7. s \in DeHeap
  BY <1>4, <1>5, <1>6, JuntoSigue DEF s, Sigue
<1>8. s.paginas \in Nat /\ s.paginas <= t[k].paginas /\ t[k].paginas \in Nat
  <2>1. t[k].paginas \in Nat
    BY <1>5 DEF DeHeap
  <2>2. QED
    BY <1>5, <1>6, <2>1, PaginasDeMenos DEF s
<1> DEFINE a == t[k].paginas
           b == s.paginas
           d == a - b
           n == b - a
<1>9. d \in Nat /\ n \in Int /\ n = -d /\ b = a + n
  BY <1>8
<1>10. lugar' = lugar + d * TamPag
  BY <1>2
<1> HIDE DEF a, b, d, n
<1>11. n * TamPag = -(d * TamPag) /\ d * TamPag \in Nat
  BY <1>9, ProductoNat, SegmentosSupuesto
<1> DEFINE x == d * TamPag
<1> HIDE DEF x
<1>12. lugar' \in Nat /\ lugar' <= lugar - (-x)
  BY <1>0, <1>10, <1>11 DEF x
<1>13. lugar' <= lugar - n * TamPag
  BY <1>11, <1>12 DEF x
<1>14. tabla' = ConTabla(tabla, p, Cambiado(tabla[p], k, s))
  BY <1>2 DEF ConTabla, Cambiado
<1>15. k \in DOMAIN tabla[p] /\ ~tabla[p][k].mmapeado /\ s.paginas = tabla[p][k].paginas + n
  BY <1>4, <1>9 DEF a, b
<1> HIDE DEF k
<1>16. QED
  BY <1>0, <1>1, <1>7, <1>9, <1>12, <1>13, <1>14, <1>15, FueraDeMapear, PasoSegmento

LEMMA EmpezarFreeLugar ==
  ASSUME LugarInv, TodosCuidadosos, NEW p \in Programas, EmpezarFree(p)
  PROVE  LugarInv'
<1> DEFINE t == tabla[p]
<1>0. SegInv /\ SegInv'
  BY EmpezarFreeSeg DEF LugarInv
<1>1. /\ ~caido /\ pc[p] = "libre" /\ UNCHANGED <<mapeos, hojas, lugar>>
  BY DEF EmpezarFree, Esta, compartidos
<1>2. PICK b \in dado[p] :
        LET k == SegDe(p, b.dir)
            s == tabla[p][k]
            i == IF k = 0 \/ s.mmapeado THEN 0
                 ELSE SelectInSeq(s.heaps, LAMBDA h : h.dir + TamMeta = b.dir - s.base)
        IN
        /\ i # 0
        /\ Ir(p, "juntar", [LocalVacio EXCEPT !.clase = "heap", !.seg = k, !.n = Len(s.heaps)])
        /\ tabla' = [tabla EXCEPT ![p][k].heaps[i].libre = TRUE]
  BY DEF EmpezarFree
<1> DEFINE k == SegDe(p, b.dir)
           s == t[k]
           I == {j \in 1..Len(s.heaps) : s.heaps[j].dir + TamMeta = b.dir - s.base}
           c == SelectInSeq(s.heaps, LAMBDA h : h.dir + TamMeta = b.dir - s.base)
           i == IF k = 0 \/ s.mmapeado THEN 0 ELSE c
           v == TRUE
           m == Marcado(s, i, v)
           l == [LocalVacio EXCEPT !.clase = "heap", !.seg = k, !.n = Len(s.heaps)]
           K == {j \in 1..Len(t) : SinSigno(b.dir - t[j].base) < t[j].tamanio}
<1>3. c = IF I # {} THEN Min(I) ELSE 0
  BY DEF SelectInSeq
<1> HIDE DEF c
<1>4. i # 0 /\ Ir(p, "juntar", l) /\ tabla' = [tabla EXCEPT ![p][k].heaps[i].libre = v]
  BY <1>2 DEF c
<1>5. k # 0 /\ ~s.mmapeado /\ i = c
  BY <1>4
<1>6. k = IF K # {} THEN Min(K) ELSE 0
  BY DEF SegDe, SelectInSeq
<1> HIDE DEF k, i, l
<1>7. t \in Seq(Segmento) /\ DOMAIN t = 1..Len(t) /\ Len(t) \in Nat
  BY <1>0, <1>1, SuFila DEF TodosCuidadosos
<1>8. k \in DOMAIN t
  <2>1. K \in SUBSET Nat /\ K # {} /\ K \subseteq DOMAIN t
    BY <1>5, <1>6, <1>7
  <2> HIDE DEF K
  <2>2. QED
    BY <1>6, <2>1, MinEsta
<1>9. s \in DeHeap /\ s.heaps \in Seq(Metadatos) /\ DOMAIN s.heaps = 1..Len(s.heaps) /\ Len(s.heaps) \in Nat
  BY <1>5, <1>7, <1>8, UnaTabla, CualEs
<1>10. i \in DOMAIN s.heaps
  <2>1. I \in SUBSET Nat /\ I \subseteq DOMAIN s.heaps
    BY <1>9
  <2> HIDE DEF I, s
  <2>2. I # {}
    BY <1>3, <1>4, <1>5
  <2>3. QED
    BY <1>3, <1>5, <2>1, <2>2, MinEsta
<1>11. tabla' = ConTabla(tabla, p, Cambiado(tabla[p], k, m))
  BY <1>4 DEF ConTabla, Cambiado, Marcado
<1>12. v \in BOOLEAN
  OBVIOUS
<1> HIDE DEF v, I, K
<1>13. m \in DeHeap /\ m.paginas = tabla[p][k].paginas
  <2>1. m = Marcado(s, i, v)
    OBVIOUS
  <2> HIDE DEF m, s
  <2>2. m \in DeHeap /\ m.paginas = s.paginas
    BY <1>9, <1>10, <1>12, <2>1, MarcadoIgual, PaginasIguales
  <2>3. QED
    BY <2>2 DEF s
<1>14. k \in DOMAIN tabla[p] /\ ~tabla[p][k].mmapeado
  BY <1>5, <1>8
<1> HIDE DEF m
<1>15. QED
  BY <1>0, <1>1, <1>4, <1>11, <1>13, <1>14, FueraDeMapear, PasoRetoque

(* The steps that touch no segment and take no room. *)
LEMMA AccesoLugar ==
  ASSUME LugarInv, NEW p \in Programas,
         \/ Iniciar(p) \/ Morir(p) \/ EmpezarAcceso(p) \/ Cargar(p) \/ Marcar(p) \/ Pegar(p) \/ YaEsta(p)
         \/ Tocar(p) \/ Terminar(p) \/ EmpezarCierre(p) \/ Cerrado(p)
  PROVE  LugarInv'
<1>0. SegInv /\ SegInv' /\ Paginadas(hojas)
  BY AccesoSeg, SusDatos DEF LugarInv
<1>1. UNCHANGED <<tabla, lugar, mapeos>>
  BY DEF Iniciar, Morir, EmpezarAcceso, Cargar, Marcar, Pegar, YaEsta, Tocar, Terminar, EmpezarCierre, Cerrado,
     compartidos
<1>2. MismosLargos(hojas, hojas')
  <2>1. \/ hojas' = hojas
        \/ \E x, i, e : hojas' = [hojas EXCEPT ![x][i] = e]
    <3>1. CASE Marcar(p)
      <4> DEFINE e == [c \in 1..TamPag |-> "basura"]
      <4>1. hojas' = [hojas EXCEPT ![loc[p].lista][loc[p].hoja + 1] = e]
        BY <3>1 DEF Marcar
      <4> HIDE DEF e
      <4>2. QED
        BY <4>1
    <3>2. CASE Pegar(p)
      BY <3>2 DEF Pegar
    <3>3. CASE Tocar(p)
      BY <3>3 DEF Tocar
    <3>4. CASE Iniciar(p) \/ Morir(p) \/ EmpezarAcceso(p) \/ Cargar(p) \/ YaEsta(p) \/ Terminar(p)
               \/ EmpezarCierre(p) \/ Cerrado(p)
      BY <3>4 DEF Iniciar, Morir, EmpezarAcceso, Cargar, YaEsta, Terminar, EmpezarCierre, Cerrado, compartidos
    <3>5. QED
      BY <3>1, <3>2, <3>3, <3>4
  <2>2. CASE hojas' = hojas
    BY <2>2, IgualesLargos
  <2>3. CASE \E x, i, e : hojas' = [hojas EXCEPT ![x][i] = e]
    BY <1>0, <2>3, UnaHoja
  <2>4. QED
    BY <2>1, <2>2, <2>3
<1>3. \E punto \in {"libre", "muerto", "fin", "cargar", "traer", "tocar", "cerrar"} : \E l : Ir(p, punto, l)
  <2>1. CASE Iniciar(p) \/ Morir(p) \/ Terminar(p) \/ Cerrado(p)
    BY <2>1 DEF Iniciar, Morir, Terminar, Cerrado, Responder
  <2>2. CASE EmpezarAcceso(p)
    BY <2>2 DEF EmpezarAcceso
  <2>3. CASE EmpezarCierre(p) \/ Cargar(p) \/ Marcar(p) \/ Pegar(p)
    BY <2>3 DEF EmpezarCierre, Cargar, Marcar, Pegar
  <2>4. CASE YaEsta(p)
    BY <2>4 DEF YaEsta
  <2>5. CASE Tocar(p)
    BY <2>5 DEF Tocar
  <2>6. QED
    BY <2>1, <2>2, <2>3, <2>4, <2>5
<1>4. PICK punto \in {"libre", "muerto", "fin", "cargar", "traer", "tocar", "cerrar"} : \E l : Ir(p, punto, l)
  BY <1>3
<1>5. PICK l : Ir(p, punto, l)
  BY <1>4
<1>6. punto \notin Mapeando
  BY FueraDeMapear
<1>7. QED
  BY <1>0, <1>1, <1>2, <1>5, <1>6, PasoNadaNada

LEMMA PedirLugar ==
  ASSUME LugarInv, NEW p \in Programas, EmpezarAlloc(p) \/ EmpezarUnmap(p)
  PROVE  LugarInv'
<1>0. SegInv'
  BY EmpezarAllocSeg, EmpezarUnmapSeg DEF LugarInv
<1>1. UNCHANGED <<tabla, lugar, mapeos>> /\ MismosLargos(hojas, hojas')
  BY IgualesLargos DEF EmpezarAlloc, EmpezarUnmap, compartidos
<1>2. \E punto \in {"alloc", "bajar"} : \E l : Ir(p, punto, l)
  BY DEF EmpezarAlloc, EmpezarUnmap
<1>3. PICK punto \in {"alloc", "bajar"} : \E l : Ir(p, punto, l)
  BY <1>2
<1>4. PICK l : Ir(p, punto, l)
  BY <1>3
<1>5. punto \notin Mapeando
  BY FueraDeMapear
<1>6. QED
  BY <1>0, <1>1, <1>4, <1>5, PasoNadaNada

(* Those that take a segment out, or an entry. *)
LEMMA MenosEntradas ==
  ASSUME SegInv, NEW a, NEW i, NEW n
  PROVE  /\ ListasDe(SinEntrada(a)) \subseteq ListasDe(mapeos)
         /\ ListasDe([mapeos EXCEPT ![i].contador = n]) \subseteq ListasDe(mapeos)
<1>1. mapeos \in Seq(Entrada) /\ DOMAIN mapeos = 1..Len(mapeos) /\ Len(mapeos) \in Nat
      /\ \A j \in DOMAIN mapeos : mapeos[j] \in Entrada
  BY SonEntradas
<1>2. ListasDe(SinEntrada(a)) \subseteq ListasDe(mapeos)
  <2> DEFINE k == SelectInSeq(mapeos, LAMBDA m : m.archivo = a)
             I == {j \in 1..Len(mapeos) : mapeos[j].archivo = a}
             u == SinEntrada(a)
  <2>1. k = IF I # {} THEN Min(I) ELSE 0
    BY DEF SelectInSeq
  <2>2. u = RemoveAt(mapeos, k)
    BY DEF SinEntrada
  <2> HIDE DEF k
  <2>3. k = 0 \/ k \in 1..Len(mapeos)
    <3>1. I \in SUBSET Nat /\ 0 \notin I /\ I \subseteq 1..Len(mapeos)
      BY <1>1
    <3> HIDE DEF I
    <3>2. QED
      BY <2>1, <3>1, ElPrimero
  <2> HIDE DEF u
  <2>4. CASE k \in 1..Len(mapeos)
    <3>1. /\ DOMAIN u = 1..(Len(mapeos) - 1)
          /\ \A j \in 1..(Len(mapeos) - 1) : u[j] = IF j < k THEN mapeos[j] ELSE mapeos[j + 1]
      BY <1>1, <2>2, <2>4, QuitaPosicion
    <3>2. \A j \in DOMAIN u : \E x \in DOMAIN mapeos : u[j] = mapeos[x]
      BY <1>1, <2>4, <3>1
    <3>3. QED
      BY <3>2 DEF ListasDe, u
  <2>5. CASE k = 0
    <3>1. RemoveAt(mapeos, 0) = SubSeq(mapeos, 1, 0 - 1) \o SubSeq(mapeos, 0 + 1, Len(mapeos))
      BY DEF RemoveAt
    <3>2. 0 - 1 = -1 /\ 0 + 1 = 1
      OBVIOUS
    <3>3. SubSeq(mapeos, 1, -1) = <<>> /\ SubSeq(mapeos, 1, Len(mapeos)) = mapeos
      BY <1>1, SubSeqProperties
    <3>4. <<>> \o mapeos = mapeos
      BY <1>1
    <3>5. u = mapeos
      BY <2>2, <2>5, <3>1, <3>2, <3>3, <3>4
    <3>6. QED
      BY <3>5 DEF u
  <2>6. QED
    BY <2>3, <2>4, <2>5
<1>3. ListasDe([mapeos EXCEPT ![i].contador = n]) \subseteq ListasDe(mapeos)
  <2> DEFINE u == [mapeos EXCEPT ![i].contador = n]
  <2>1. DOMAIN u = DOMAIN mapeos /\ \A j \in DOMAIN mapeos : u[j].lista = mapeos[j].lista
    BY <1>1 DEF Entrada
  <2> HIDE DEF u
  <2>2. QED
    BY <2>1 DEF ListasDe, u
<1>4. QED
  BY <1>2, <1>3

LEMMA ListaVacia ==
  ASSUME SegInv, hojas' = hojas \/ \E x : hojas' = [hojas EXCEPT ![x] = <<>>]
  PROVE  \A i \in 1..Listas : Len(hojas'[i]) <= Len(hojas[i])
<1>1. DOMAIN hojas = 1..Listas /\ ConLargo(hojas)
  BY Largos DEF SegInv, Globales, Paginadas
<1>2. CASE hojas' = hojas
  BY <1>1, <1>2 DEF ConLargo
<1>3. CASE \E x : hojas' = [hojas EXCEPT ![x] = <<>>]
  <2> DEFINE v == <<>>
  <2>1. PICK x : hojas' = [hojas EXCEPT ![x] = v]
    BY <1>3
  <2>2. Len(v) = 0
    OBVIOUS
  <2> HIDE DEF v
  <2>3. QED
    BY <1>1, <2>1, <2>2 DEF ConLargo
<1>4. QED
  BY <1>2, <1>3

(* A segment goes, and room is not given back. *)
LEMMA PasoSale ==
  ASSUME LugarInv, TodosCuidadosos, SegInv', NEW p \in Programas, NEW punto, NEW l, Ir(p, punto, l),
         punto \notin Mapeando, NEW k \in DOMAIN tabla[p], tabla' = [tabla EXCEPT ![p] = RemoveAt(tabla[p], k)],
         ListasDe(mapeos') \subseteq ListasDe(mapeos),
         \A i \in 1..Listas : Len(hojas'[i]) <= Len(hojas[i]), lugar' = lugar
  PROVE  LugarInv'
<1>1. TodasBien(tabla) /\ IsFiniteSet(DeHeaps(tabla))
  BY BienTodas DEF LugarInv, Finitas
<1>2. tabla' = ConTabla(tabla, p, RemoveAt(tabla[p], k))
  BY DEF ConTabla
<1>3. IsFiniteSet(DeHeaps(tabla')) /\ Cardinality(DeHeaps(tabla')) <= Cardinality(DeHeaps(tabla))
  BY <1>1, <1>2, SalenPaginas
<1>4. QED
  BY <1>3, NadaToma

LEMMA BajarLugar ==
  ASSUME LugarInv, NEW p \in Programas, Bajar(p)
  PROVE  LugarInv'
<1> DEFINE i == SelectInSeq(mapeos, LAMBDA m : m.archivo = loc[p].usa.archivo)
           n == mapeos[i].contador - 1
           l == [loc[p] EXCEPT !.lista = mapeos[i].lista]
<1>1. /\ UNCHANGED <<tabla, hojas, lugar>>
      /\ \/ Ir(p, "libre", LocalVacio) /\ mapeos' = mapeos
         \/ mapeos' = [mapeos EXCEPT ![i].contador = n] /\ Ir(p, "quitar", l)
  BY DEF Bajar, Responder
<1> HIDE DEF i, n, l
<1>2. SegInv /\ SegInv'
  BY BajarSeg DEF LugarInv
<1>3. ListasDe(mapeos') \subseteq ListasDe(mapeos)
  BY <1>1, <1>2, MenosEntradas
<1>4. \A j \in 1..Listas : Len(hojas'[j]) <= Len(hojas[j])
  BY <1>1, <1>2, ListaVacia
<1>5. "libre" \notin Mapeando /\ "quitar" \notin Mapeando
  BY FueraDeMapear
<1>6. QED
  BY <1>1, <1>2, <1>3, <1>4, <1>5, PasoNada

LEMMA QuitarLugar ==
  ASSUME LugarInv, TodosCuidadosos, NEW p \in Programas, Quitar(p)
  PROVE  LugarInv'
<1> DEFINE a == loc[p].usa.archivo
           t == tabla[p]
           k == Min(SegmentosDe(p, a))
<1>1. /\ ~caido /\ pc[p] = "quitar" /\ Ir(p, "libre", LocalVacio) /\ lugar' = lugar
      /\ tabla' = [tabla EXCEPT ![p] = RemoveAt(t, k)]
      /\ mapeos' = mapeos \/ mapeos' = SinEntrada(a)
      /\ hojas' = hojas \/ \E x : hojas' = [hojas EXCEPT ![x] = <<>>]
  BY DEF Quitar, Esta, Responder
<1>2. SegInv /\ SegInv' /\ p \in Cuidadosos
  BY QuitarSeg DEF LugarInv, TodosCuidadosos
<1>3. k \in DOMAIN t
  <2>1. Momento(hojas, t, loc[p], "quitar") /\ DOMAIN t = 1..Len(t)
    BY <1>1, <1>2, SuFila
  <2>2. \E j \in DOMAIN t : t[j].mmapeado /\ t[j].archivo = a
    BY <2>1 DEF Momento, Desmapeando
  <2>3. SegmentosDe(p, a) # {} /\ SegmentosDe(p, a) \in SUBSET Nat /\ SegmentosDe(p, a) \subseteq DOMAIN t
    BY <2>1, <2>2 DEF SegmentosDe
  <2>4. QED
    BY <2>3, MinEsta
<1>4. ListasDe(mapeos') \subseteq ListasDe(mapeos)
  <2> HIDE DEF a
  <2>1. QED
    BY <1>1, <1>2, MenosEntradas
<1>5. \A j \in 1..Listas : Len(hojas'[j]) <= Len(hojas[j])
  BY <1>1, <1>2, ListaVacia
<1>6. "libre" \notin Mapeando
  BY FueraDeMapear
<1> HIDE DEF k
<1>7. QED
  BY <1>1, <1>2, <1>3, <1>4, <1>5, <1>6, PasoSale

(* muse_close takes the first. *)
LEMMA PasoSalePrimero ==
  ASSUME LugarInv, TodosCuidadosos, SegInv', NEW p \in Programas, NEW punto, NEW l, Ir(p, punto, l),
         punto \notin Mapeando, tabla[p] # <<>>, tabla' = [tabla EXCEPT ![p] = Tail(tabla[p])],
         ListasDe(mapeos') \subseteq ListasDe(mapeos),
         \A i \in 1..Listas : Len(hojas'[i]) <= Len(hojas[i]), lugar' = lugar
  PROVE  LugarInv'
<1>1. tabla[p] \in Seq(Segmento)
  BY BienTodas DEF LugarInv, TodasBien
<1> DEFINE k == 1
<1>2. k \in DOMAIN tabla[p] /\ Tail(tabla[p]) = RemoveAt(tabla[p], k)
  BY <1>1, PrimeroSeg
<1>3. tabla' = [tabla EXCEPT ![p] = RemoveAt(tabla[p], k)]
  BY <1>2
<1> HIDE DEF k
<1>4. QED
  BY <1>2, <1>3, PasoSale

LEMMA CerrarLugar ==
  ASSUME LugarInv, TodosCuidadosos, NEW p \in Programas, Cerrar(p)
  PROVE  LugarInv'
<1>1. tabla[p] # <<>> /\ UNCHANGED <<mapeos, hojas, lugar>>
  BY DEF Cerrar, compartidos
<1>2. SegInv /\ SegInv'
  BY CerrarSeg DEF LugarInv
<1>3. ListasDe(mapeos') \subseteq ListasDe(mapeos) /\ MismosLargos(hojas, hojas')
  BY <1>1, IgualesLargos
<1>4. \A j \in 1..Listas : Len(hojas'[j]) <= Len(hojas[j])
  BY <1>1, <1>2, ListaVacia
<1>5. "cerrar" \notin Mapeando /\ "descontar" \notin Mapeando
  BY FueraDeMapear
<1>6. CASE UNCHANGED <<pc, loc>> /\ tabla' = [tabla EXCEPT ![p] = Tail(tabla[p])]
  <2>1. Ir(p, "cerrar", loc[p])
    <3>1. pc = [pc EXCEPT ![p] = pc[p]] /\ loc = [loc EXCEPT ![p] = loc[p]]
      BY <1>2 DEF SegInv, Globales
    <3>2. pc[p] = "cerrar"
      BY DEF Cerrar, Esta
    <3>3. QED
      BY <1>6, <3>1, <3>2 DEF Ir
  <2>2. QED
    BY <1>1, <1>2, <1>3, <1>4, <1>5, <1>6, <2>1, PasoSalePrimero
<1>7. CASE tabla' = tabla /\ \E x : Ir(p, "descontar", [loc[p] EXCEPT !.lista = x])
  <2>1. PICK x : Ir(p, "descontar", [loc[p] EXCEPT !.lista = x])
    BY <1>7
  <2> DEFINE l == [loc[p] EXCEPT !.lista = x]
  <2>2. Ir(p, "descontar", l)
    BY <2>1
  <2> HIDE DEF l
  <2>3. QED
    BY <1>1, <1>2, <1>3, <1>5, <1>7, <2>2, PasoNadaNada
<1>8. QED
  BY <1>6, <1>7 DEF Cerrar

LEMMA DescontarLugar ==
  ASSUME LugarInv, TodosCuidadosos, NEW p \in Programas, Descontar(p)
  PROVE  LugarInv'
<1> DEFINE i == EntradaDeLista(loc[p].lista)
           n == mapeos[i].contador - 1
<1>1. /\ ~caido /\ pc[p] = "descontar" /\ lugar' = lugar /\ mapeos' = [mapeos EXCEPT ![i].contador = n]
      /\ hojas' = hojas \/ \E x : hojas' = [hojas EXCEPT ![x] = <<>>]
      /\ \/ tabla' = tabla /\ \E x : Ir(p, "olvidar", [loc[p] EXCEPT !.lista = x])
         \/ tabla' = [tabla EXCEPT ![p] = Tail(tabla[p])] /\ \E x : Ir(p, "cerrar", [loc[p] EXCEPT !.lista = x])
  BY DEF Descontar, Esta
<1> HIDE DEF i, n
<1>2. SegInv /\ SegInv' /\ p \in Cuidadosos
  BY DescontarSeg DEF LugarInv, TodosCuidadosos
<1>3. ListasDe(mapeos') \subseteq ListasDe(mapeos)
  BY <1>1, <1>2, MenosEntradas
<1>4. \A j \in 1..Listas : Len(hojas'[j]) <= Len(hojas[j])
  BY <1>1, <1>2, ListaVacia
<1>5. "cerrar" \notin Mapeando /\ "olvidar" \notin Mapeando
  BY FueraDeMapear
<1>6. tabla[p] # <<>>
  BY <1>1, <1>2, SuFila DEF Momento
<1>7. PICK x : \/ tabla' = tabla /\ Ir(p, "olvidar", [loc[p] EXCEPT !.lista = x])
               \/ tabla' = [tabla EXCEPT ![p] = Tail(tabla[p])] /\ Ir(p, "cerrar", [loc[p] EXCEPT !.lista = x])
  BY <1>1
<1> DEFINE l == [loc[p] EXCEPT !.lista = x]
<1>8. \/ tabla' = tabla /\ Ir(p, "olvidar", l)
      \/ tabla' = [tabla EXCEPT ![p] = Tail(tabla[p])] /\ Ir(p, "cerrar", l)
  BY <1>7
<1> HIDE DEF l
<1>9. QED
  BY <1>1, <1>2, <1>3, <1>4, <1>5, <1>6, <1>8, PasoNada, PasoSalePrimero

LEMMA OlvidarLugar ==
  ASSUME LugarInv, TodosCuidadosos, NEW p \in Programas, Olvidar(p)
  PROVE  LugarInv'
<1> DEFINE a == Head(tabla[p]).archivo
           l == [loc[p] EXCEPT !.lista = 0]
<1>1. /\ ~caido /\ pc[p] = "olvidar" /\ mapeos' = SinEntrada(a) /\ hojas' = hojas /\ lugar' = lugar
      /\ tabla' = [tabla EXCEPT ![p] = Tail(tabla[p])] /\ Ir(p, "cerrar", l)
  BY DEF Olvidar, Esta
<1> HIDE DEF a, l
<1>2. SegInv /\ SegInv' /\ p \in Cuidadosos
  BY OlvidarSeg DEF LugarInv, TodosCuidadosos
<1>3. ListasDe(mapeos') \subseteq ListasDe(mapeos)
  BY <1>1, <1>2, MenosEntradas
<1>4. \A j \in 1..Listas : Len(hojas'[j]) <= Len(hojas[j])
  BY <1>1, <1>2, ListaVacia
<1>5. "cerrar" \notin Mapeando
  BY FueraDeMapear
<1>6. tabla[p] # <<>>
  BY <1>1, <1>2, SuFila DEF Momento
<1>7. QED
  BY <1>1, <1>2, <1>3, <1>4, <1>5, <1>6, PasoSalePrimero

LEMMA IgualesLugar ==
  ASSUME LugarInv, SegInv', UNCHANGED <<pc, loc, tabla, hojas, mapeos, lugar>>
  PROVE  LugarInv'
BY DEF LugarInv, Finitas, Tomadas, DeHeaps, HeapsDe, Cuantas, DeMapas, Largas, ListasDe, Apartadas, Apartan

(* muse_map takes the room, and keeps it apart until there is a list. *)
LEMMA EmpezarMapaLugar ==
  ASSUME LugarInv, NEW p \in Programas, EmpezarMapa(p)
  PROVE  LugarInv'
<1>1. pc[p] = "libre" /\ UNCHANGED <<tabla, mapeos, hojas>>
  BY DEF EmpezarMapa, Esta, compartidos
<1>2. PICK u \in Usa[p] :
        /\ Ir(p, "mapear", [LocalVacio EXCEPT !.clase = "map", !.usa = u])
        /\ PaginasDelArchivo(u.archivo) * TamPag <= lugar
        /\ lugar' = lugar - PaginasDelArchivo(u.archivo) * TamPag
  BY DEF EmpezarMapa
<1> DEFINE l == [LocalVacio EXCEPT !.clase = "map", !.usa = u]
           n == PaginasDelArchivo(u.archivo)
<1>3. Ir(p, "mapear", l) /\ "mapear" \in Mapeando /\ pc[p] \notin Mapeando
  BY <1>1, <1>2 DEF Mapeando
<1>4. u \in Usos
  BY SegmentosSupuesto DEF Usos
<1>5. l.usa = u
  BY DEF LocalVacio
<1> HIDE DEF l
<1>6. Aparta("mapear", l) = n /\ Aparta(pc[p], loc[p]) = 0 /\ n \in Nat
  BY <1>3, <1>4, <1>5, HojasDeArchivo DEF Aparta, Usos
<1>7. lugar \in Nat /\ SegInv' /\ lugar' = lugar - n * TamPag /\ n * TamPag <= lugar
  BY <1>2, EmpezarMapaSeg DEF LugarInv
<1> HIDE DEF n
<1>8. n * TamPag \in Nat
  BY <1>6, ProductoNat, SegmentosSupuesto
<1> DEFINE a == 0
<1>9. lugar' \in Nat
  <2> DEFINE m == n * TamPag
  <2> HIDE DEF m
  <2>1. lugar' = lugar - m /\ m <= lugar /\ m \in Nat
    BY <1>7, <1>8 DEF m
  <2>2. QED
    BY <1>7, <2>1
<1>10. lugar' <= lugar - (a + a + Aparta("mapear", l) - Aparta(pc[p], loc[p])) * TamPag
  <2>1. a + a + Aparta("mapear", l) - Aparta(pc[p], loc[p]) = n
    BY <1>6
  <2>2. lugar' <= lugar - n * TamPag
    BY <1>7, <1>9
  <2>3. QED
    BY <2>1, <2>2
<1>11. /\ a \in Int /\ IsFiniteSet(DeHeaps(tabla')) /\ Cardinality(DeHeaps(tabla')) <= Cardinality(DeHeaps(tabla)) + a
       /\ IsFiniteSet(DeMapas(mapeos', hojas'))
       /\ Cardinality(DeMapas(mapeos', hojas')) <= Cardinality(DeMapas(mapeos, hojas)) + a
  BY <1>1, <1>7, HeapsIguales, MapasIguales
<1> HIDE DEF a
<1>12. QED
  BY <1>4, <1>5, <1>7, <1>9, <1>10, <1>11, <1>3, PasoLugar

(* What is kept apart stays so. *)
LEMMA PasoApartado ==
  ASSUME LugarInv, SegInv', NEW p \in Programas, NEW punto \in Mapeando, NEW l, Ir(p, punto, l),
         pc[p] \in Mapeando, l.usa = loc[p].usa, UNCHANGED <<tabla, hojas, lugar>>,
         ListasDe(mapeos') \subseteq ListasDe(mapeos)
  PROVE  LugarInv'
<1>1. SegInv /\ loc[p].usa \in Usos /\ lugar \in Nat
  BY SusDatos DEF LugarInv
<1> DEFINE n == Aparta(punto, l)
           a == 0
<1>2. n \in Nat /\ Aparta(pc[p], loc[p]) = n
  BY <1>1, ApartaNat DEF Aparta
<1> HIDE DEF n
<1>3. lugar' <= lugar - (a + a + n - Aparta(pc[p], loc[p])) * TamPag
  <2>1. a + a + n - Aparta(pc[p], loc[p]) = 0
    BY <1>2
  <2>2. 0 * TamPag = 0
    BY SegmentosSupuesto
  <2>3. QED
    BY <1>1, <2>1, <2>2
<1>4. \A i \in 1..Listas : Len(hojas'[i]) <= Len(hojas[i])
  BY <1>1, ListaVacia
<1>5. /\ IsFiniteSet(DeMapas(mapeos', hojas'))
      /\ Cardinality(DeMapas(mapeos', hojas')) <= Cardinality(DeMapas(mapeos, hojas))
  BY <1>4, MapasMenos
<1>6. Cardinality(DeMapas(mapeos', hojas')) <= Cardinality(DeMapas(mapeos, hojas)) + a
  <2>1. IsFiniteSet(DeMapas(mapeos, hojas))
    BY DEF LugarInv, Finitas
  <2>2. Cardinality(DeMapas(mapeos', hojas')) \in Nat /\ Cardinality(DeMapas(mapeos, hojas)) \in Nat
    BY <1>5, <2>1, FS_CardinalityType
  <2>3. QED
    BY <1>5, <2>2
<1>7. /\ a \in Int /\ IsFiniteSet(DeHeaps(tabla')) /\ Cardinality(DeHeaps(tabla')) <= Cardinality(DeHeaps(tabla)) + a
  BY HeapsIguales
<1>8. lugar' \in Nat /\ l.usa \in Usos
  BY <1>1
<1> HIDE DEF a
<1>9. lugar' <= lugar - (a + a + Aparta(punto, l) - Aparta(pc[p], loc[p])) * TamPag
  BY <1>3 DEF n
<1>10. QED
  BY <1>5, <1>6, <1>7, <1>8, <1>9, PasoLugar

LEMMA MapaTablaLugar ==
  ASSUME LugarInv, NEW p \in Programas, MapaTabla(p)
  PROVE  LugarInv'
<1> DEFINE l == [loc[p] EXCEPT !.base = BaseNueva(p)]
<1>1. pc[p] = "mapear" /\ UNCHANGED <<tabla, mapeos, hojas, lugar>>
  BY DEF MapaTabla, Esta, compartidos
<1>2. PICK punto \in Publicando : Ir(p, punto, l)
  BY DEF MapaTabla, Publicando
<1>3. DOMAIN loc[p] = DOMAIN LocalVacio
  BY SusDatos DEF LugarInv
<1>4. l.usa = loc[p].usa
  BY <1>3 DEF LocalVacio
<1> HIDE DEF l
<1>5. punto \in Mapeando /\ pc[p] \in Mapeando
  BY <1>1 DEF Publicando, Mapeando
<1>6. SegInv'
  BY MapaTablaSeg DEF LugarInv
<1>7. ListasDe(mapeos') \subseteq ListasDe(mapeos)
  BY <1>1
<1>8. QED
  BY <1>1, <1>2, <1>4, <1>5, <1>6, <1>7, PasoApartado

LEMMA EsSegmento ==
  ASSUME LugarInv, TodosCuidadosos, ~caido, NEW p \in Programas, pc[p] \in Mapeando, NEW l \in 1..Listas
  PROVE  SegmentoMapeado(p, l) \in Segmento /\ SegmentoMapeado(p, l).mmapeado
<1> DEFINE s == SegmentoMapeado(p, l)
           b == loc[p].base
           a == loc[p].usa.archivo
           m == PaginasDelArchivo(a)
           n == m * TamPag
<1>1. b \in Nat
  BY SuFila DEF LugarInv, TodosCuidadosos, LocalBien
<1>2. a \in Archivos
  BY SusDatos DEF LugarInv, Usos
<1>3. n \in Nat
  <2> HIDE DEF a
  <2>1. m \in Nat
    BY <1>2, HojasDeArchivo
  <2> HIDE DEF m
  <2>2. QED
    BY <2>1, ProductoNat, SegmentosSupuesto
<1>4. s = [mmapeado |-> TRUE, base |-> b, archivo |-> a, lista |-> l, tamanio |-> n]
  BY DEF SegmentoMapeado
<1> HIDE DEF a, b, n, s
<1>5. s \in Segmento /\ s.mmapeado = TRUE
  BY <1>1, <1>2, <1>3, <1>4 DEF Segmento, DeMapeo
<1>6. QED
  BY <1>5 DEF s

(* A mapping takes no page of a heap. *)
LEMMA AgregaMapa ==
  ASSUME LugarInv, TodosCuidadosos, ~caido, NEW p \in Programas, pc[p] \in Mapeando, NEW l \in 1..Listas,
         tabla' = ConTabla(tabla, p, Append(tabla[p], SegmentoMapeado(p, l)))
  PROVE  IsFiniteSet(DeHeaps(tabla')) /\ Cardinality(DeHeaps(tabla')) <= Cardinality(DeHeaps(tabla)) + 0
<1> DEFINE s == SegmentoMapeado(p, l)
           n == 0
<1>1. s \in Segmento /\ s.mmapeado
  BY EsSegmento
<1>2. tabla' = ConTabla(tabla, p, Append(tabla[p], s))
  OBVIOUS
<1> HIDE DEF s
<1>3. TodasBien(tabla) /\ IsFiniteSet(DeHeaps(tabla))
  BY BienTodas DEF LugarInv, Finitas
<1>4. n \in Nat /\ n = (IF s.mmapeado THEN 0 ELSE s.paginas)
  BY <1>1
<1> HIDE DEF n
<1>5. IsFiniteSet(DeHeaps(tabla')) /\ Cardinality(DeHeaps(tabla')) = Cardinality(DeHeaps(tabla)) + n
  BY <1>1, <1>2, <1>3, <1>4, AgregaPaginas
<1>6. Cardinality(DeHeaps(tabla')) \in Nat /\ Cardinality(DeHeaps(tabla)) \in Nat
  BY <1>3, <1>5, FS_CardinalityType
<1>7. QED
  BY <1>5, <1>6 DEF n

(* muse_map puts its segment, with b pages more in the lists, and keeps nothing apart. *)
LEMMA PasoAlMapa ==
  ASSUME LugarInv, TodosCuidadosos, ~caido, SegInv', NEW p \in Programas, Ir(p, "libre", LocalVacio),
         pc[p] \in Mapeando, NEW l \in 1..Listas, tabla' = ConTabla(tabla, p, Append(tabla[p], SegmentoMapeado(p, l))),
         NEW b \in Nat, b <= PaginasDelArchivo(loc[p].usa.archivo),
         IsFiniteSet(DeMapas(mapeos', hojas')),
         Cardinality(DeMapas(mapeos', hojas')) <= Cardinality(DeMapas(mapeos, hojas)) + b, lugar' = lugar
  PROVE  LugarInv'
<1> DEFINE n == PaginasDelArchivo(loc[p].usa.archivo)
           punto == "libre"
           v == LocalVacio
           a == 0
<1>1. /\ IsFiniteSet(DeHeaps(tabla')) /\ Cardinality(DeHeaps(tabla')) <= Cardinality(DeHeaps(tabla)) + a
      /\ a \in Int
  BY AgregaMapa
<1>2. punto \notin Mapeando /\ lugar \in Nat /\ loc[p].usa \in Usos
  BY FueraDeMapear, SusDatos DEF LugarInv
<1>3. Aparta(punto, v) = 0 /\ Aparta(pc[p], loc[p]) = n /\ n \in Nat
  BY <1>2, HojasDeArchivo DEF Aparta, Usos
<1>4. Ir(p, punto, v) /\ b <= n
  OBVIOUS
<1> DEFINE k == a + b + Aparta(punto, v) - Aparta(pc[p], loc[p])
           j == n - b
           m == j * TamPag
<1>5. j \in Nat /\ k = -j /\ TamPag \in Nat
  <2> HIDE DEF n, punto, v
  <2>1. QED
    BY <1>3, <1>4, SegmentosSupuesto
<1> HIDE DEF j, k, n, punto, v, a
<1>6. m \in Nat /\ k * TamPag = -m
  BY <1>5, ProductoNat
<1> HIDE DEF m
<1>7. lugar' \in Nat /\ lugar' <= lugar - k * TamPag
  BY <1>2, <1>6
<1>8. b \in Int /\ (punto \in Mapeando => v.usa \in Usos)
  BY <1>2
<1>9. QED
  BY <1>1, <1>4, <1>7, <1>8, PasoLugar DEF k

LEMMA BuscarLugar ==
  ASSUME LugarInv, TodosCuidadosos, NEW p \in Programas, BuscarMapeo(p)
  PROVE  LugarInv'
<1> DEFINE es == EntradasDe(loc[p].usa.archivo)
           l == mapeos[Max(es)].lista
<1>1. /\ ~caido /\ pc[p] = "buscar_mapeo" /\ UNCHANGED <<hojas, lugar>>
      /\ mapeos' = [i \in DOMAIN mapeos |-> IF i \in es THEN Contada(mapeos[i]) ELSE mapeos[i]]
      /\ \/ es = {} /\ Ir(p, "publicar", loc[p]) /\ tabla' = tabla
         \/ /\ es # {} /\ Ir(p, "libre", LocalVacio)
            /\ tabla' = ConTabla(tabla, p, Append(tabla[p], SegmentoMapeado(p, l)))
  BY DEF BuscarMapeo, Esta, Responder, ConTabla
<1>2. SegInv /\ SegInv' /\ pc[p] \in Mapeando /\ "publicar" \in Mapeando
  BY <1>1, BuscarSeg DEF LugarInv, Mapeando
<1>3. mapeos \in Seq(Entrada) /\ DOMAIN mapeos = 1..Len(mapeos) /\ Len(mapeos) \in Nat
      /\ \A j \in DOMAIN mapeos : mapeos[j] \in Entrada
  BY <1>2, SonEntradas
<1>4. ListasDe(mapeos') \subseteq ListasDe(mapeos)
  <2>1. \A i \in DOMAIN mapeos : Contada(mapeos[i]).lista = mapeos[i].lista
    BY <1>3 DEF Contada, Entrada
  <2> HIDE DEF es
  <2>2. DOMAIN mapeos' = DOMAIN mapeos /\ \A i \in DOMAIN mapeos : mapeos'[i].lista = mapeos[i].lista
    BY <1>1, <2>1
  <2>3. QED
    BY <2>2 DEF ListasDe
<1>5. CASE es = {} /\ Ir(p, "publicar", loc[p]) /\ tabla' = tabla
  BY <1>1, <1>2, <1>4, <1>5, PasoApartado
<1>6. CASE es # {} /\ Ir(p, "libre", LocalVacio) /\ tabla' = ConTabla(tabla, p, Append(tabla[p], SegmentoMapeado(p, l)))
  <2>1. l \in 1..Listas
    <3>1. es \in SUBSET (1..Len(mapeos)) /\ es # {}
      BY <1>3, <1>6 DEF EntradasDe
    <3> HIDE DEF es
    <3>2. Max(es) \in es
      BY <1>3, <3>1, MaxEsta
    <3>3. QED
      BY <1>3, <3>1, <3>2 DEF Entrada
  <2>2. \A i \in 1..Listas : Len(hojas'[i]) <= Len(hojas[i])
    BY <1>1, <1>2, ListaVacia
  <2>3. /\ IsFiniteSet(DeMapas(mapeos', hojas')) /\ IsFiniteSet(DeMapas(mapeos, hojas))
        /\ Cardinality(DeMapas(mapeos', hojas')) <= Cardinality(DeMapas(mapeos, hojas))
    BY <1>2, <1>4, <2>2, MapasMenos DEF LugarInv, Finitas
  <2> DEFINE b == 0
  <2>4. Cardinality(DeMapas(mapeos', hojas')) <= Cardinality(DeMapas(mapeos, hojas)) + b
    <3>1. Cardinality(DeMapas(mapeos', hojas')) \in Nat /\ Cardinality(DeMapas(mapeos, hojas)) \in Nat
      BY <2>3, FS_CardinalityType
    <3>2. QED
      BY <2>3, <3>1
  <2>5. b \in Nat /\ b <= PaginasDelArchivo(loc[p].usa.archivo)
    <3>1. PaginasDelArchivo(loc[p].usa.archivo) \in Nat
      BY <1>2, SusDatos, HojasDeArchivo DEF Usos
    <3>2. QED
      BY <3>1
  <2> HIDE DEF b, l
  <2>6. QED
    BY <1>1, <1>2, <1>6, <2>1, <2>3, <2>4, <2>5, PasoAlMapa
<1>7. QED
  BY <1>1, <1>5, <1>6

LEMMA LargoDe ==
  ASSUME NEW n \in Nat, NEW e
  PROVE  [i \in 1..n |-> e] \in Seq({e}) /\ Len([i \in 1..n |-> e]) = n
<1> DEFINE v == [i \in 1..n |-> e]
<1>1. v \in [1..n -> {e}] /\ DOMAIN v = 1..n
  OBVIOUS
<1>2. v \in Seq({e})
  BY <1>1, SeqDef
<1> HIDE DEF v
<1>3. QED
  BY <1>1, <1>2, LenProperties DEF v

LEMMA UnaCrece ==
  ASSUME NEW K, NEW f, NEW g, NEW l \in K, NEW n \in Nat, IsFiniteSet(Tiras(K, f)), f[l] = 0, g[l] = n,
         \A x \in K : f[x] \in Nat, \A x \in K \ {l} : g[x] = f[x]
  PROVE  IsFiniteSet(Tiras(K, g)) /\ Cardinality(Tiras(K, g)) <= Cardinality(Tiras(K, f)) + n
<1>1. IsFiniteSet(Tiras(K, g)) /\ Cardinality(Tiras(K, g)) = Cardinality(Tiras(K, f)) + g[l] - f[l]
  BY UnaCambia
<1>2. Cardinality(Tiras(K, f)) \in Nat
  BY FS_CardinalityType
<1>3. QED
  BY <1>1, <1>2

(* A list that no entry had gets one. *)
LEMMA ListaNueva ==
  ASSUME LugarInv, SegInv', NEW l \in 1..Listas, l \notin ListasDe(mapeos), NEW n \in Nat, Len(hojas'[l]) = n,
         \A i \in (1..Listas) \ {l} : hojas'[i] = hojas[i], ListasDe(mapeos') = ListasDe(mapeos) \cup {l}
  PROVE  /\ IsFiniteSet(DeMapas(mapeos', hojas'))
         /\ Cardinality(DeMapas(mapeos', hojas')) <= Cardinality(DeMapas(mapeos, hojas)) + n
<1> DEFINE K == 1..Listas
           f == Largas(mapeos, hojas)
           g == Largas(mapeos', hojas')
<1>1. ConLargo(hojas)
  BY Largos DEF LugarInv, SegInv, Globales, Paginadas
<1>2. \A x \in K : f[x] = IF x \in ListasDe(mapeos) THEN Len(hojas[x]) ELSE 0
  BY DEF Largas
<1>3. \A x \in K : g[x] = IF x \in ListasDe(mapeos') THEN Len(hojas'[x]) ELSE 0
  BY DEF Largas
<1>4. IsFiniteSet(Tiras(K, f))
  BY DEF LugarInv, Finitas, DeMapas
<1> HIDE DEF f, g
<1>5. (\A x \in K : f[x] \in Nat) /\ f[l] = 0 /\ g[l] = n /\ \A x \in K \ {l} : g[x] = f[x]
  BY <1>1, <1>2, <1>3 DEF ConLargo
<1>6. l \in K /\ n \in Nat
  OBVIOUS
<1> HIDE DEF K
<1>7. IsFiniteSet(Tiras(K, g)) /\ Cardinality(Tiras(K, g)) <= Cardinality(Tiras(K, f)) + n
  BY <1>4, <1>5, <1>6, UnaCrece
<1>8. QED
  BY <1>7 DEF DeMapas, K, f, g

LEMMA PublicarLugar ==
  ASSUME LugarInv, TodosCuidadosos, NEW p \in Programas, Publicar(p)
  PROVE  LugarInv'
<1> DEFINE a == loc[p].usa.archivo
           l == Min(ListasLibres)
           n == PaginasDelArchivo(a)
           v == [i \in 1..n |-> Nada]
           e == [archivo |-> a, contador |-> 1, lista |-> l]
<1>1. /\ ~caido /\ pc[p] = "publicar" /\ ListasLibres # {} /\ lugar' = lugar
      /\ hojas' = [hojas EXCEPT ![l] = v] /\ mapeos' = Append(mapeos, e)
      /\ Ir(p, "libre", LocalVacio)
      /\ tabla' = ConTabla(tabla, p, Append(tabla[p], SegmentoMapeado(p, l)))
  BY DEF Publicar, Esta, Responder, ConTabla
<1>2. SegInv /\ SegInv' /\ pc[p] \in Mapeando
  BY <1>1, PublicarSeg DEF LugarInv, Mapeando
<1>3. l \in ListasLibres /\ l \in 1..Listas
  <2>1. ListasLibres \in SUBSET Nat /\ ListasLibres \subseteq 1..Listas
    BY DEF ListasLibres
  <2>2. QED
    BY <1>1, <2>1, MinEsta
<1>4. n \in Nat
  <2>1. a \in Archivos
    BY <1>2, SusDatos DEF Usos
  <2> HIDE DEF a
  <2>2. QED
    BY <2>1, HojasDeArchivo
<1>5. Len(v) = n
  <2> HIDE DEF n
  <2>1. QED
    BY <1>4, LargoDe
<1>6. e.lista = l
  OBVIOUS
<1> HIDE DEF n, v, e
<1>7. l \notin ListasDe(mapeos)
  BY <1>3 DEF ListasLibres, ListasEnUso, ListasDe
<1>8. ListasDe(mapeos') = ListasDe(mapeos) \cup {l}
  <2>1. mapeos \in Seq(Entrada) /\ DOMAIN mapeos = 1..Len(mapeos) /\ Len(mapeos) \in Nat
    BY <1>2, SonEntradas
  <2>2. /\ DOMAIN mapeos' = 1..(Len(mapeos) + 1) /\ mapeos'[Len(mapeos) + 1] = e
        /\ \A j \in DOMAIN mapeos : mapeos'[j] = mapeos[j]
    BY <1>1, <2>1
  <2>3. DOMAIN mapeos' = DOMAIN mapeos \cup {Len(mapeos) + 1}
    BY <2>1, <2>2
  <2> HIDE DEF l
  <2>4. QED
    BY <1>6, <2>1, <2>2, <2>3 DEF ListasDe
<1> HIDE DEF l
<1>9. Len(hojas'[l]) = n /\ \A i \in (1..Listas) \ {l} : hojas'[i] = hojas[i]
  <2>1. DOMAIN hojas = 1..Listas
    BY <1>2 DEF SegInv, Globales
  <2>2. QED
    BY <1>1, <1>3, <1>5, <2>1
<1>10. /\ IsFiniteSet(DeMapas(mapeos', hojas'))
       /\ Cardinality(DeMapas(mapeos', hojas')) <= Cardinality(DeMapas(mapeos, hojas)) + n
  BY <1>2, <1>3, <1>4, <1>7, <1>8, <1>9, ListaNueva
<1>11. n <= PaginasDelArchivo(loc[p].usa.archivo)
  BY <1>4 DEF n
<1>12. QED
  BY <1>1, <1>2, <1>3, <1>4, <1>10, <1>11, PasoAlMapa

-----------------------------------------------------------------------------
LEMMA SinTiras ==
  ASSUME NEW K, NEW f, \A x \in K : f[x] = 0
  PROVE  IsFiniteSet(Tiras(K, f)) /\ Cardinality(Tiras(K, f)) = 0
<1>1. Tiras(K, f) = {}
  BY DEF Tiras
<1>2. QED
  BY <1>1, FS_EmptySet

LEMMA LugarInicial == SegmentosInit => LugarInv
<1> SUFFICES ASSUME SegmentosInit PROVE LugarInv
  OBVIOUS
<1>1. /\ tabla = [p \in Programas |-> <<>>] /\ mapeos = <<>> /\ lugar = Paginas * TamPag
      /\ pc = [p \in Programas |-> "nuevo"] /\ SegInv
  BY SegInicial DEF SegmentosInit
<1>2. IsFiniteSet(DeHeaps(tabla)) /\ Cardinality(DeHeaps(tabla)) = 0
  <2>1. HeapsDe(tabla) = {}
    BY <1>1 DEF HeapsDe
  <2>2. \A x \in HeapsDe(tabla) : Cuantas(tabla)[x] = 0
    BY <2>1
  <2>3. QED
    BY <2>2, SinTiras DEF DeHeaps
<1>3. IsFiniteSet(DeMapas(mapeos, hojas)) /\ Cardinality(DeMapas(mapeos, hojas)) = 0
  <2>1. ListasDe(mapeos) = {}
    BY <1>1 DEF ListasDe
  <2>2. \A x \in 1..Listas : Largas(mapeos, hojas)[x] = 0
    BY <2>1 DEF Largas
  <2>3. QED
    BY <2>2, SinTiras DEF DeMapas
<1>4. IsFiniteSet(Apartadas(pc, loc)) /\ Cardinality(Apartadas(pc, loc)) = 0
  <2>1. "nuevo" \notin Mapeando
    BY FueraDeMapear
  <2>2. \A x \in Programas : Apartan(pc, loc)[x] = 0
    BY <1>1, <2>1 DEF Apartan, Aparta
  <2>3. QED
    BY <2>2, SinTiras DEF Apartadas
<1>5. Tomadas(tabla, mapeos, hojas, pc, loc) = 0
  BY <1>2, <1>3, <1>4 DEF Tomadas
<1>6. lugar \in Nat /\ TamPag \in Nat
  BY <1>1, ProductoNat, SegmentosSupuesto
<1>7. lugar + TamPag * Tomadas(tabla, mapeos, hojas, pc, loc) <= Paginas * TamPag
  <2>1. TamPag * 0 = 0
    BY <1>6
  <2>2. QED
    BY <1>1, <1>5, <1>6, <2>1
<1>8. QED
  BY <1>1, <1>2, <1>3, <1>4, <1>6, <1>7 DEF LugarInv, Finitas

LEMMA PasoLugarTodo ==
  ASSUME TodosCuidadosos, LugarInv, [ProgramasNext]_segmentosVars
  PROVE  LugarInv'
<1>0. SegInv'
  BY PasoSegTodo DEF LugarInv
<1>1. CASE UNCHANGED segmentosVars
  BY <1>0, <1>1, IgualesLugar DEF segmentosVars
<1>2. ASSUME NEW p \in Programas, Pedir(p) PROVE LugarInv'
  <2>1. CASE CopiarAlHeap(p)
    BY <1>0, <2>1, IgualesLugar DEF CopiarAlHeap, compartidos
  <2>2. QED
    BY <1>2, <2>1, PedirLugar, EmpezarFreeLugar, EmpezarMapaLugar, AccesoLugar DEF Pedir
<1>3. ASSUME NEW p \in Programas, AtenderHeap(p) PROVE LugarInv'
  BY <1>3, DecidirLugar, OcuparLugar, RevisarLugar, ReservarLugar, SinLiberadasLugar, AmpliarLugar, JuntarLugar,
     RenumerarLugar DEF AtenderHeap
<1>4. ASSUME NEW p \in Programas, Atender(p) PROVE LugarInv'
  BY <1>3, <1>4, MapaTablaLugar, BuscarLugar, PublicarLugar, AccesoLugar, BajarLugar, QuitarLugar, CerrarLugar,
     DescontarLugar, OlvidarLugar DEF Atender
<1>5. QED
  BY <1>1, <1>2, <1>4 DEF ProgramasNext

(* When every program asks only for what MUSE serves, what lugar_disponible says is left *)
(* and the pages of all the heaps and of all the lists of mapped files are never more     *)
(* than the memory and the swap: muse_alloc and muse_map take the room before the pages,  *)
(* muse_free gives back no more than it leaves, and muse_unmap and muse_close give back   *)
(* nothing.                                                                          *)
THEOREM LugarCiertoConCuidado == TodosCuidadosos => (ProgramasSpec => []LugarCierto)
<1> SUFFICES ASSUME TodosCuidadosos PROVE ProgramasSpec => []LugarCierto
  OBVIOUS
<1>1. SegmentosInit => LugarInv
  BY LugarInicial
<1>2. LugarInv /\ [ProgramasNext]_segmentosVars => LugarInv'
  BY PasoLugarTodo
<1>3. LugarInv => LugarCierto
  BY LugarBasta
<1>4. QED
  BY <1>1, <1>2, <1>3, PTL DEF ProgramasSpec

-----------------------------------------------------------------------------
(* The types: who may hold a mutex, and what a program is given.             *)

CandadosTipo ==
  /\ {mutexProgramas, mutexMapeo} \subseteq Programas \cup {Nada} /\ caido \in BOOLEAN

Bloque == [base : Nat, dir : Nat, tam : Nat, estado : {"nuevo", "escrito", "perdido"}]
DadoInv == DOMAIN dado = Programas /\ \A p \in Programas : dado[p] \subseteq Bloque

LEMMA PasoCandadosTipo ==
  ASSUME CandadosTipo, [ProgramasNext]_segmentosVars
  PROVE  CandadosTipo'
<1>1. CASE UNCHANGED segmentosVars
  BY <1>1 DEF CandadosTipo, segmentosVars, candados
<1>2. ASSUME NEW p \in Programas, Pedir(p) PROVE CandadosTipo'
  <2>1. /\ mutexProgramas' \in {mutexProgramas, p} /\ mutexMapeo' = mutexMapeo /\ caido' = caido
    BY <1>2 DEF Pedir, Iniciar, EmpezarAlloc, EmpezarFree, CopiarAlHeap, EmpezarMapa, EmpezarAcceso, EmpezarUnmap,
       EmpezarCierre, Morir, candados
  <2>2. QED
    BY <2>1 DEF CandadosTipo
<1>3. ASSUME NEW p \in Programas, AtenderHeap(p) PROVE CandadosTipo'
  <2>1. UNCHANGED candados
    BY <1>3 DEF AtenderHeap, Decidir, Ocupar, Revisar, Reservar, SinLiberadas, Ampliar, Juntar, Renumerar
  <2>2. CASE Decidir(p) \/ Revisar(p) \/ Reservar(p) \/ Juntar(p) \/ Renumerar(p)
    BY <2>1, <2>2 DEF Decidir, Revisar, Reservar, Juntar, Renumerar, CandadosTipo, candados
  <2>3. CASE Ocupar(p) \/ SinLiberadas(p)
    <3>1. caido' \in BOOLEAN
      BY <2>3 DEF Ocupar, SinLiberadas
    <3>2. QED
      BY <2>1, <3>1 DEF CandadosTipo, candados
  <2>4. CASE Ampliar(p)
    <3>1. caido' = caido \/ caido' \in BOOLEAN
      BY <2>4 DEF Ampliar
    <3>2. QED
      BY <2>1, <3>1 DEF CandadosTipo, candados
  <2>5. QED
    BY <1>3, <2>2, <2>3, <2>4 DEF AtenderHeap
<1>4. ASSUME NEW p \in Programas, Atender(p), ~AtenderHeap(p) PROVE CandadosTipo'
  <2>1. mutexProgramas' \in {mutexProgramas, Nada} /\ mutexMapeo' \in {mutexMapeo, p, Nada}
    BY <1>4 DEF Atender, MapaTabla, BuscarMapeo, Publicar, Cargar, Marcar, Pegar, YaEsta, Tocar, Terminar,
       Bajar, Quitar, Cerrar, Descontar, Olvidar, Cerrado, candados, Soltado
  <2>2. caido' = caido \/ caido' \in BOOLEAN
    <3>1. CASE Tocar(p)
      BY <3>1 DEF Tocar, NoHay
    <3>2. CASE Cerrar(p)
      BY <3>2 DEF Cerrar
    <3>3. CASE ~Tocar(p) /\ ~Cerrar(p)
      BY <1>4, <3>3 DEF Atender, MapaTabla, BuscarMapeo, Publicar, Cargar, Marcar, Pegar, YaEsta, Terminar,
         Bajar, Quitar, Descontar, Olvidar, Cerrado
    <3>4. QED
      BY <3>1, <3>2, <3>3
  <2>3. QED
    BY <2>1, <2>2 DEF CandadosTipo
<1>5. QED
  BY <1>1, <1>2, <1>3, <1>4 DEF ProgramasNext

(* What is written over blocks, and what is given. *)
LEMMA PisadosSonBloques ==
  ASSUME NEW bs \in SUBSET Bloque, NEW base, NEW desde, NEW n
  PROVE  Pisados(bs, base, desde, n) \subseteq Bloque
<1>1. ASSUME NEW b \in Bloque PROVE [b EXCEPT !.estado = "perdido"] \in Bloque
  BY DEF Bloque
<1>2. QED
  BY <1>1 DEF Pisados

LEMMA ConBloqueEsta ==
  ASSUME NEW bs \in SUBSET Bloque, NEW base \in Nat, NEW dir \in Nat, NEW t \in Nat
  PROVE  ConBloque(bs, base, dir, t) \subseteq Bloque
<1>1. base + TamMeta + dir \in Nat
  BY SegmentosSupuesto
<1>2. [base |-> base, dir |-> base + TamMeta + dir, tam |-> t, estado |-> "nuevo"] \in Bloque
  BY <1>1 DEF Bloque
<1>3. QED
  BY <1>2 DEF ConBloque

(* A handler changes only what its program has. *)
LEMMA SuDado ==
  ASSUME DadoInv, NEW p \in Programas, NEW bs \in SUBSET Bloque, dado' = [dado EXCEPT ![p] = bs]
  PROVE  DadoInv'
BY DEF DadoInv

LEMMA OcuparDado ==
  ASSUME SegInv, TodosCuidadosos, DadoInv, NEW p \in Programas, Ocupar(p)
  PROVE  DadoInv'
<1> DEFINE t == loc[p].t
           k == ConEspacio(p, t)
           s == tabla[p][k]
           i == HuecoDe(s, t)
           d == s.heaps[i].dir
           f == DirFinal(d, t)
           b == s.base
           es == Pisados(Pisados(dado[p], b, d, TamMeta), b, f, TamMeta)
           bs == ConBloque(es, b, d, t)
<1>1. ~caido /\ pc[p] = "alloc" /\ k # 0 /\ dado' = [dado EXCEPT ![p] = bs]
  BY DEF Ocupar, Esta
<1>2. k = Elegido(tabla[p], t) /\ p \in Cuidadosos
  BY DEF ConEspacio, Elegido, TodosCuidadosos
<1> HIDE DEF k
<1>3. /\ tabla[p] \in Seq(Segmento) /\ LocalBien(loc[p]) /\ Momento(hojas, tabla[p], loc[p], pc[p])
  BY <1>1, <1>2, SuFila
<1>4. t \in Nat /\ IndiceAlDia(s, i)
  BY <1>1, <1>2, <1>3 DEF LocalBien, Momento, AlPedir
<1>5. s \in DeHeap /\ i \in DOMAIN s.heaps
  BY <1>1, <1>2, <1>3, <1>4, EligeSegmento
<1>6. b \in Nat /\ d \in Nat
  <2> HIDE DEF i, s
  <2>1. s.base \in Nat /\ s.heaps \in Seq(Metadatos)
    BY <1>5 DEF DeHeap, Metadatos
  <2>2. QED
    BY <1>5, <2>1, UnaTabla, DeMeta
<1> HIDE DEF s, i, d, b, f, t
<1>7. es \subseteq Bloque
  BY PisadosSonBloques DEF DadoInv
<1> HIDE DEF es
<1>8. bs \subseteq Bloque
  BY <1>4, <1>6, <1>7, ConBloqueEsta
<1> HIDE DEF bs
<1>9. QED
  BY <1>1, <1>8, SuDado

LEMMA ReservarDado ==
  ASSUME SegInv, TodosCuidadosos, DadoInv, NEW p \in Programas, Reservar(p)
  PROVE  DadoInv'
<1> DEFINE l == loc[p]
           t == tabla[p]
           s == IF l.seg = 0 THEN SegmentoNuevo(BaseNueva(p), l.t, l.n) ELSE ConLiberadas(t[l.seg], l.n, l.t)
           b == s.base
           d == s.heaps[Len(s.heaps) - 1].dir
           d2 == Last(s.heaps).dir
           n == l.t
           es == Pisados(Pisados(dado[p], b, d, TamMeta), b, d2, TamMeta)
           bs == ConBloque(es, b, d, n)
<1>1. ~caido /\ pc[p] = "reservar" /\ (dado' = dado \/ dado' = [dado EXCEPT ![p] = bs])
  BY DEF Reservar, Esta
<1>2. /\ t \in Seq(Segmento) /\ l.seg \in Nat /\ l.n \in Nat /\ l.t \in Nat /\ AlReservar(t, l)
      /\ BaseNueva(p) \in Nat
  <2>1. /\ t \in Seq(Segmento) /\ Ordenada(hojas, t) /\ LocalBien(l) /\ Momento(hojas, t, l, pc[p])
    BY <1>1, SuFila DEF TodosCuidadosos
  <2>2. AlReservar(t, l)
    BY <1>1, <2>1 DEF Momento
  <2>3. ConLargo(hojas)
    BY SusDatos
  <2>4. BaseNueva(p) \in Nat
    BY <2>1, <2>3, DondeVa DEF ConLargo
  <2>5. QED
    BY <2>1, <2>2, <2>4 DEF LocalBien
<1> HIDE DEF l, t
<1>3. b \in Nat /\ d \in Nat
  <2>1. CASE l.seg = 0
    <3> DEFINE x == Heap(0, l.t, FALSE, 0)
               y == Heap(l.t + TamMeta, l.n * TamPag - l.t - 2 * TamMeta, TRUE, 1)
    <3>1. s.base = BaseNueva(p) /\ s.heaps = <<x, y>>
      BY <2>1 DEF SegmentoNuevo
    <3>2. x.dir = 0
      BY DEF Heap
    <3> HIDE DEF s, x, y
    <3>3. Len(s.heaps) - 1 = 1 /\ s.heaps[1] = x
      BY <3>1
    <3>4. QED
      BY <1>2, <3>1, <3>2, <3>3
  <2>2. CASE l.seg # 0
    <3> DEFINE z == t[l.seg]
               h == Last(z.heaps)
               x == Heap(h.dir, l.t, FALSE, h.indice)
               e == h.dir + TamMeta + l.t
               y == Heap(e, TamPag - ((e + TamMeta) % TamPag), TRUE, h.indice + 1)
               m == (z.paginas + l.n) * TamPag
               u == Front(z.heaps) \o <<x>>
               hs == Append(u, y)
    <3>1. z \in DeHeap /\ z.heaps # <<>>
      BY <1>2, <2>2, UnaTabla, CualEs DEF AlReservar, ConMeta
    <3>2. s = [z EXCEPT !.paginas = @ + l.n, !.liberadas = @ - l.n, !.tamanio = m, !.heaps = hs]
      BY <2>2 DEF ConLiberadas
    <3>3. z.heaps \in Seq(Metadatos) /\ Len(z.heaps) \in Nat /\ Len(z.heaps) > 0 /\ DOMAIN z.heaps = 1..Len(z.heaps)
      <4>1. z.heaps \in Seq(Metadatos)
        BY <3>1 DEF DeHeap, Metadatos
      <4>2. QED
        BY <3>1, <4>1, UnaTabla
    <3>4. h.dir \in Nat
      <4>1. h = z.heaps[Len(z.heaps)] /\ Len(z.heaps) \in DOMAIN z.heaps
        BY <3>3 DEF Last
      <4>2. QED
        BY <3>3, <4>1, UnaTabla, DeMeta
    <3>5. x.dir = h.dir
      BY DEF Heap
    <3> HIDE DEF z, h, x, y, m, s
    <3>6. Front(z.heaps) = SubSeq(z.heaps, 1, Len(z.heaps) - 1)
      BY DEF Front
    <3>7. Front(z.heaps) \in Seq(Metadatos) /\ Len(Front(z.heaps)) = Len(z.heaps) - 1
      BY <3>3, <3>6, SubSeqProperties
    <3> DEFINE S == Metadatos \cup {x, y}
    <3>8. Front(z.heaps) \in Seq(S) /\ <<x>> \in Seq(S) /\ Len(<<x>>) = 1 /\ <<x>>[1] = x
      BY <3>7
    <3>9. u \in Seq(S) /\ Len(u) = Len(z.heaps) /\ u[Len(z.heaps)] = x
      <4> DEFINE F == Front(z.heaps)
                 o == <<x>>
                 m1 == Len(F)
      <4>1. F \in Seq(S) /\ o \in Seq(S) /\ Len(o) = 1 /\ o[1] = x /\ u = F \o o
        BY <3>8
      <4>2. m1 \in Nat /\ m1 = Len(z.heaps) - 1
        BY <3>7, <3>3
      <4> HIDE DEF F, o, u, S
      <4>3. u \in Seq(S) /\ Len(u) = m1 + Len(o)
            /\ \A i \in 1..(m1 + Len(o)) : u[i] = IF i <= m1 THEN F[i] ELSE o[i - m1]
        BY <4>1, ConcatProperties
      <4>4. Len(z.heaps) = m1 + 1
        BY <3>3, <4>2
      <4> HIDE DEF m1
      <4> DEFINE j == m1 + 1
      <4>5. j \in 1..(m1 + Len(o)) /\ ~(j <= m1) /\ j - m1 = 1
        BY <4>1, <4>2
      <4> HIDE DEF j
      <4>6. u[j] = o[1]
        BY <4>3, <4>5
      <4>7. QED
        BY <4>1, <4>3, <4>4, <4>6 DEF j
    <3> HIDE DEF u, S
    <3>10. Len(hs) = Len(z.heaps) + 1 /\ hs[Len(z.heaps)] = x
      <4>1. y \in S
        BY DEF S
      <4>2. QED
        BY <3>3, <3>9, <4>1, AppendProperties
    <3> HIDE DEF hs
    <3>11. s.heaps = hs /\ s.base = z.base /\ z.base \in Nat
      BY <3>1, <3>2 DEF DeHeap
    <3>12. Len(s.heaps) - 1 = Len(z.heaps)
      BY <3>3, <3>10, <3>11
    <3>13. QED
      BY <3>4, <3>5, <3>10, <3>11, <3>12
  <2>3. QED
    BY <2>1, <2>2
<1>4. n \in Nat
  BY <1>2
<1> HIDE DEF s, b, d, d2, n
<1>5. es \subseteq Bloque
  BY PisadosSonBloques DEF DadoInv
<1> HIDE DEF es
<1>6. bs \subseteq Bloque
  BY <1>3, <1>4, <1>5, ConBloqueEsta
<1>7. dado' = dado => DadoInv'
  BY DEF DadoInv
<1> HIDE DEF bs
<1>8. QED
  BY <1>1, <1>6, <1>7, SuDado

LEMMA AmpliarDado ==
  ASSUME SegInv, TodosCuidadosos, DadoInv, NEW p \in Programas, Ampliar(p)
  PROVE  DadoInv'
<1> DEFINE n == loc[p].t
           k == Len(tabla[p])
           s == tabla[p][k]
           h == Last(s.heaps)
           b == s.base
           d == h.dir
           x == d + n + TamMeta
           y == PaginaTecho(d) * TamPag + (d % TamPag)
           es == Pisados(Pisados(dado[p], b, x, TamMeta), b, y, TamMeta)
           bs == ConBloque(es, b, d, n)
<1>1. ~caido /\ pc[p] = "ampliar" /\ (dado' = dado \/ dado' = [dado EXCEPT ![p] = bs])
  BY DEF Ampliar, Esta
<1>2. tabla[p] \in Seq(Segmento) /\ LocalBien(loc[p]) /\ Momento(hojas, tabla[p], loc[p], pc[p])
  BY <1>1, SuFila DEF TodosCuidadosos
<1>3. k \in DOMAIN tabla[p] /\ ~s.mmapeado /\ s.heaps # <<>> /\ n \in Nat
  BY <1>1, <1>2 DEF Momento, AlAmpliar, ConMeta, LocalBien
<1>4. s \in DeHeap
  BY <1>2, <1>3, UnaTabla, CualEs
<1> HIDE DEF s
<1>5. s.heaps \in Seq(Metadatos) /\ b \in Nat
  BY <1>4 DEF DeHeap, Metadatos
<1>6. h = s.heaps[Len(s.heaps)] /\ Len(s.heaps) \in DOMAIN s.heaps
  <2>1. Len(s.heaps) \in Nat /\ Len(s.heaps) > 0 /\ DOMAIN s.heaps = 1..Len(s.heaps)
    BY <1>3, <1>5, UnaTabla
  <2>2. QED
    BY <2>1 DEF Last
<1>7. d \in Nat
  BY <1>5, <1>6, UnaTabla, DeMeta
<1> HIDE DEF b, d, n, x, y
<1>8. es \subseteq Bloque
  BY PisadosSonBloques DEF DadoInv
<1> HIDE DEF es
<1>9. bs \subseteq Bloque
  BY <1>3, <1>5, <1>7, <1>8, ConBloqueEsta
<1>10. dado' = dado => DadoInv'
  BY DEF DadoInv
<1> HIDE DEF bs
<1>11. QED
  BY <1>1, <1>9, <1>10, SuDado

LEMMA FreeDado ==
  ASSUME DadoInv, NEW p \in Programas, EmpezarFree(p) \/ Juntar(p) \/ CopiarAlHeap(p) \/ Cerrado(p)
  PROVE  DadoInv'
<1>1. CASE EmpezarFree(p)
  <2>1. PICK bs \in SUBSET dado[p] : \E base, desde : dado' = [dado EXCEPT ![p] = Pisados(bs, base, desde, TamMeta)]
    BY <1>1 DEF EmpezarFree
  <2>2. PICK base, desde : dado' = [dado EXCEPT ![p] = Pisados(bs, base, desde, TamMeta)]
    BY <2>1
  <2> DEFINE cs == Pisados(bs, base, desde, TamMeta)
  <2>3. cs \subseteq Bloque
    BY PisadosSonBloques DEF DadoInv
  <2> HIDE DEF cs
  <2>4. dado' = [dado EXCEPT ![p] = cs]
    BY <2>2 DEF cs
  <2>5. QED
    BY <2>3, <2>4, SuDado
<1>2. CASE Juntar(p)
  <2> DEFINE base == tabla[p][loc[p].seg].base
             dir == tabla[p][loc[p].seg].heaps[loc[p].n - 1].dir
             cs == Pisados(dado[p], base, dir, TamMeta)
  <2>1. dado' = [dado EXCEPT ![p] = cs] \/ dado' = [dado EXCEPT ![p] = dado[p]]
    BY <1>2 DEF Juntar
  <2>2. dado[p] \subseteq Bloque
    BY DEF DadoInv
  <2> HIDE DEF base, dir
  <2>3. cs \subseteq Bloque
    BY <2>2, PisadosSonBloques
  <2> HIDE DEF cs
  <2>4. QED
    BY <2>1, <2>2, <2>3, SuDado
<1>3. CASE CopiarAlHeap(p)
  <2>1. PICK b \in dado[p] : \E bs, e :
          /\ bs = dado[p] \/ \E base, desde, n : bs = Pisados(dado[p], base, desde, n)
          /\ e \in {"escrito", "perdido"}
          /\ dado' = [dado EXCEPT ![p] = (bs \ {c \in bs : c.dir = b.dir}) \cup {[b EXCEPT !.estado = e]}]
    <3>1. PICK b \in dado[p] :
            LET k   == SegDe(p, b.dir)
                s   == tabla[p][k]
                hay == k # 0 /\ ~s.mmapeado /\ Acepta(s, b.dir - s.base, b.tam)
                bs  == IF hay THEN Pisados(dado[p], s.base, b.dir - s.base, b.tam) ELSE dado[p]
            IN dado' = [dado EXCEPT ![p] = (bs \ {c \in bs : c.dir = b.dir})
                          \cup {[b EXCEPT !.estado = IF hay THEN "escrito" ELSE "perdido"]}]
      BY <1>3 DEF CopiarAlHeap
    <3> DEFINE k   == SegDe(p, b.dir)
               s   == tabla[p][k]
               hay == k # 0 /\ ~s.mmapeado /\ Acepta(s, b.dir - s.base, b.tam)
               v   == Pisados(dado[p], s.base, b.dir - s.base, b.tam)
               bs  == IF hay THEN v ELSE dado[p]
               e   == IF hay THEN "escrito" ELSE "perdido"
    <3>2. dado' = [dado EXCEPT ![p] = (bs \ {c \in bs : c.dir = b.dir}) \cup {[b EXCEPT !.estado = e]}]
      BY <3>1
    <3>3. e \in {"escrito", "perdido"}
      OBVIOUS
    <3>4. bs = dado[p] \/ \E base, desde, n : bs = Pisados(dado[p], base, desde, n)
      OBVIOUS
    <3> HIDE DEF bs, e
    <3>5. QED
      BY <3>2, <3>3, <3>4
  <2>2. PICK bs, e :
          /\ bs = dado[p] \/ \E base, desde, n : bs = Pisados(dado[p], base, desde, n)
          /\ e \in {"escrito", "perdido"}
          /\ dado' = [dado EXCEPT ![p] = (bs \ {c \in bs : c.dir = b.dir}) \cup {[b EXCEPT !.estado = e]}]
    BY <2>1
  <2>3. dado[p] \subseteq Bloque /\ b \in Bloque
    BY DEF DadoInv
  <2>4. bs \subseteq Bloque
    BY <2>2, <2>3, PisadosSonBloques
  <2>5. [b EXCEPT !.estado = e] \in Bloque
    BY <2>2, <2>3 DEF Bloque
  <2> DEFINE x == [b EXCEPT !.estado = e]
             cs == (bs \ {c \in bs : c.dir = b.dir}) \cup {x}
  <2>6. dado' = [dado EXCEPT ![p] = cs] /\ x \in Bloque
    BY <2>2, <2>5
  <2> HIDE DEF x
  <2>7. cs \subseteq Bloque
    BY <2>4, <2>6
  <2> HIDE DEF cs
  <2>8. QED
    BY <2>6, <2>7, SuDado
<1>4. CASE Cerrado(p)
  <2> DEFINE cs == {}
  <2>1. dado' = [dado EXCEPT ![p] = cs] /\ cs \subseteq Bloque
    BY <1>4 DEF Cerrado
  <2> HIDE DEF cs
  <2>2. QED
    BY <2>1, SuDado
<1>5. QED
  BY <1>1, <1>2, <1>3, <1>4

LEMMA PasoDado ==
  ASSUME SegInv, TodosCuidadosos, DadoInv, [ProgramasNext]_segmentosVars
  PROVE  DadoInv'
<1>1. dado' = dado => DadoInv'
  BY DEF DadoInv
<1>2. CASE UNCHANGED segmentosVars
  BY <1>1, <1>2 DEF segmentosVars
<1>3. ASSUME NEW p \in Programas, Pedir(p) PROVE DadoInv'
  <2>1. CASE EmpezarFree(p) \/ CopiarAlHeap(p)
    BY <2>1, FreeDado
  <2>2. CASE ~EmpezarFree(p) /\ ~CopiarAlHeap(p)
    <3>1. dado' = dado
      BY <1>3, <2>2 DEF Pedir, Iniciar, EmpezarAlloc, EmpezarMapa, EmpezarAcceso, EmpezarUnmap, EmpezarCierre, Morir
    <3>2. QED
      BY <1>1, <3>1
  <2>3. QED
    BY <2>1, <2>2
<1>4. ASSUME NEW p \in Programas, AtenderHeap(p) PROVE DadoInv'
  <2>1. CASE Ocupar(p) \/ Reservar(p) \/ Ampliar(p) \/ Juntar(p)
    BY <2>1, OcuparDado, ReservarDado, AmpliarDado, FreeDado
  <2>2. CASE Decidir(p) \/ Revisar(p) \/ SinLiberadas(p) \/ Renumerar(p)
    <3>1. dado' = dado
      BY <2>2 DEF Decidir, Revisar, SinLiberadas, Renumerar
    <3>2. QED
      BY <1>1, <3>1
  <2>3. QED
    BY <1>4, <2>1, <2>2 DEF AtenderHeap
<1>5. ASSUME NEW p \in Programas, Atender(p), ~AtenderHeap(p) PROVE DadoInv'
  <2>1. CASE Cerrado(p)
    BY <2>1, FreeDado
  <2>2. CASE ~Cerrado(p)
    <3>1. dado' = dado
      BY <1>5, <2>2 DEF Atender, MapaTabla, BuscarMapeo, Publicar, Cargar, Marcar, Pegar, YaEsta, Tocar, Terminar,
         Bajar, Quitar, Cerrar, Descontar, Olvidar
    <3>2. QED
      BY <1>1, <3>1
  <2>3. QED
    BY <2>1, <2>2
<1>6. QED
  BY <1>2, <1>3, <1>4, <1>5 DEF ProgramasNext

(* Who has counted itself out of an entry still has its pages: a count is a natural.  *)
LEMMA CuentaNatural ==
  ASSUME CuentaInv, NEW i \in DOMAIN mapeos
  PROVE  mapeos[i].contador \in Nat
<1> DEFINE l == mapeos[i].lista
<1>1. YaDescontados(l) \subseteq Quienes(l)
  <2> SUFFICES ASSUME NEW p \in Programas, pc[p] \in {"quitar", "olvidar"}, loc[p].lista = l
               PROVE  \E a \in Archivos : <<a, l>> \in MapaDe(p)
    BY DEF YaDescontados, Quienes
  <2>1. Lleva(p) /\ ConEntrada /\ Segmentos(tabla[p])
    BY DEF CuentaInv, Tablas
  <2>2. \E a : <<a, l>> \in MapaDe(p)
    <3>1. CASE pc[p] = "quitar"
      BY <2>1, <3>1 DEF Lleva, AlDesmapear, Desmapeando
    <3>2. CASE pc[p] = "olvidar"
      <4>1. tabla[p] # <<>> /\ Head(tabla[p]).mmapeado /\ l = Head(tabla[p]).lista
        BY <2>1, <3>2 DEF Lleva, AlCerrar
      <4>2. Head(tabla[p]) = tabla[p][1] /\ 1 \in DOMAIN tabla[p]
        BY <2>1, <4>1 DEF Segmentos
      <4>3. <<tabla[p][1].archivo, l>> \in MapaDe(p)
        BY <4>1, <4>2 DEF MapaDe, Pares, Mapas
      <4>4. QED
        BY <4>3
    <3>3. QED
      BY <3>1, <3>2
  <2>3. PICK a : <<a, l>> \in MapaDe(p)
    BY <2>2
  <2>4. PICK u \in Usa[p] : u.archivo = a
    BY <2>1, <2>3 DEF ConEntrada
  <2>5. a \in Archivos
    BY <2>4, SegmentosSupuesto
  <2>6. QED
    BY <2>3, <2>5
<1>2. IsFiniteSet(Quienes(l)) /\ mapeos[i].contador = Cardinality(Quienes(l)) - Cardinality(YaDescontados(l))
  BY DEF CuentaInv, Cuentan
<1> HIDE DEF l
<1>3. /\ IsFiniteSet(YaDescontados(l)) /\ Cardinality(YaDescontados(l)) <= Cardinality(Quienes(l))
  BY <1>1, <1>2, FS_Subset
<1>4. Cardinality(Quienes(l)) \in Nat /\ Cardinality(YaDescontados(l)) \in Nat
  BY <1>2, <1>3, FS_CardinalityType
<1>5. QED
  BY <1>2, <1>3, <1>4

TiposInv == LugarInv /\ CuentaInv /\ CandadosTipo /\ DadoInv

LEMMA TiposInicial == SegmentosInit => TiposInv
<1>1. SegmentosInit => CandadosTipo /\ DadoInv
  BY DEF SegmentosInit, CandadosTipo, DadoInv
<1>2. QED
  BY <1>1, LugarInicial, CuentaInicial DEF TiposInv

LEMMA PasoTipos ==
  ASSUME TodosCuidadosos, UnModo, SinRepetir, TiposInv, [ProgramasNext]_segmentosVars
  PROVE  TiposInv'
<1>1. LugarInv' /\ CandadosTipo' /\ DadoInv'
  BY PasoLugarTodo, PasoCandadosTipo, PasoDado DEF TiposInv, LugarInv
<1>2. CuentaInv'
  <2>1. CASE ProgramasNext
    BY <2>1, PasoCuenta DEF ProgramasNext, TiposInv
  <2>2. CASE UNCHANGED segmentosVars
    BY <2>2, IgualesCuenta DEF segmentosVars, candados, TiposInv
  <2>3. QED
    BY <2>1, <2>2
<1>3. QED
  BY <1>1, <1>2 DEF TiposInv

LEMMA TiposBastan ==
  ASSUME TodosCuidadosos, TiposInv
  PROVE  SegmentosTypeOK
<1>1. lugar \in 0..(Paginas * TamPag)
  <2> DEFINE n == Tomadas(tabla, mapeos, hojas, pc, loc)
             t == Paginas * TamPag
             m == n * TamPag
  <2>1. lugar \in Nat /\ lugar + TamPag * n <= t /\ Finitas(tabla, mapeos, hojas, pc, loc)
    BY DEF TiposInv, LugarInv
  <2>2. n \in Nat
    BY <2>1, FS_CardinalityType DEF Finitas, Tomadas
  <2>3. t \in Nat /\ TamPag \in Nat
    BY ProductoNat, SegmentosSupuesto
  <2> HIDE DEF n, t
  <2>4. m \in Nat /\ TamPag * n = m
    BY <2>2, <2>3, ProductoNat
  <2> HIDE DEF m
  <2>5. lugar \in 0..t
    BY <2>1, <2>3, <2>4
  <2>6. QED
    BY <2>5 DEF t
<1>2. \A p \in Programas : \A s \in Range(tabla[p]) : s \in DeHeap \/ s \in DeMapeo
  <2> SUFFICES ASSUME NEW p \in Programas, NEW k \in DOMAIN tabla[p] PROVE tabla[p][k] \in DeHeap \/ tabla[p][k] \in DeMapeo
    BY DEF Range
  <2>1. tabla[p] \in Seq(Segmento)
    BY BienTodas DEF TiposInv, LugarInv, TodasBien
  <2>2. QED
    BY <2>1, UnaTabla DEF Segmento
<1>3. mapeos \in Seq([archivo : Archivos, contador : Nat, lista : 1..Listas])
  <2> DEFINE E == [archivo : Archivos, contador : Nat, lista : 1..Listas]
  <2>1. mapeos \in Seq(Entrada) /\ DOMAIN mapeos = 1..Len(mapeos) /\ Len(mapeos) \in Nat
        /\ \A i \in DOMAIN mapeos : mapeos[i] \in Entrada
    BY SonEntradas DEF TiposInv, LugarInv
  <2>2. ASSUME NEW i \in DOMAIN mapeos PROVE mapeos[i] \in E
    <3>1. mapeos[i] \in Entrada /\ mapeos[i].contador \in Nat
      BY <2>1, CuentaNatural DEF TiposInv
    <3>2. QED
      BY <3>1 DEF Entrada
  <2> HIDE DEF E
  <2>3. mapeos \in [1..Len(mapeos) -> E]
    <3>1. mapeos \in [1..Len(mapeos) -> Entrada]
      BY <2>1, LenProperties
    <3>2. QED
      BY <2>1, <2>2, <3>1
  <2>4. mapeos \in Seq(E)
    BY <2>1, <2>3, SeqDef
  <2>5. QED
    BY <2>4 DEF E
<1>4. /\ {mutexProgramas, mutexMapeo} \subseteq Programas \cup {Nada} /\ caido \in BOOLEAN
      /\ \A p \in Programas : \A b \in dado[p] :
           b \in [base : Nat, dir : Nat, tam : Nat, estado : {"nuevo", "escrito", "perdido"}]
  BY DEF TiposInv, CandadosTipo, DadoInv, Bloque
<1>5. pc \in [Programas -> Puntos]
  BY DEF TiposInv, CuentaInv, CandadosInv
<1>6. QED
  BY <1>1, <1>2, <1>3, <1>4, <1>5 DEF SegmentosTypeOK

(* The types of muse.h hold when every program asks only for what MUSE serves and those   *)
(* that share a file map it shared: sizes, directions and pages never go below zero       *)
(* though the code subtracts them, no count of a mapping does, and no more room is left    *)
(* than there was.                                                                   *)
THEOREM TiposConCuidado ==
  TodosCuidadosos /\ UnModo /\ SinRepetir => (ProgramasSpec => []SegmentosTypeOK)
<1> SUFFICES ASSUME TodosCuidadosos, UnModo, SinRepetir PROVE ProgramasSpec => []SegmentosTypeOK
  OBVIOUS
<1>1. TiposInv /\ [ProgramasNext]_segmentosVars => TiposInv'
  BY PasoTipos
<1>2. TiposInv => SegmentosTypeOK
  BY TiposBastan
<1>3. QED
  BY <1>1, <1>2, TiposInicial, PTL DEF ProgramasSpec

=============================================================================
