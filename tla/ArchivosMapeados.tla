--------------------------- MODULE ArchivosMapeados ---------------------------
(***************************************************************************)
(* What muse_map promises the programs that map a file: all of them see the   *)
(* same bytes, those of the file when the first mapped it; a copy of one is   *)
(* seen by all, and gets to the file only by a sync.                         *)
(***************************************************************************)
EXTENDS Integers, Sequences

CONSTANTS Programas, Archivos, Valores, Nada

VARIABLES
  disco, \* the bytes of each file
  vista  \* what each program sees of it, or Nada

Usuarios(a) == {p \in Programas : vista[a][p] # Nada}
Comun(a)    == vista[a][CHOOSE p \in Usuarios(a) : TRUE]

Init == vista = [a \in Archivos |-> [p \in Programas |-> Nada]]

Mapear(p, a) ==
  /\ p \notin Usuarios(a)
  /\ vista' = [vista EXCEPT ![a][p] = IF Usuarios(a) = {} THEN disco[a] ELSE Comun(a)]
  /\ UNCHANGED disco

(* Some of the bytes are another value, for every user: one that a program copied. *)
Copiar(p, a) ==
  LET nueva == vista'[a][p] IN
  /\ p \in Usuarios(a) /\ DOMAIN nueva = DOMAIN vista[a][p]
  /\ \E v \in Valores : \A i \in DOMAIN nueva : nueva[i] \in {vista[a][p][i], v}
  /\ vista' = [vista EXCEPT ![a] = [q \in Programas |-> IF q \in Usuarios(a) THEN nueva ELSE Nada]]
  /\ UNCHANGED disco

Sincronizar(p, a) ==
  LET nuevo == disco'[a] IN
  /\ p \in Usuarios(a) /\ DOMAIN nuevo = DOMAIN disco[a]
  /\ \A i \in DOMAIN nuevo : nuevo[i] \in {disco[a][i], vista[a][p][i]}
  /\ disco' = [disco EXCEPT ![a] = nuevo]
  /\ UNCHANGED vista

(* muse_unmap of one, muse_close of all. *)
Soltar(p) ==
  /\ \E dejados \in SUBSET {a \in Archivos : p \in Usuarios(a)} :
       vista' = [a \in Archivos |-> IF a \in dejados THEN [vista[a] EXCEPT ![p] = Nada] ELSE vista[a]]
  /\ UNCHANGED disco

Next == \E p \in Programas :
  Soltar(p) \/ \E a \in Archivos : Mapear(p, a) \/ Copiar(p, a) \/ Sincronizar(p, a)
Spec == Init /\ [][Next]_<<disco, vista>>

=============================================================================
