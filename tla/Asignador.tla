------------------------------ MODULE Asignador ------------------------------
(***************************************************************************)
(* What muse_alloc, muse_cpy and muse_free promise a program: blocks of its  *)
(* addresses, apart from each other, that keep what is copied to them until  *)
(* they are given back.                                                     *)
(***************************************************************************)
EXTENDS Integers

CONSTANT Programas

VARIABLE bloques \* of each program, as [dir, tam, estado]

AparteDe(b, c) == b.dir + b.tam <= c.dir \/ c.dir + c.tam <= b.dir

Init == bloques = [p \in Programas |-> {}]

Dar(p) ==
  \E b \in bloques'[p] :
    /\ b \in [dir : Nat, tam : Nat, estado : {"nuevo"}]
    /\ \A c \in bloques[p] : AparteDe(b, c)
    /\ bloques' = [bloques EXCEPT ![p] = @ \cup {b}]

Copiar(p) ==
  \E b \in bloques[p] :
    bloques' = [bloques EXCEPT ![p] = (@ \ {b}) \cup {[b EXCEPT !.estado = "escrito"]}]

Devolver(p) == \E b \in bloques[p] : bloques' = [bloques EXCEPT ![p] = @ \ {b}]

(* muse_close *)
Soltar(p) == bloques' = [bloques EXCEPT ![p] = {}]

Next == \E p \in Programas : Dar(p) \/ Copiar(p) \/ Devolver(p) \/ Soltar(p)
Spec == Init /\ [][Next]_bloques

=============================================================================
