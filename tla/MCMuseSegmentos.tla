--------------------------- MODULE MCMuseSegmentos ---------------------------
(* Instances of MuseProgramas for TLC. *)
EXTENDS MuseProgramas

CONSTANTS p1, p2, f1, f2

SinNada(v) == [p \in Programas |-> v]

UnHeap      == (p1 :> {3, 11} @@ p2 :> {6})
UnPrivado   == (p1 :> {[archivo |-> f2, compartido |-> FALSE]} @@ p2 :> {})
SinBloques  == SinNada({})
Compartido(p) == {[archivo |-> f1, compartido |-> TRUE]}
DosMapean   == [p \in Programas |-> Compartido(p)]
UnaHoja     == (f2 :> 1)
DosHojas    == (f1 :> 3)
LosTrozos   == {<<0, 3>>, <<1, 2>>, <<0, 1>>}

=============================================================================
