---------------------------- MODULE MCPlanificador ----------------------------
(***************************************************************************)
(* Instances of Planificador: processes p1, p2, semaphores A (one unit, one *)
(* at most: a lock) and B (none at first and two at most, or a lock too),    *)
(* and a name C that is in no configuration, as in pruebita.c.               *)
(***************************************************************************)
EXTENDS Planificador

CONSTANTS p1, p2, A, B, C

CuatroHilos  == (p1 :> 3)
DosYDos      == (p1 :> 1) @@ (p2 :> 1)
DosYUno      == (p1 :> 1) @@ (p2 :> 0)

InicialA  == (A :> 1)
MaximoA   == (A :> 1)
InicialAB == (A :> 1) @@ (B :> 0)
MaximoAB  == (A :> 1) @@ (B :> 2)
DeUno     == (A :> 1) @@ (B :> 1)

UsaAB     == (p1 :> {A, B})
UsanA     == (p1 :> {A}) @@ (p2 :> {A})
UsaCadaUno == (p1 :> {A, C}) @@ (p2 :> {B})
=============================================================================
