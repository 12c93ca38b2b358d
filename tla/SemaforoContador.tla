--------------------------- MODULE SemaforoContador ---------------------------
(***************************************************************************)
(* The bounded counting semaphore that SUSE's semaforo_t implements: a     *)
(* wait takes a unit or queues the thread, a signal hands its unit to the  *)
(* thread that has waited longest or keeps it, up to the maximum.          *)
(***************************************************************************)
EXTENDS Integers, Sequences

CONSTANTS Hilos, Inicial, Maximo

VARIABLES unidades, esperan

Init == unidades = Inicial /\ esperan = <<>>

Pasar     == unidades > 0 /\ unidades' = unidades - 1 /\ UNCHANGED esperan
Bloquear  == /\ unidades = 0
             /\ \E t \in Hilos : esperan' = Append(esperan, t)
             /\ UNCHANGED unidades
Despertar == esperan # <<>> /\ esperan' = Tail(esperan) /\ UNCHANGED unidades
Subir     == /\ esperan = <<>> /\ unidades < Maximo
             /\ unidades' = unidades + 1
             /\ UNCHANGED esperan

Next == Pasar \/ Bloquear \/ Despertar \/ Subir

Paso == Next \/ UNCHANGED <<unidades, esperan>>

Spec == Init /\ [][Paso]_<<unidades, esperan>>
=============================================================================
