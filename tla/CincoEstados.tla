----------------------------- MODULE CincoEstados -----------------------------
(***************************************************************************)
(* What a scheduler with a degree of multiprogramming promises: the        *)
(* five-state diagram of a thread.  A process executes one thread at a     *)
(* time, and at most Grado threads are admitted, that is, in Ready, in     *)
(* Exec or Blocked.                                                        *)
(***************************************************************************)
EXTENDS Integers, FiniteSets

CONSTANTS
  Hilos,   \* the threads
  Dueno,   \* the process of each thread
  Grado    \* the degree of multiprogramming

VARIABLE estado

Admitidos == {t \in Hilos : estado[t] \in {"ready", "exec", "blocked"}}
Ejecuta(p) == {t \in Hilos : Dueno[t] = p /\ estado[t] = "exec"}

Init == estado = [t \in Hilos |-> "inexistente"]

Crear(t) ==
  /\ estado[t] = "inexistente"
  /\ estado' = [estado EXCEPT ![t] = "new"]

Admitir(t) ==
  /\ estado[t] = "new"
  /\ Cardinality(Admitidos) < Grado
  /\ \/ estado' = [estado EXCEPT ![t] = "ready"]
     \/ Ejecuta(Dueno[t]) = {} /\ estado' = [estado EXCEPT ![t] = "exec"]

(* The thread of the process that was executing, if any, is preempted. *)
Despachar(t) ==
  /\ estado[t] = "ready"
  /\ estado' = [u \in Hilos |-> IF u = t THEN "exec"
                                ELSE IF u \in Ejecuta(Dueno[t]) THEN "ready"
                                ELSE estado[u]]

Bloquear(t) ==
  /\ estado[t] = "exec"
  /\ estado' = [estado EXCEPT ![t] = "blocked"]

Desbloquear(t) ==
  /\ estado[t] = "blocked"
  /\ estado' = [estado EXCEPT ![t] = "ready"]

Terminar(t) ==
  /\ estado[t] = "exec"
  /\ estado' = [estado EXCEPT ![t] = "exit"]

Next == \E t \in Hilos : \/ Crear(t) \/ Admitir(t) \/ Despachar(t)
                         \/ Bloquear(t) \/ Desbloquear(t) \/ Terminar(t)

Spec == Init /\ [][Next]_estado
=============================================================================
