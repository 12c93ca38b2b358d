-------------------------------- MODULE Canal --------------------------------
(***************************************************************************)
(* The connection between a Hilolay client and the SUSE thread that        *)
(* attends it (ocupateDeEste).  Hilolay sends one request and blocks in    *)
(* recv(..., MSG_WAITALL) until the reply arrives, so that at most one     *)
(* message is in flight per connection: the channel is a single slot.      *)
(*                                                                         *)
(* The module also declares the constants both ends share.                 *)
(***************************************************************************)
EXTENDS Integers, FiniteSets, SequencesExt

CONSTANTS
  Procs,      \* the client processes (their pids)
  UltimoTid,  \* the highest thread id each process ever asks for (a bound)
  Sems,       \* the semaphores of plani.config (SEM_IDS)
  Nombres,    \* the semaphore names the programs use; some may not exist
  Nulo        \* the C NULL pointer, and an empty channel

ASSUME CanalSupuesto ==
  /\ IsFiniteSet(Procs)
  /\ UltimoTid \in [Procs -> Nat]
  /\ Sems \subseteq Nombres

(* A tcb is identified by its p_id and t_id. *)
Tids  == UNION {0..UltimoTid[p] : p \in Procs}
Hilos == UNION {{p} \X (0..UltimoTid[p]) : p \in Procs}
Pid(t) == t[1]
Tid(t) == t[2]

SinArgumento == -1

Operaciones == {"INIT", "CREATE", "SCHEDULE_NEXT", "JOIN", "CLOSE", "WAIT", "SIGNAL"}

Pedido(op, arg)  == [tipo |-> op, arg |-> arg]
Respuesta(valor) == [tipo |-> "RESPUESTA", arg |-> valor]
Fin              == [tipo |-> "FIN", arg |-> SinArgumento]

Mensajes ==
  [tipo : {"INIT", "SCHEDULE_NEXT", "FIN"}, arg : {SinArgumento}]
    \cup [tipo : {"CREATE", "JOIN", "CLOSE"}, arg : Tids]
    \cup [tipo : {"WAIT", "SIGNAL"}, arg : Nombres]
    \cup [tipo : {"RESPUESTA"}, arg : Tids \cup {SinArgumento, 0}]

ASSUME NuloSupuesto == Nulo \notin Hilos \cup Mensajes

VARIABLE canal

Vacio(p)     == canal[p] = Nulo
Enviar(p, m) == canal' = [canal EXCEPT ![p] = m]
Llego(p, t)  == canal[p] # Nulo /\ canal[p].tipo = t

CanalTypeOK == canal \in [Procs -> Mensajes \cup {Nulo}]
CanalInit   == canal = [p \in Procs |-> Nulo]
=============================================================================
