----------------------------- MODULE Planificador -----------------------------
(***************************************************************************)
(* SUSE and the Hilolay processes it schedules, over their connections,    *)
(* and what must hold of the whole.                                        *)
(***************************************************************************)
EXTENDS Suse, Hilolay

vars == <<suseVars, hilolayVars, canal>>

Init == CanalInit /\ SuseInit /\ HilolayInit

Servidor(p) == OcupateDeEste(p) /\ UNCHANGED hilolayVars
Cliente(p)  == Programa(p) /\ UNCHANGED suseVars

Next == \E p \in Procs : Servidor(p) \/ Cliente(p)

Spec == Init /\ [][Next]_vars

(* The kernel schedules the handler threads of SUSE, each a POSIX thread that *)
(* is runnable while it has something to do.  Nothing is assumed of programs. *)
SpecJusta == Spec /\ \A p \in Procs : WF_vars(Servidor(p))

(* Every variable has the type of its declaration. *)
TypeOK == CanalTypeOK /\ SuseTypeOK /\ HilolayTypeOK

-----------------------------------------------------------------------------
(* The degree of multiprogramming.                                           *)
Veces(t, lista) == Cardinality({i \in DOMAIN lista : lista[i] = t})
Uno(b) == IF b THEN 1 ELSE 0

Admitidos(p) == Len(ready[p]) - Veces(Nulo, ready[p]) + Uno(exec[p] # Nulo)
TotalAdmitidos == Len(estadoBlocked) + MapThenSumSet(Admitidos, Procs)

(* A slot taken for a thread still in New, less the threads whose slot is    *)
(* still to be discounted.                                                   *)
EnTransito(p) == Uno(pc[p] = "create_admitido")
                   - Uno(pc[p] \in {"join_descontar", "close_descontar"})

(* No slot is lost or created: the free ones and those of the admitted       *)
(* threads always add up to the configured degree.                           *)
ConservacionDelGrado ==
  multiprog + TotalAdmitidos + MapThenSumSet(EnTransito, Procs) = Grado

(* Between requests, a free slot is not left unused while some thread waits  *)
(* in New for one ("recien cuando termine algun thread tiene que ejecutar"). *)
EnReposo == ~caido /\ \A p \in Procs : pc[p] \in {"nuevo", "libre", "cerrado"}
SinLugarOcioso == EnReposo => estadoNew = <<>> \/ multiprog <= 0

-----------------------------------------------------------------------------
(* The states of the threads.                                                *)
Cerrando(t) == \E p \in Procs : exec[p] = t /\ pc[p] = "close_despertar"

Apariciones(t) ==
  Veces(t, estadoNew) + Veces(t, estadoBlocked) + Veces(t, estadoExit)
    + MapThenSumSet(LAMBDA p : Veces(t, ready[p]) + Uno(exec[p] = t), Procs)
    - Uno(Cerrando(t))

(* The client asked for the thread and SUSE has taken the request. *)
Creada(t) ==
  LET p == Pid(t) IN
  /\ cli[p] \notin {"afuera", "conectado"}
  /\ Tid(t) < siguienteId[p]
  /\ ~(Llego(p, "CREATE") /\ canal[p].arg = Tid(t) /\ pc[p] = "libre")

(* A thread is in exactly one place from its CREATE on: no request loses it, *)
(* duplicates it or takes it out of Exit.                                    *)
UnSoloLugar == \A t \in Hilos : Apariciones(t) = Uno(Creada(t))

(* Whoever shares SUSE, no request loses a thread, though some are left in   *)
(* two places: in New and in the Ready of another process.                  *)
Lugares(p) ==
  Range(estadoNew) \cup Range(estadoBlocked) \cup Range(estadoExit)
    \cup Range(ready[p]) \cup {exec[p]}
NadieSePierde == \A t \in Hilos : Creada(t) => \E p \in Procs : t \in Lugares(p)

(* SUSE and the library agree on who runs: while user code runs, Exec is the *)
(* current ULT.  What SUSE blocks or closes is always Exec, so without this  *)
(* it blocks or closes another thread than the one that called.              *)
AcuerdoDeEjecucion == \A p \in Procs : Corriendo(p) => exec[p] = Yo(p)

(* A Blocked thread has one who will wake it, and only one: the semaphore in *)
(* whose queue it is, or the live thread it joined.                          *)
Despertadores(t) ==
  Cardinality({s \in Sems : t \in Range(colaDeBloqueo[s])})
  + Cardinality({u \in Hilos : /\ Pid(u) = Pid(t)
                               /\ Tid(t) \in Range(tidsEsperando[u])
                               /\ u \in Range(estadoExit) => Cerrando(u)})
BloqueadoConDespertador == \A t \in Range(estadoBlocked) : Despertadores(t) = 1

(* When SUSE answers a join, the joined thread has ended, or the caller is   *)
(* registered with it to be woken by its close.                              *)
JoinRegistrado ==
  [][\A p \in Procs :
       LET u == <<p, canal[p].arg>> IN
       Llego(p, "JOIN") /\ exec[p] # Nulo /\ canal[p]' = Respuesta(0) =>
         \/ u = exec[p] \/ u \in Range(estadoExit)
         \/ Tid(exec[p]) \in Range(tidsEsperando'[u])]_vars

(* SUSE dereferences NULL only in SCHEDULE_NEXT or WAIT: a NULL in Ready is    *)
(* found by the sort before any other closure runs over the list, and a JOIN  *)
(* that waits for Exec always has a thread of its own in New.                *)
PunterosValidos ==
  \A p \in Procs : ~caido =>
    /\ pc[p] = "create_admitido" \/ Atiende(p, "JOIN") => ~TieneNulo(p)
    /\ JoinEspera(p) => HayPropio(p, estadoNew)

-----------------------------------------------------------------------------
(* The semaphores.                                                           *)

(* A negative value counts the threads of the queue, which is otherwise      *)
(* empty: no signal is lost and nobody waits for a unit that is there.       *)
Negado(n) == IF n < 0 THEN -n ELSE 0
SemaforoCuadra == \A s \in Sems : Len(colaDeBloqueo[s]) = Negado(valor[s])

(* Whoever shares them, no semaphore goes over its maximum, and no unit is   *)
(* taken without a thread in the queue to account for it.                    *)
ValorAcotado ==
  \A s \in Sems : valor[s] <= SemMax[s] /\ Len(colaDeBloqueo[s]) >= -valor[s]

(* A WAIT or a SIGNAL never finds the handler's own semaphore taken, which   *)
(* would stop the handler for ever: SCHEDULE_NEXT has released what the last *)
(* SIGNAL took.                                                              *)
LocalLibre ==
  \A p \in Procs : Llego(p, "WAIT") \/ Llego(p, "SIGNAL") => miSemaforo[p] > 0

-----------------------------------------------------------------------------
(* Every request is answered, or its connection ended. *)
Pendiente(p) == canal[p] # Nulo /\ canal[p].tipo \in Operaciones \cup {"FIN"}
PedidoAtendido == \A p \in Procs : Pendiente(p) ~> ~Pendiente(p)

-----------------------------------------------------------------------------
(* SUSE implements the five-state diagram, and each semaforo_t a bounded      *)
(* counting semaphore.                                                        *)
EstadoDe(t) ==
  CASE t \in Range(estadoExit)           -> "exit"
    [] t \in Range(estadoBlocked)        -> "blocked"
    [] exec[Pid(t)] = t /\ ~Cerrando(t)  -> "exec"
    [] t \in Range(ready[Pid(t)])        -> "ready"
    [] t \in Range(estadoNew)            -> "new"
    [] OTHER                             -> "inexistente"

Diagrama == INSTANCE CincoEstados WITH
              Dueno  <- [t \in Hilos |-> Pid(t)],
              estado <- [t \in Hilos |-> EstadoDe(t)]

(* A thread only moves along the arrows of the diagram, within the degree.    *)
SigueElDiagrama == Diagrama!Spec

Semaforo(s) == INSTANCE SemaforoContador WITH
                 Inicial  <- SemInit[s],
                 Maximo   <- SemMax[s],
                 unidades <- valor[s] + Negado(valor[s]),
                 esperan  <- colaDeBloqueo[s]

(* Wait and signal take and give units one at a time, in order of arrival.    *)
EsSemaforo == /\ \A s \in Sems : Semaforo(s)!Init
              /\ [][\A s \in Sems : Semaforo(s)!Paso]_vars
=============================================================================
