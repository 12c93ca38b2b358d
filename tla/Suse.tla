-------------------------------- MODULE Suse --------------------------------
(***************************************************************************)
(* SUSE, the thread scheduler (planificador/suse/src/suse.c).  One handler *)
(* thread per client process runs ocupateDeEste: it reads a request,       *)
(* changes the state and replies.  The lists New, Blocked and Exit, the    *)
(* semaphores and the degree of multiprogramming are shared by all the     *)
(* handlers; the Ready queue and Exec are local variables of the handler.  *)
(*                                                                         *)
(* An action is one critical section of the handler, with the steps on its *)
(* local variables that follow it up to the next one: what happens between *)
(* two critical sections of one handler can be interleaved with the others.*)
(*                                                                         *)
(* The estimations of the SJF algorithm are weighted sums of wall-clock    *)
(* times, which are arbitrary: any thread of the Ready queue may have the  *)
(* smallest one.                                                           *)
(*                                                                         *)
(* A definition whose name ends in _Something right before the definition  *)
(* it is named after is a wrong version of it, which the properties must   *)
(* tell from the right one; no specification uses it.                      *)
(***************************************************************************)
EXTENDS Canal

CONSTANTS
  Grado,      \* MAX_MULTIPROG of plani.config
  SemInit,    \* SEM_INIT
  SemMax,     \* SEM_MAX
  TopeLocal   \* bound: mut_miSemaforo is not counted above it

ASSUME SuseSupuesto ==
  /\ Grado \in Nat
  /\ SemInit \in [Sems -> Nat]
  /\ SemMax \in [Sems -> Nat \ {0}]
  /\ \A s \in Sems : SemInit[s] <= SemMax[s]
  /\ TopeLocal \in Nat \ {0}

VARIABLES
  estadoNew, estadoBlocked, estadoExit, \* shared lists of tcbs
  multiprog,                            \* configuracion->MAX_MULTIPROG
  valor, colaDeBloqueo, proteccion,     \* the semaforo_t's; proteccion: mut_proteccion taken
  tidsEsperando,                        \* of each tcb
  ready, exec, miSemaforo,              \* local to each handler
  objetivo,                             \* tcb_para_join of a handler in mid-request
  recorrido,                            \* position of list_iterate in New, in a JOIN
  pc,                                   \* where each handler is
  caido                                 \* SUSE died dereferencing NULL

listas    == <<estadoNew, estadoBlocked, estadoExit>>
semaforos == <<valor, colaDeBloqueo, proteccion>>
locales   == <<ready, exec>>
enCurso   == <<objetivo, recorrido>>
suseVars  == <<listas, multiprog, semaforos, tidsEsperando, locales,
               miSemaforo, enCurso, pc, caido>>

SuseInit ==
  /\ estadoNew = <<>> /\ estadoBlocked = <<>> /\ estadoExit = <<>>
  /\ multiprog = Grado
  /\ valor = SemInit
  /\ colaDeBloqueo = [s \in Sems |-> <<>>]
  /\ proteccion = [s \in Sems |-> FALSE]
  /\ tidsEsperando = [t \in Hilos |-> <<>>]
  /\ ready = [p \in Procs |-> <<>>]
  /\ exec = [p \in Procs |-> Nulo]
  /\ miSemaforo = [p \in Procs |-> 1]
  /\ objetivo = [p \in Procs |-> Nulo]
  /\ recorrido = [p \in Procs |-> 0]
  /\ pc = [p \in Procs |-> "nuevo"]
  /\ caido = FALSE

(***************************************************************************)
(* list_find and list_remove_by_condition act on the first match.          *)
(***************************************************************************)
Primeros_Ultimo(lista, buscados) ==
  {i \in DOMAIN lista : lista[i] \in buscados /\ \A j \in (i+1)..Len(lista) : lista[j] \notin buscados}
Primeros(lista, buscados) ==
  {i \in DOMAIN lista : lista[i] \in buscados /\ \A j \in 1..(i-1) : lista[j] \notin buscados}

Sin_NoQuita(lista, t) == {lista}
Sin_ElPrimero(lista, t) == {IF lista = <<>> THEN lista ELSE Tail(lista)}
Sin(lista, t) ==
  IF t \in Range(lista)
  THEN {RemoveAt(lista, i) : i \in Primeros(lista, {t})}
  ELSE {lista}

(* CLOSE may put a NULL in Ready.  Every closure over the list dereferences   *)
(* its elements, but the first to run on it is the sort of SCHEDULE_NEXT: see *)
(* PunterosValidos in Planificador.                                          *)
TieneNulo(p) == Nulo \in Range(ready[p])

(* The tcbs of the process. *)
HilosDe_Cualquiera(p) == Hilos
HilosDe(p) == {t \in Hilos : Pid(t) = p}
HayPropio(p, lista) == \E i \in DOMAIN lista : lista[i] \in HilosDe(p)

(* if (configuracion->MAX_MULTIPROG > 0) *)
HayLugar_Uno == multiprog >= 0
HayLugar == multiprog > 0

Ir(p, donde) == pc' = [pc EXCEPT ![p] = donde]
Sigue(p, desde, hasta) == ~caido /\ pc[p] = desde /\ Ir(p, hasta)
Atiende(p, op) == ~caido /\ pc[p] = "libre" /\ Llego(p, op)
Responder(p, v) == Enviar(p, Respuesta(v)) /\ Ir(p, "libre")

(* sem_post on the handler's own semaphore, counted up to TopeLocal. *)
Liberar_Olvidado(p) == UNCHANGED miSemaforo
Liberar(p) ==
  miSemaforo' = [miSemaforo EXCEPT ![p] = IF @ < TopeLocal THEN @ + 1 ELSE @]

(* The handler dereferences NULL: the process dies, and with it every handler. *)
Caer ==
  /\ caido' = TRUE
  /\ UNCHANGED <<listas, multiprog, semaforos, tidsEsperando, locales,
                 miSemaforo, enCurso, pc, canal>>

-----------------------------------------------------------------------------
(* INIT: the pcb and the Ready queue are created; there is no reply. *)
AtenderInit(p) ==
  /\ Sigue(p, "nuevo", "libre")
  /\ Llego(p, "INIT")
  /\ Enviar(p, Nulo)
  /\ UNCHANGED <<listas, multiprog, semaforos, tidsEsperando, locales,
                 miSemaforo, enCurso, caido>>

(* CREATE: crearTCB leaves the new tcb in New ... *)
AtenderCreate(p) ==
  /\ Atiende(p, "CREATE")
  /\ estadoNew' = Append(estadoNew, <<p, canal[p].arg>>)
  /\ Ir(p, "create")
  /\ UNCHANGED <<estadoBlocked, estadoExit, multiprog, semaforos, tidsEsperando,
                 locales, miSemaforo, enCurso, caido, canal>>

(* ... then the degree of multiprogramming is tested and taken under its mutex ... *)
CreateHayLugar(p) ==
  /\ Sigue(p, "create", "create_admitido")
  /\ HayLugar
  /\ multiprog' = multiprog - 1
  /\ UNCHANGED <<listas, semaforos, tidsEsperando, locales, miSemaforo,
                 enCurso, caido, canal>>

CreateQuedaEnNew(p) ==
  /\ ~caido /\ pc[p] = "create"
  /\ ~HayLugar
  /\ Responder(p, 0)
  /\ UNCHANGED <<listas, multiprog, semaforos, tidsEsperando, locales,
                 miSemaforo, enCurso, caido>>

(* ... and the admitted tcb leaves New for Ready, or for Exec if it was empty. *)
CreateAdmitido(p) ==
  LET t == <<p, canal[p].arg>> IN
  /\ ~caido /\ pc[p] = "create_admitido"
  /\ estadoNew' \in Sin(estadoNew, t)
  /\ \/ /\ exec[p] # Nulo
        /\ ready' = [ready EXCEPT ![p] = Append(@, t)]
        /\ UNCHANGED exec
     \/ /\ exec[p] = Nulo
        /\ exec' = [exec EXCEPT ![p] = t]
        /\ UNCHANGED ready
  /\ Responder(p, 0)
  /\ UNCHANGED <<estadoBlocked, estadoExit, multiprog, semaforos, tidsEsperando,
                 miSemaforo, enCurso, caido>>

-----------------------------------------------------------------------------
(* SCHEDULE_NEXT: with nobody in Ready, Exec goes on, or the answer is -1. *)
SigueElMismo(p) ==
  /\ Atiende(p, "SCHEDULE_NEXT")
  /\ ready[p] = <<>>
  /\ Responder(p, IF exec[p] # Nulo THEN Tid(exec[p]) ELSE -1)
  /\ Liberar(p)
  /\ UNCHANGED <<listas, multiprog, semaforos, tidsEsperando, locales,
                 enCurso, caido>>

(* Otherwise the tcb of smallest estimation is dispatched and the preempted *)
(* one goes back to Ready.                                                  *)
PlanificaOtro(p) ==
  /\ Atiende(p, "SCHEDULE_NEXT")
  /\ ready[p] # <<>> /\ ~TieneNulo(p)
  /\ \E i \in DOMAIN ready[p] :
       /\ exec' = [exec EXCEPT ![p] = ready[p][i]]
       /\ ready' = [ready EXCEPT ![p] =
                      IF exec[p] = Nulo THEN RemoveAt(@, i)
                                        ELSE Append(RemoveAt(@, i), exec[p])]
       /\ Responder(p, Tid(ready[p][i]))
  /\ Liberar(p)
  /\ UNCHANGED <<listas, multiprog, semaforos, tidsEsperando, enCurso, caido>>

PlanificaCae(p) ==
  /\ Atiende(p, "SCHEDULE_NEXT")
  /\ TieneNulo(p)
  /\ Caer

-----------------------------------------------------------------------------
(* JOIN, while (exec == NULL): with a free slot the handler sorts New by    *)
(* tid and dispatches the first tcb of its process ...                      *)
Ordenamientos(lista) ==
  {[i \in DOMAIN lista |-> lista[f[i]]] :
     f \in {g \in Bijection(DOMAIN lista, DOMAIN lista) :
              \A i, j \in DOMAIN lista : i < j => Tid(lista[g[i]]) <= Tid(lista[g[j]])}}

JoinEspera(p) == Atiende(p, "JOIN") /\ exec[p] = Nulo /\ HayLugar

JoinDespacha(p) ==
  /\ JoinEspera(p)
  /\ \E orden \in Ordenamientos(estadoNew) :
       \E i \in Primeros(orden, HilosDe(p)) :
         /\ estadoNew' = RemoveAt(orden, i)
         /\ exec' = [exec EXCEPT ![p] = orden[i]]
  /\ Ir(p, "join_descontar")
  /\ UNCHANGED <<estadoBlocked, estadoExit, multiprog, semaforos, tidsEsperando,
                 ready, miSemaforo, enCurso, caido, canal>>

JoinDescuenta(p) ==
  /\ Sigue(p, "join_descontar", "join_arrastrar")
  /\ multiprog' = multiprog - 1
  /\ recorrido' = [recorrido EXCEPT ![p] = @ + 1]
  /\ UNCHANGED <<listas, semaforos, tidsEsperando, locales, miSemaforo,
                 objetivo, caido, canal>>

(* ... and moverTCBaReady copies into its Ready, while there is degree left, *)
(* the tcbs of New, whoever owns them, without removing them from New.       *)
JoinArrastra(p) ==
  /\ Sigue(p, "join_arrastrar", "join_descontar")
  /\ recorrido[p] <= Len(estadoNew) /\ HayLugar
  /\ ready' = [ready EXCEPT ![p] = Append(@, estadoNew[recorrido[p]])]
  /\ UNCHANGED <<listas, multiprog, semaforos, tidsEsperando, exec, miSemaforo,
                 enCurso, caido, canal>>

JoinSaltea(p) ==
  /\ ~caido /\ pc[p] = "join_arrastrar"
  /\ recorrido[p] <= Len(estadoNew) /\ ~HayLugar
  /\ recorrido' = [recorrido EXCEPT ![p] = @ + 1]
  /\ UNCHANGED <<listas, multiprog, semaforos, tidsEsperando, locales, miSemaforo,
                 objetivo, pc, caido, canal>>

JoinVuelve(p) ==
  /\ Sigue(p, "join_arrastrar", "libre")
  /\ recorrido[p] > Len(estadoNew)
  /\ recorrido' = [recorrido EXCEPT ![p] = 0]
  /\ UNCHANGED <<listas, multiprog, semaforos, tidsEsperando, locales, miSemaforo,
                 objetivo, caido, canal>>

(* With a thread in Exec, the joined one is looked up by its tid alone in    *)
(* New and in the handler's Ready, and then in Blocked.                      *)
En(lista, tid) == {lista[i] : i \in Primeros(lista, {u \in Hilos : Tid(u) = tid})}

Hallados_SinNew(p, tid) == En(ready[p], tid)
Hallados(p, tid) ==
  IF En(estadoNew, tid) # {} THEN En(estadoNew, tid) ELSE En(ready[p], tid)

JoinBusca(p) == Atiende(p, "JOIN") /\ exec[p] # Nulo

JoinEncuentra(p) ==
  /\ JoinBusca(p)
  /\ \E t \in Hallados(p, canal[p].arg) : objetivo' = [objetivo EXCEPT ![p] = t]
  /\ Ir(p, "join_bloquear")
  /\ UNCHANGED <<listas, multiprog, semaforos, tidsEsperando, locales,
                 miSemaforo, recorrido, caido, canal>>

JoinSigueBuscando(p) ==
  /\ JoinBusca(p)
  /\ Hallados(p, canal[p].arg) = {}
  /\ Ir(p, "join_blocked")
  /\ UNCHANGED <<listas, multiprog, semaforos, tidsEsperando, locales,
                 miSemaforo, enCurso, caido, canal>>

JoinEncuentraBlocked(p) ==
  /\ Sigue(p, "join_blocked", "join_bloquear")
  /\ \E t \in En(estadoBlocked, canal[p].arg) :
       objetivo' = [objetivo EXCEPT ![p] = t]
  /\ UNCHANGED <<listas, multiprog, semaforos, tidsEsperando, locales,
                 miSemaforo, recorrido, caido, canal>>

JoinNoEncuentra(p) ==
  /\ ~caido /\ pc[p] = "join_blocked"
  /\ En(estadoBlocked, canal[p].arg) = {}
  /\ Responder(p, 0)
  /\ UNCHANGED <<listas, multiprog, semaforos, tidsEsperando, locales,
                 miSemaforo, enCurso, caido>>

JoinBloquea(p) ==
  /\ ~caido /\ pc[p] = "join_bloquear"
  /\ tidsEsperando' = [tidsEsperando EXCEPT ![objetivo[p]] = Append(@, Tid(exec[p]))]
  /\ estadoBlocked' = Append(estadoBlocked, exec[p])
  /\ exec' = [exec EXCEPT ![p] = Nulo]
  /\ objetivo' = [objetivo EXCEPT ![p] = Nulo]
  /\ Responder(p, 0)
  /\ UNCHANGED <<estadoNew, estadoExit, multiprog, semaforos, ready, miSemaforo,
                 recorrido, caido>>

-----------------------------------------------------------------------------
(* CLOSE of the thread in Exec: it goes to Exit ...                         *)
EnEjecucion(p, tid) == exec[p] # Nulo /\ Tid(exec[p]) = tid

AtenderClose(p) ==
  /\ Atiende(p, "CLOSE")
  /\ EnEjecucion(p, canal[p].arg)
  /\ estadoExit' = Append(estadoExit, exec[p])
  /\ Ir(p, "close_despertar")
  /\ UNCHANGED <<estadoNew, estadoBlocked, multiprog, semaforos, tidsEsperando,
                 locales, miSemaforo, enCurso, caido, canal>>

CloseNoEjecuta(p) ==
  /\ Atiende(p, "CLOSE")
  /\ ~EnEjecucion(p, canal[p].arg)
  /\ Responder(p, 0)
  /\ UNCHANGED <<listas, multiprog, semaforos, tidsEsperando, locales,
                 miSemaforo, enCurso, caido>>

(* ... each tid waiting for it is looked for in Blocked among the threads of *)
(* the closing process and moved to Ready; one not found puts NULL there ... *)
Esperante_SiMismo(p, t) == <<p, Tid(t)>>
Esperante(p, t) == <<p, Head(tidsEsperando[t])>>
NadieEspera_Falta(t) == Len(tidsEsperando[t]) <= 1
NadieEspera(t) == tidsEsperando[t] = <<>>

CloseDespierta(p) ==
  LET t == exec[p]
      w == Esperante(p, t)
  IN
  /\ ~caido /\ pc[p] = "close_despertar"
  /\ ~NadieEspera(t)
  /\ tidsEsperando' = [tidsEsperando EXCEPT ![t] = Tail(@)]
  /\ estadoBlocked' \in Sin(estadoBlocked, w)
  /\ ready' = [ready EXCEPT ![p] =
                 Append(@, IF w \in Range(estadoBlocked) THEN w ELSE Nulo)]
  /\ UNCHANGED <<estadoNew, estadoExit, multiprog, semaforos, exec, miSemaforo,
                 enCurso, pc, caido, canal>>

(* ... the slot is given back, unless the counter is already at 3 ...       *)
GradoDevuelto_Corto == IF multiprog < 2 THEN multiprog + 1 ELSE multiprog
GradoDevuelto == IF multiprog < 3 THEN multiprog + 1 ELSE multiprog

CloseLibera(p) ==
  /\ Sigue(p, "close_despertar", "close_admitir")
  /\ NadieEspera(exec[p])
  /\ exec' = [exec EXCEPT ![p] = Nulo]
  /\ multiprog' = GradoDevuelto
  /\ UNCHANGED <<listas, semaforos, tidsEsperando, ready, miSemaforo,
                 enCurso, caido, canal>>

(* ... and the first tcb of this process in New takes it, unconditionally.  *)
CloseAdmite(p) ==
  /\ Sigue(p, "close_admitir", "close_descontar")
  /\ \E i \in Primeros(estadoNew, HilosDe(p)) :
       /\ estadoNew' = RemoveAt(estadoNew, i)
       /\ ready' = [ready EXCEPT ![p] = Append(@, estadoNew[i])]
  /\ UNCHANGED <<estadoBlocked, estadoExit, multiprog, semaforos, tidsEsperando,
                 exec, miSemaforo, enCurso, caido, canal>>

CloseSinNuevos_Siempre(p) ==
  /\ ~caido /\ pc[p] = "close_admitir"
  /\ Responder(p, 0)
  /\ UNCHANGED <<listas, multiprog, semaforos, tidsEsperando, locales,
                 miSemaforo, enCurso, caido>>
CloseSinNuevos(p) ==
  /\ ~caido /\ pc[p] = "close_admitir"
  /\ ~HayPropio(p, estadoNew)
  /\ Responder(p, 0)
  /\ UNCHANGED <<listas, multiprog, semaforos, tidsEsperando, locales,
                 miSemaforo, enCurso, caido>>

CloseDescuenta(p) ==
  /\ ~caido /\ pc[p] = "close_descontar"
  /\ multiprog' = multiprog - 1
  /\ Responder(p, 0)
  /\ UNCHANGED <<listas, semaforos, tidsEsperando, locales, miSemaforo,
                 enCurso, caido>>

-----------------------------------------------------------------------------
(* WAIT and SIGNAL begin by taking the handler's own semaphore, and run      *)
(* under mut_proteccion of the semaphore they name.                          *)
AtiendeSemaforo(p, op) ==
  /\ Atiende(p, op)
  /\ miSemaforo[p] > 0
  /\ canal[p].arg \in Sems => ~proteccion[canal[p].arg]

HayUnidades_Cero(s) == valor[s] >= 0
HayUnidades(s) == valor[s] > 0

(* WAIT gives its own semaphore back at the end. *)
WaitPasa(p) ==
  LET s == canal[p].arg IN
  /\ AtiendeSemaforo(p, "WAIT")
  /\ s \in Sems /\ HayUnidades(s)
  /\ valor' = [valor EXCEPT ![s] = @ - 1]
  /\ Responder(p, 0)
  /\ UNCHANGED <<listas, multiprog, colaDeBloqueo, proteccion, tidsEsperando,
                 locales, miSemaforo, enCurso, caido>>

WaitBloquea(p) ==
  LET s == canal[p].arg IN
  /\ AtiendeSemaforo(p, "WAIT")
  /\ s \in Sems /\ ~HayUnidades(s)
  /\ exec[p] # Nulo
  /\ estadoBlocked' = Append(estadoBlocked, exec[p])
  /\ colaDeBloqueo' = [colaDeBloqueo EXCEPT ![s] = Append(@, exec[p])]
  /\ valor' = [valor EXCEPT ![s] = @ - 1]
  /\ exec' = [exec EXCEPT ![p] = Nulo]
  /\ Responder(p, 0)
  /\ UNCHANGED <<estadoNew, estadoExit, multiprog, proteccion, tidsEsperando,
                 ready, miSemaforo, enCurso, caido>>

WaitCae(p) ==
  LET s == canal[p].arg IN
  /\ AtiendeSemaforo(p, "WAIT")
  /\ s \in Sems /\ ~HayUnidades(s)
  /\ exec[p] = Nulo
  /\ Caer

WaitDesconocido(p) ==
  /\ AtiendeSemaforo(p, "WAIT")
  /\ canal[p].arg \notin Sems
  /\ Responder(p, 0)
  /\ UNCHANGED <<listas, multiprog, semaforos, tidsEsperando, locales,
                 miSemaforo, enCurso, caido>>

(* SIGNAL does not: the next SCHEDULE_NEXT posts it. *)
Tomar(p) == miSemaforo' = [miSemaforo EXCEPT ![p] = @ - 1]

SignalSube(p) ==
  LET s == canal[p].arg IN
  /\ AtiendeSemaforo(p, "SIGNAL")
  /\ s \in Sems /\ HayUnidades(s) /\ valor[s] < SemMax[s]
  /\ valor' = [valor EXCEPT ![s] = @ + 1]
  /\ Tomar(p)
  /\ Responder(p, 0)
  /\ UNCHANGED <<listas, multiprog, colaDeBloqueo, proteccion, tidsEsperando,
                 locales, enCurso, caido>>

(* At its maximum the value stays, and mut_proteccion is never given back. *)
SignalTraba(p) ==
  LET s == canal[p].arg IN
  /\ AtiendeSemaforo(p, "SIGNAL")
  /\ s \in Sems /\ HayUnidades(s) /\ valor[s] >= SemMax[s]
  /\ proteccion' = [proteccion EXCEPT ![s] = TRUE]
  /\ Tomar(p)
  /\ Responder(p, 0)
  /\ UNCHANGED <<listas, multiprog, valor, colaDeBloqueo, tidsEsperando,
                 locales, enCurso, caido>>

(* Otherwise the first blocked thread of the signalling process, if any, is *)
(* moved to Ready.                                                          *)
SignalDespierta(p) ==
  LET s == canal[p].arg IN
  /\ AtiendeSemaforo(p, "SIGNAL")
  /\ s \in Sems /\ ~HayUnidades(s)
  /\ valor' = [valor EXCEPT ![s] = @ + 1]
  /\ \E i \in Primeros(colaDeBloqueo[s], HilosDe(p)) :
       LET t == colaDeBloqueo[s][i] IN
       /\ estadoBlocked' \in Sin(estadoBlocked, t)
       /\ colaDeBloqueo' = [colaDeBloqueo EXCEPT ![s] = RemoveAt(@, i)]
       /\ ready' = [ready EXCEPT ![p] = Append(@, t)]
  /\ Tomar(p)
  /\ Responder(p, 0)
  /\ UNCHANGED <<estadoNew, estadoExit, multiprog, proteccion, tidsEsperando,
                 exec, enCurso, caido>>

SignalSinPropios(p) ==
  LET s == canal[p].arg IN
  /\ AtiendeSemaforo(p, "SIGNAL")
  /\ s \in Sems /\ ~HayUnidades(s)
  /\ ~HayPropio(p, colaDeBloqueo[s])
  /\ valor' = [valor EXCEPT ![s] = @ + 1]
  /\ Tomar(p)
  /\ Responder(p, 0)
  /\ UNCHANGED <<listas, multiprog, colaDeBloqueo, proteccion, tidsEsperando,
                 locales, enCurso, caido>>

SignalDesconocido(p) ==
  /\ AtiendeSemaforo(p, "SIGNAL")
  /\ canal[p].arg \notin Sems
  /\ Tomar(p)
  /\ Responder(p, 0)
  /\ UNCHANGED <<listas, multiprog, semaforos, tidsEsperando, locales,
                 enCurso, caido>>

-----------------------------------------------------------------------------
(* recv returns 0: the handler ends, and nothing of its process is released. *)
Desconectar(p) ==
  /\ Atiende(p, "FIN")
  /\ Ir(p, "cerrado")
  /\ Enviar(p, Nulo)
  /\ UNCHANGED <<listas, multiprog, semaforos, tidsEsperando, locales,
                 miSemaforo, enCurso, caido>>

Create(p)       == AtenderCreate(p) \/ CreateHayLugar(p) \/ CreateQuedaEnNew(p)
                     \/ CreateAdmitido(p)
ScheduleNext(p) == SigueElMismo(p) \/ PlanificaOtro(p) \/ PlanificaCae(p)
Join(p)         == JoinDespacha(p) \/ JoinDescuenta(p) \/ JoinArrastra(p)
                     \/ JoinSaltea(p) \/ JoinVuelve(p) \/ JoinEncuentra(p)
                     \/ JoinSigueBuscando(p) \/ JoinEncuentraBlocked(p)
                     \/ JoinNoEncuentra(p) \/ JoinBloquea(p)
Close(p)        == AtenderClose(p) \/ CloseNoEjecuta(p) \/ CloseDespierta(p)
                     \/ CloseLibera(p) \/ CloseAdmite(p) \/ CloseSinNuevos(p)
                     \/ CloseDescuenta(p)
Wait(p)         == WaitPasa(p) \/ WaitBloquea(p) \/ WaitCae(p) \/ WaitDesconocido(p)
Signal(p)       == SignalSube(p) \/ SignalTraba(p) \/ SignalDespierta(p)
                     \/ SignalSinPropios(p) \/ SignalDesconocido(p)

OcupateDeEste(p) ==
  AtenderInit(p) \/ Create(p) \/ ScheduleNext(p) \/ Join(p) \/ Close(p)
    \/ Wait(p) \/ Signal(p) \/ Desconectar(p)

-----------------------------------------------------------------------------
Puntos == {"nuevo", "libre", "create", "create_admitido", "join_descontar",
           "join_arrastrar", "join_blocked", "join_bloquear", "close_despertar", "close_admitir",
           "close_descontar", "cerrado"}

(* The state of SUSE has the types of its C declarations. *)
SuseTypeOK ==
  /\ estadoNew \in Seq(Hilos)
  /\ estadoBlocked \in Seq(Hilos)
  /\ estadoExit \in Seq(Hilos)
  /\ multiprog \in Int
  /\ valor \in [Sems -> Int]
  /\ colaDeBloqueo \in [Sems -> Seq(Hilos)]
  /\ proteccion \in [Sems -> BOOLEAN]
  /\ tidsEsperando \in [Hilos -> Seq(Tids)]
  /\ ready \in [Procs -> Seq(Hilos \cup {Nulo})]
  /\ exec \in [Procs -> Hilos \cup {Nulo}]
  /\ miSemaforo \in [Procs -> 0..TopeLocal]
  /\ objetivo \in [Procs -> Hilos \cup {Nulo}]
  /\ recorrido \in [Procs -> Nat]
  /\ pc \in [Procs -> Puntos]
  /\ caido \in BOOLEAN
=============================================================================
