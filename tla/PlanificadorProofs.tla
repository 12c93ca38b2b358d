-------------------------- MODULE PlanificadorProofs --------------------------
(***************************************************************************)
(* What holds of SUSE and Hilolay for any processes, threads, semaphores   *)
(* and degree of multiprogramming: the types and the semaphores, whose turn *)
(* it is on each connection, that no request loses a thread, and that SUSE *)
(* finds no NULL but where it looks at Ready first.  And of a lone process: *)
(* its semaphores implement the bounded counting semaphore, SUSE and the   *)
(* library agree on the thread that runs, and a join is only answered when *)
(* it should be; and where each of its threads is, who will wake it, and    *)
(* what the degree of multiprogramming counts.                             *)
(***************************************************************************)
EXTENDS Planificador, SequenceTheorems, FiniteSetTheorems, WellFoundedInduction, TLAPS

(* What sharing SUSE breaks is proved of a lone process. *)
UnSoloProceso == \A p, q \in Procs : p = q

-----------------------------------------------------------------------------
(* Lists.                                                                    *)

(* Removing an element of a list leaves a list of the same type, one shorter. *)
LEMMA QuitarEnLista ==
  ASSUME NEW S, NEW lista \in Seq(S), NEW i \in 1..Len(lista)
  PROVE  RemoveAt(lista, i) \in Seq(S) /\ Len(RemoveAt(lista, i)) = Len(lista) - 1
<1> DEFINE antes   == SubSeq(lista, 1, i-1)
           despues == SubSeq(lista, i+1, Len(lista))
<1>1. antes \in Seq(S) /\ Len(antes) = i - 1
  BY SubSeqProperties
<1>2. despues \in Seq(S) /\ Len(despues) = Len(lista) - i
  BY SubSeqProperties
<1>3. RemoveAt(lista, i) = antes \o despues
  BY DEF RemoveAt
<1> HIDE DEF antes, despues
<1>4. /\ antes \o despues \in Seq(S)
      /\ Len(antes \o despues) = Len(antes) + Len(despues)
  BY <1>1, <1>2, ConcatProperties
<1>5. Len(lista) \in Nat
  OBVIOUS
<1>6. QED
  BY <1>1, <1>2, <1>3, <1>4, <1>5

(* list_find looks inside the list. *)
LEMMA PrimerosEnLista ==
  ASSUME NEW S, NEW lista \in Seq(S), NEW buscados, NEW i \in Primeros(lista, buscados)
  PROVE  /\ i \in 1..Len(lista)
         /\ lista[i] \in S
         /\ lista[i] \in buscados
  BY DEF Primeros

(* sacarDeNew, sacarDeReady and the removals from Blocked keep the type. *)
LEMMA SinEnLista ==
  ASSUME NEW S, NEW lista \in Seq(S), NEW t, NEW r \in Sin(lista, t)
  PROVE  r \in Seq(S)
<1>1. CASE t \in Range(lista)
  <2>1. PICK i \in Primeros(lista, {t}) : r = RemoveAt(lista, i)
    BY <1>1 DEF Sin
  <2>2. i \in 1..Len(lista)
    BY <2>1 DEF Primeros
  <2>3. QED
    BY <2>1, <2>2, QuitarEnLista
<1>2. CASE t \notin Range(lista)
  BY <1>2 DEF Sin
<1>3. QED
  BY <1>1, <1>2

(* The sort of New gives a list of the same threads. *)
LEMMA OrdenamientoEnLista ==
  ASSUME NEW S, NEW lista \in Seq(S), NEW orden \in Ordenamientos(lista)
  PROVE  orden \in Seq(S)
<1>1. PICK f \in Bijection(DOMAIN lista, DOMAIN lista) : orden = [i \in DOMAIN lista |-> lista[f[i]]]
  BY DEF Ordenamientos
<1>2. f \in [DOMAIN lista -> DOMAIN lista]
  BY DEF Bijection, Injection
<1>3. Len(lista) \in Nat /\ DOMAIN lista = 1..Len(lista)
  OBVIOUS
<1>4. orden \in [1..Len(lista) -> S]
  BY <1>1, <1>2, <1>3
<1>5. QED
  BY <1>3, <1>4, SeqDef

-----------------------------------------------------------------------------
(* Threads and messages.                                                     *)

LEMMA HiloDeProceso ==
  ASSUME NEW p \in Procs, NEW tid \in 0..UltimoTid[p]
  PROVE  <<p, tid>> \in Hilos
  BY DEF Hilos

LEMMA TidDeHilo ==
  ASSUME NEW t \in Hilos
  PROVE  /\ Tid(t) \in Tids
         /\ Pid(t) \in Procs
         /\ t = <<Pid(t), Tid(t)>>
<1>1. PICK p \in Procs : t \in {p} \X (0..UltimoTid[p])
  BY DEF Hilos
<1>2. t[1] = p /\ t[2] \in 0..UltimoTid[p] /\ t = <<t[1], t[2]>>
  BY <1>1
<1>3. QED
  BY <1>1, <1>2 DEF Tid, Pid, Tids

LEMMA TidsDeProceso ==
  ASSUME NEW p \in Procs
  PROVE  /\ UltimoTid[p] \in Nat
         /\ 0..UltimoTid[p] \subseteq Tids
         /\ 0 \in Tids
<1>1. UltimoTid[p] \in Nat
  BY CanalSupuesto
<1>2. QED
  BY <1>1 DEF Tids

LEMMA TidsNaturales == Tids \subseteq Nat
  BY CanalSupuesto DEF Tids

(* The argument of a message is what its type says. *)
LEMMA ArgumentoDeMensaje ==
  ASSUME NEW m \in Mensajes
  PROVE  /\ m.tipo \in {"CREATE", "JOIN", "CLOSE"} => m.arg \in Tids
         /\ m.tipo \in {"WAIT", "SIGNAL"} => m.arg \in Nombres
         /\ m.tipo = "RESPUESTA" => m.arg \in Tids \cup {-1, 0}
  BY DEF Mensajes, SinArgumento

LEMMA EsMensaje ==
  /\ \A v \in Tids \cup {-1, 0} : Respuesta(v) \in Mensajes
  /\ \A op \in {"CREATE", "JOIN", "CLOSE"}, tid \in Tids : Pedido(op, tid) \in Mensajes
  /\ \A op \in {"WAIT", "SIGNAL"}, s \in Nombres : Pedido(op, s) \in Mensajes
  /\ \A op \in {"INIT", "SCHEDULE_NEXT"} : Pedido(op, SinArgumento) \in Mensajes
  /\ Fin \in Mensajes
  BY DEF Mensajes, SinArgumento, Respuesta, Pedido, Fin

(* Sending keeps the channel well typed. *)
LEMMA EnviarMensaje ==
  ASSUME CanalTypeOK, NEW p \in Procs, NEW m \in Mensajes \cup {Nulo}, Enviar(p, m)
  PROVE  CanalTypeOK' /\ canal'[p] = m /\ \A q \in Procs \ {p} : canal'[q] = canal[q]
  BY DEF CanalTypeOK, Enviar

LEMMA ResponderConTipo ==
  ASSUME CanalTypeOK, pc \in [Procs -> Puntos], NEW p \in Procs,
         NEW v \in Tids \cup {-1, 0}, Responder(p, v)
  PROVE  CanalTypeOK' /\ pc' \in [Procs -> Puntos]
<1>1. CanalTypeOK'
  BY EnviarMensaje, EsMensaje DEF Responder
<1>2. pc' \in [Procs -> Puntos]
  BY DEF Responder, Ir, Puntos
<1>3. QED
  BY <1>1, <1>2

-----------------------------------------------------------------------------
(* The inductive invariant.  The types alone are not inductive: they need    *)
(* that the two ends of a connection take turns, and that a handler in the   *)
(* middle of a request still has what its first steps found.                 *)

Conversacion ==
  \A p \in Procs :
    /\ cli[p] \in {"afuera", "corriendo"} => Vacio(p)
    /\ pc[p] \in {"create", "create_admitido"} => Llego(p, "CREATE")
    /\ pc[p] \in {"join_descontar", "join_arrastrar", "join_blocked", "join_bloquear"}
         => Llego(p, "JOIN")
    /\ pc[p] \in {"close_despertar", "close_admitir", "close_descontar"}
         => Llego(p, "CLOSE")
    /\ Llego(p, "CREATE") => canal[p].arg <= UltimoTid[p]
    /\ Llego(p, "WAIT") \/ Llego(p, "SIGNAL") => cli[p] = "pide"

EnMarcha ==
  \A p \in Procs :
    /\ pc[p] \in {"close_despertar", "join_blocked", "join_bloquear"} => exec[p] # Nulo
    /\ pc[p] = "join_arrastrar" => recorrido[p] # 0

TipoInv == TypeOK /\ Conversacion /\ EnMarcha

LEMMA TipoInvInicial == Init => TipoInv
<1> SUFFICES ASSUME Init PROVE TipoInv
  OBVIOUS
<1> USE DEF Init, CanalInit, SuseInit, HilolayInit
<1>1. CanalTypeOK
  BY DEF CanalTypeOK
<1>2. SuseTypeOK
  <2>1. /\ estadoNew \in Seq(Hilos) /\ estadoBlocked \in Seq(Hilos)
        /\ estadoExit \in Seq(Hilos)
        /\ colaDeBloqueo \in [Sems -> Seq(Hilos)]
        /\ tidsEsperando \in [Hilos -> Seq(Tids)]
        /\ ready \in [Procs -> Seq(Hilos \cup {Nulo})]
    BY EmptySeq
  <2>2. /\ multiprog \in Int
        /\ valor \in [Sems -> Int]
        /\ miSemaforo \in [Procs -> 0..TopeLocal]
    BY SuseSupuesto
  <2>3. /\ proteccion \in [Sems -> BOOLEAN]
        /\ exec \in [Procs -> Hilos \cup {Nulo}]
        /\ objetivo \in [Procs -> Hilos \cup {Nulo}]
        /\ recorrido \in [Procs -> Nat]
        /\ pc \in [Procs -> Puntos]
        /\ caido \in BOOLEAN
    BY DEF Puntos
  <2>4. QED
    BY <2>1, <2>2, <2>3 DEF SuseTypeOK
<1>3. HilolayTypeOK
  BY DEF HilolayTypeOK, Estados
<1>4. Conversacion /\ EnMarcha
  BY DEF Conversacion, EnMarcha, Vacio, Llego
<1>5. QED
  BY <1>1, <1>2, <1>3, <1>4 DEF TipoInv, TypeOK

(* The thread whose CREATE is attended. *)
LEMMA HiloPedido ==
  ASSUME TipoInv, NEW p \in Procs, Llego(p, "CREATE")
  PROVE  <<p, canal[p].arg>> \in Hilos
<1>1. canal[p] \in Mensajes
  BY DEF TipoInv, TypeOK, CanalTypeOK, Llego
<1>2. canal[p].arg \in Tids /\ canal[p].arg <= UltimoTid[p]
  BY <1>1, ArgumentoDeMensaje DEF TipoInv, Conversacion, Llego
<1>3. canal[p].arg \in 0..UltimoTid[p]
  <2>1. canal[p].arg \in Nat
    BY <1>2, TidsNaturales
  <2>2. UltimoTid[p] \in Nat
    BY TidsDeProceso
  <2>3. QED
    BY <1>2, <2>1, <2>2
<1>4. QED
  BY <1>3, HiloDeProceso

(* The handler's own semaphore stays in its range. *)
LEMMA LiberarYTomar ==
  ASSUME miSemaforo \in [Procs -> 0..TopeLocal], NEW p \in Procs,
         Liberar(p) \/ (miSemaforo[p] > 0 /\ Tomar(p))
  PROVE  miSemaforo' \in [Procs -> 0..TopeLocal]
<1>1. TopeLocal \in Nat
  BY SuseSupuesto
<1>2. CASE Liberar(p)
  BY <1>1, <1>2 DEF Liberar
<1>3. CASE miSemaforo[p] > 0 /\ Tomar(p)
  BY <1>1, <1>3 DEF Tomar
<1>4. QED
  BY <1>2, <1>3

LEMMA CreateConTipos ==
  ASSUME TipoInv, NEW p \in Procs, Create(p)
  PROVE  SuseTypeOK' /\ CanalTypeOK'
<1> USE DEF TipoInv, TypeOK, SuseTypeOK, suseVars, listas, semaforos, locales, enCurso
<1>1. CASE AtenderCreate(p)
  BY <1>1, HiloPedido, SMTT(20) DEF AtenderCreate, Atiende, Sigue, Ir, Puntos, CanalTypeOK
<1>2. CASE CreateHayLugar(p)
  BY <1>2 DEF CreateHayLugar, Sigue, Ir, Puntos, CanalTypeOK
<1>3. CASE CreateQuedaEnNew(p)
  BY <1>3, ResponderConTipo DEF CreateQuedaEnNew
<1>4. CASE CreateAdmitido(p)
  <2> DEFINE t == <<p, canal[p].arg>>
  <2>1. t \in Hilos
    BY <1>4, HiloPedido DEF CreateAdmitido, Conversacion
  <2>2. estadoNew' \in Seq(Hilos)
    BY <1>4, SinEnLista DEF CreateAdmitido
  <2>3. CanalTypeOK' /\ pc' \in [Procs -> Puntos]
    BY <1>4, ResponderConTipo DEF CreateAdmitido
  <2> HIDE DEF t
  <2>4. \/ ready' = [ready EXCEPT ![p] = Append(@, t)] /\ exec' = exec
        \/ exec' = [exec EXCEPT ![p] = t] /\ ready' = ready
    BY <1>4 DEF CreateAdmitido, t
  <2>5. /\ ready' \in [Procs -> Seq(Hilos \cup {Nulo})]
        /\ exec' \in [Procs -> Hilos \cup {Nulo}]
    <3>1. Append(ready[p], t) \in Seq(Hilos \cup {Nulo})
      BY <2>1, AppendProperties
    <3>2. QED
      BY <2>1, <2>4, <3>1
  <2>6. QED
    BY <1>4, <2>2, <2>3, <2>5 DEF CreateAdmitido
<1>5. QED
  BY <1>1, <1>2, <1>3, <1>4 DEF Create

LEMMA ScheduleNextConTipos ==
  ASSUME TipoInv, NEW p \in Procs, ScheduleNext(p)
  PROVE  SuseTypeOK' /\ CanalTypeOK'
<1> USE DEF TipoInv, TypeOK, SuseTypeOK, suseVars, listas, semaforos, locales, enCurso
<1>1. CASE SigueElMismo(p)
  BY <1>1, TidDeHilo, SuseSupuesto, ResponderConTipo, SMTT(20) DEF SigueElMismo, Liberar
<1>2. CASE PlanificaOtro(p)
  <2>1. PICK i \in DOMAIN ready[p] :
          /\ exec' = [exec EXCEPT ![p] = ready[p][i]]
          /\ ready' = [ready EXCEPT ![p] =
                         IF exec[p] = Nulo THEN RemoveAt(@, i)
                                           ELSE Append(RemoveAt(@, i), exec[p])]
          /\ Responder(p, Tid(ready[p][i]))
    BY <1>2 DEF PlanificaOtro
  <2>2. i \in 1..Len(ready[p]) /\ ready[p][i] \in Hilos
    BY <1>2 DEF PlanificaOtro, TieneNulo, Range
  <2>3. CanalTypeOK' /\ pc' \in [Procs -> Puntos]
    BY <2>1, <2>2, TidDeHilo, ResponderConTipo
  <2>4. exec' \in [Procs -> Hilos \cup {Nulo}]
    BY <2>1, <2>2
  <2>5. RemoveAt(ready[p], i) \in Seq(Hilos \cup {Nulo})
    BY <2>2, QuitarEnLista
  <2>6. ready' \in [Procs -> Seq(Hilos \cup {Nulo})]
    BY <2>1, <2>5
  <2>7. miSemaforo' \in [Procs -> 0..TopeLocal]
    <3>1. Liberar(p)
      BY <1>2 DEF PlanificaOtro
    <3>2. miSemaforo \in [Procs -> 0..TopeLocal]
      OBVIOUS
    <3>3. QED
      BY <3>1, <3>2, SuseSupuesto DEF Liberar
  <2>8. QED
    BY <1>2, <2>3, <2>4, <2>6, <2>7 DEF PlanificaOtro
<1>3. CASE PlanificaCae(p)
  BY <1>3 DEF PlanificaCae, Caer, CanalTypeOK, Sigue, Ir, Puntos
<1>4. QED
  BY <1>1, <1>2, <1>3 DEF ScheduleNext

LEMMA JoinConTipos ==
  ASSUME TipoInv, NEW p \in Procs, Join(p)
  PROVE  SuseTypeOK' /\ CanalTypeOK'
<1> USE DEF TipoInv, TypeOK, SuseTypeOK, suseVars, listas, semaforos, locales, enCurso
<1>1. CASE JoinDespacha(p)
  <2>1. PICK orden \in Ordenamientos(estadoNew) :
          \E i \in Primeros(orden, HilosDe(p)) :
            /\ estadoNew' = RemoveAt(orden, i)
            /\ exec' = [exec EXCEPT ![p] = orden[i]]
    BY <1>1 DEF JoinDespacha
  <2>2. PICK i \in Primeros(orden, HilosDe(p)) :
          /\ estadoNew' = RemoveAt(orden, i)
          /\ exec' = [exec EXCEPT ![p] = orden[i]]
    BY <2>1
  <2>3. orden \in Seq(Hilos)
    BY OrdenamientoEnLista
  <2>4. i \in 1..Len(orden) /\ orden[i] \in Hilos
    BY <2>3, PrimerosEnLista
  <2>5. /\ estadoNew' \in Seq(Hilos)
        /\ exec' \in [Procs -> Hilos \cup {Nulo}]
    BY <2>2, <2>3, <2>4, QuitarEnLista
  <2>6. QED
    BY <1>1, <2>5 DEF JoinDespacha, Atiende, JoinEspera, Ir, Puntos, CanalTypeOK
<1>2. CASE JoinDescuenta(p)
  BY <1>2, SMTT(20) DEF JoinDescuenta, Sigue, Ir, Puntos, CanalTypeOK
<1>3. CASE JoinArrastra(p)
  BY <1>3, SMTT(20) DEF JoinArrastra, EnMarcha, Sigue, Ir, Puntos, CanalTypeOK
<1>4. CASE JoinSaltea(p)
  BY <1>4 DEF JoinSaltea, Sigue, Ir, Puntos, CanalTypeOK
<1>5. CASE JoinVuelve(p)
  BY <1>5 DEF JoinVuelve, Sigue, Ir, Puntos, CanalTypeOK
<1>6. CASE JoinEncuentra(p)
  <2>1. PICK t \in Hallados(p, canal[p].arg) : objetivo' = [objetivo EXCEPT ![p] = t]
    BY <1>6 DEF JoinEncuentra
  <2>2. \/ \E i \in DOMAIN estadoNew : t = estadoNew[i]
        \/ \E i \in DOMAIN ready[p] : t = ready[p][i]
    BY <2>1 DEF Hallados, En, Primeros
  <2>3. t \in Hilos \cup {Nulo}
    BY <2>2
  <2>4. objetivo' \in [Procs -> Hilos \cup {Nulo}]
    BY <2>1, <2>3
  <2>5. QED
    BY <1>6, <2>4 DEF JoinEncuentra, Ir, Puntos, CanalTypeOK
<1>7. CASE JoinSigueBuscando(p)
  BY <1>7 DEF JoinSigueBuscando, Atiende, JoinBusca, Sigue, Ir, Puntos, CanalTypeOK
<1>8. CASE JoinEncuentraBlocked(p)
  BY <1>8 DEF JoinEncuentraBlocked, En, Primeros, Sigue, Ir, Puntos, CanalTypeOK
<1>9. CASE JoinNoEncuentra(p)
  BY <1>9, ResponderConTipo DEF JoinNoEncuentra
<1>10. CASE JoinBloquea(p)
  <2>1. exec[p] \in Hilos /\ Tid(exec[p]) \in Tids
    BY <1>10, TidDeHilo DEF JoinBloquea, EnMarcha
  <2>2. CanalTypeOK' /\ pc' \in [Procs -> Puntos]
    BY <1>10, ResponderConTipo DEF JoinBloquea
  <2>3. tidsEsperando' \in [Hilos -> Seq(Tids)]
    <3> DEFINE n == Tid(exec[p])
    <3>1. \A u \in Hilos : Append(tidsEsperando[u], n) \in Seq(Tids)
      BY <2>1, AppendProperties
    <3> HIDE DEF n
    <3>2. tidsEsperando' = [tidsEsperando EXCEPT ![objetivo[p]] = Append(@, n)]
      BY <1>10 DEF JoinBloquea, n
    <3>3. QED
      BY <3>1, <3>2
  <2>4. estadoBlocked' \in Seq(Hilos)
    BY <1>10, <2>1, AppendProperties DEF JoinBloquea
  <2>5. /\ exec' \in [Procs -> Hilos \cup {Nulo}]
        /\ objetivo' \in [Procs -> Hilos \cup {Nulo}]
    BY <1>10 DEF JoinBloquea
  <2>6. QED
    BY <1>10, <2>2, <2>3, <2>4, <2>5 DEF JoinBloquea
<1>11. QED
  BY <1>1, <1>2, <1>3, <1>4, <1>5, <1>6, <1>7, <1>8, <1>9, <1>10 DEF Join

LEMMA CloseConTipos ==
  ASSUME TipoInv, NEW p \in Procs, Close(p)
  PROVE  SuseTypeOK' /\ CanalTypeOK'
<1> USE DEF TipoInv, TypeOK, SuseTypeOK, suseVars, listas, semaforos, locales, enCurso
<1>1. CASE AtenderClose(p)
  BY <1>1 DEF AtenderClose, EnEjecucion, Atiende, Sigue, Ir, Puntos, CanalTypeOK
<1>2. CASE CloseNoEjecuta(p)
  BY <1>2, ResponderConTipo DEF CloseNoEjecuta
<1>3. CASE CloseDespierta(p)
  <2> DEFINE t == exec[p]
             w == Esperante(p, t)
  <2>1. t \in Hilos /\ tidsEsperando[t] \in Seq(Tids) /\ tidsEsperando[t] # <<>>
    BY <1>3 DEF CloseDespierta, EnMarcha, NadieEspera
  <2>2. tidsEsperando' \in [Hilos -> Seq(Tids)]
    BY <1>3, <2>1, HeadTailProperties DEF CloseDespierta
  <2>3. estadoBlocked' \in Seq(Hilos)
    BY <1>3, SinEnLista DEF CloseDespierta
  <2>4. w \in Range(estadoBlocked) => w \in Hilos
    BY DEF Range
  <2> HIDE DEF w
  <2>5. ready' = [ready EXCEPT ![p] = Append(@, IF w \in Range(estadoBlocked) THEN w ELSE Nulo)]
    BY <1>3 DEF CloseDespierta, w
  <2>6. ready' \in [Procs -> Seq(Hilos \cup {Nulo})]
    BY <2>4, <2>5
  <2>7. QED
    BY <1>3, <2>2, <2>3, <2>6 DEF CloseDespierta, CanalTypeOK
<1>4. CASE CloseLibera(p)
  BY <1>4 DEF CloseLibera, GradoDevuelto, Sigue, Ir, Puntos, CanalTypeOK
<1>5. CASE CloseAdmite(p)
  <2>1. PICK i \in 1..Len(estadoNew) :
          /\ estadoNew' = RemoveAt(estadoNew, i)
          /\ ready' = [ready EXCEPT ![p] = Append(@, estadoNew[i])]
    <3>1. PICK i \in Primeros(estadoNew, HilosDe(p)) :
            /\ estadoNew' = RemoveAt(estadoNew, i)
            /\ ready' = [ready EXCEPT ![p] = Append(@, estadoNew[i])]
      BY <1>5 DEF CloseAdmite
    <3>2. i \in 1..Len(estadoNew)
      BY <3>1 DEF Primeros
    <3>3. QED
      BY <3>1, <3>2
  <2>2. estadoNew' \in Seq(Hilos)
    BY <2>1, QuitarEnLista
  <2>3. ready' \in [Procs -> Seq(Hilos \cup {Nulo})]
    BY <2>1, SMTT(20)
  <2>4. QED
    BY <1>5, <2>2, <2>3 DEF CloseAdmite, Sigue, Ir, Puntos, CanalTypeOK
<1>6. CASE CloseSinNuevos(p)
  BY <1>6, ResponderConTipo DEF CloseSinNuevos
<1>7. CASE CloseDescuenta(p)
  BY <1>7, ResponderConTipo DEF CloseDescuenta
<1>8. QED
  BY <1>1, <1>2, <1>3, <1>4, <1>5, <1>6, <1>7 DEF Close

LEMMA WaitConTipos ==
  ASSUME TipoInv, NEW p \in Procs, Wait(p)
  PROVE  SuseTypeOK' /\ CanalTypeOK'
<1> USE DEF TipoInv, TypeOK, SuseTypeOK, suseVars, listas, semaforos, locales, enCurso
<1>1. CASE WaitPasa(p)
  BY <1>1, ResponderConTipo, SMTT(20) DEF WaitPasa
<1>2. CASE WaitBloquea(p)
  <2>1. CanalTypeOK' /\ pc' \in [Procs -> Puntos]
    BY <1>2, ResponderConTipo DEF WaitBloquea
  <2>2. exec[p] \in Hilos /\ canal[p].arg \in Sems
    BY <1>2 DEF WaitBloquea
  <2>3. colaDeBloqueo' \in [Sems -> Seq(Hilos)] /\ valor' \in [Sems -> Int]
    BY <1>2, <2>2, SMTT(20) DEF WaitBloquea
  <2>4. estadoBlocked' \in Seq(Hilos)
    BY <1>2, <2>2, AppendProperties DEF WaitBloquea
  <2>5. exec' \in [Procs -> Hilos \cup {Nulo}]
    BY <1>2 DEF WaitBloquea
  <2>6. QED
    BY <1>2, <2>1, <2>3, <2>4, <2>5 DEF WaitBloquea
<1>3. CASE WaitCae(p)
  BY <1>3 DEF WaitCae, Caer, CanalTypeOK, Sigue, Ir, Puntos
<1>4. CASE WaitDesconocido(p)
  BY <1>4, ResponderConTipo DEF WaitDesconocido
<1>5. QED
  BY <1>1, <1>2, <1>3, <1>4 DEF Wait

LEMMA SignalConTipos ==
  ASSUME TipoInv, NEW p \in Procs, Signal(p)
  PROVE  SuseTypeOK' /\ CanalTypeOK'
<1> USE DEF TipoInv, TypeOK, SuseTypeOK, suseVars, listas, semaforos, locales, enCurso
<1>1. CASE SignalSube(p)
  <2>1. CanalTypeOK' /\ pc' \in [Procs -> Puntos]
    BY <1>1, ResponderConTipo DEF SignalSube
  <2>2. miSemaforo' \in [Procs -> 0..TopeLocal]
    BY <1>1, LiberarYTomar DEF SignalSube, AtiendeSemaforo
  <2>3. QED
    BY <1>1, <2>1, <2>2, SMTT(20) DEF SignalSube
<1>2. CASE SignalTraba(p)
  <2>1. CanalTypeOK' /\ pc' \in [Procs -> Puntos]
    BY <1>2, ResponderConTipo DEF SignalTraba
  <2>2. miSemaforo' \in [Procs -> 0..TopeLocal]
    BY <1>2, LiberarYTomar DEF SignalTraba, AtiendeSemaforo
  <2>3. QED
    BY <1>2, <2>1, <2>2 DEF SignalTraba
<1>3. CASE SignalDespierta(p)
  <2> DEFINE s == canal[p].arg
  <2>1. PICK i \in 1..Len(colaDeBloqueo[s]) :
          LET t == colaDeBloqueo[s][i] IN
          /\ estadoBlocked' \in Sin(estadoBlocked, t)
          /\ colaDeBloqueo' = [colaDeBloqueo EXCEPT ![s] = RemoveAt(@, i)]
          /\ ready' = [ready EXCEPT ![p] = Append(@, t)]
    <3>1. PICK i \in Primeros(colaDeBloqueo[s], HilosDe(p)) :
            LET t == colaDeBloqueo[s][i] IN
            /\ estadoBlocked' \in Sin(estadoBlocked, t)
            /\ colaDeBloqueo' = [colaDeBloqueo EXCEPT ![s] = RemoveAt(@, i)]
            /\ ready' = [ready EXCEPT ![p] = Append(@, t)]
      BY <1>3 DEF SignalDespierta
    <3>2. colaDeBloqueo[s] \in Seq(Hilos)
      BY <1>3 DEF SignalDespierta
    <3>3. i \in 1..Len(colaDeBloqueo[s])
      BY <3>2, PrimerosEnLista
    <3>4. QED
      BY <3>1, <3>3
  <2>2. s \in Sems /\ colaDeBloqueo[s] \in Seq(Hilos) /\ colaDeBloqueo[s][i] \in Hilos
    BY <1>3 DEF SignalDespierta
  <2>3. CanalTypeOK' /\ pc' \in [Procs -> Puntos]
    BY <1>3, ResponderConTipo DEF SignalDespierta
  <2>4. miSemaforo' \in [Procs -> 0..TopeLocal]
    BY <1>3, LiberarYTomar DEF SignalDespierta, AtiendeSemaforo
  <2>5. estadoBlocked' \in Seq(Hilos)
    BY <2>1, SinEnLista
  <2>6. RemoveAt(colaDeBloqueo[s], i) \in Seq(Hilos)
    BY <2>2, QuitarEnLista
  <2>7. valor' \in [Sems -> Int]
    BY <1>3, SMTT(20) DEF SignalDespierta
  <2> HIDE DEF s
  <2>8. colaDeBloqueo' \in [Sems -> Seq(Hilos)]
    BY <2>1, <2>6
  <2>9. ready' \in [Procs -> Seq(Hilos \cup {Nulo})]
    BY <2>1, <2>2, SMTT(20)
  <2>10. QED
    BY <1>3, <2>3, <2>4, <2>5, <2>7, <2>8, <2>9 DEF SignalDespierta
<1>4. CASE SignalSinPropios(p)
  <2>1. CanalTypeOK' /\ pc' \in [Procs -> Puntos]
    BY <1>4, ResponderConTipo DEF SignalSinPropios
  <2>2. miSemaforo' \in [Procs -> 0..TopeLocal]
    BY <1>4, LiberarYTomar DEF SignalSinPropios, AtiendeSemaforo
  <2>3. QED
    BY <1>4, <2>1, <2>2, SMTT(20) DEF SignalSinPropios
<1>5. CASE SignalDesconocido(p)
  <2>1. CanalTypeOK' /\ pc' \in [Procs -> Puntos]
    BY <1>5, ResponderConTipo DEF SignalDesconocido
  <2>2. miSemaforo' \in [Procs -> 0..TopeLocal]
    BY <1>5, LiberarYTomar DEF SignalDesconocido, AtiendeSemaforo
  <2>3. QED
    BY <1>5, <2>1, <2>2 DEF SignalDesconocido
<1>6. QED
  BY <1>1, <1>2, <1>3, <1>4, <1>5 DEF Signal

(* The server answers, or goes on with the request it attends. *)
LEMMA ResponderConversa ==
  ASSUME TipoInv, NEW p \in Procs, canal[p] # Nulo, NEW v, Responder(p, v),
         UNCHANGED cli
  PROVE  /\ Conversacion'
         /\ pc'[p] = "libre" /\ \A q \in Procs \ {p} : pc'[q] = pc[q]
<1>1. /\ canal'[p].tipo = "RESPUESTA" /\ pc'[p] = "libre"
      /\ \A q \in Procs \ {p} : canal'[q] = canal[q] /\ pc'[q] = pc[q]
  BY DEF Responder, Enviar, Respuesta, Ir, TipoInv, TypeOK, CanalTypeOK, SuseTypeOK
<1>2. cli[p] \notin {"afuera", "corriendo"}
  BY DEF TipoInv, Conversacion, Vacio
<1>3. QED
  BY <1>1, <1>2 DEF TipoInv, Conversacion, Vacio, Llego

LEMMA IrConversa ==
  ASSUME TipoInv, NEW p \in Procs, NEW donde, Ir(p, donde), UNCHANGED <<cli, canal>>,
         \/ Llego(p, "CREATE") /\ donde \in {"create", "create_admitido"}
         \/ Llego(p, "JOIN") /\ donde \in {"join_descontar", "join_arrastrar", "join_blocked",
                                           "join_bloquear", "libre"}
         \/ Llego(p, "CLOSE") /\ donde \in {"close_despertar", "close_admitir", "close_descontar"}
  PROVE  /\ Conversacion'
         /\ pc'[p] = donde /\ \A q \in Procs \ {p} : pc'[q] = pc[q]
<1>1. pc'[p] = donde /\ \A q \in Procs \ {p} : pc'[q] = pc[q]
  BY DEF Ir, TipoInv, TypeOK, SuseTypeOK
<1>2. QED
  BY <1>1 DEF TipoInv, Conversacion, Vacio, Llego

LEMMA CreateConversa ==
  ASSUME TipoInv, NEW p \in Procs, Create(p), UNCHANGED cli
  PROVE  Conversacion' /\ EnMarcha'
<1>a. /\ exec \in [Procs -> Hilos \cup {Nulo}] /\ recorrido \in [Procs -> Nat]
      /\ EnMarcha
  BY DEF TipoInv, TypeOK, SuseTypeOK
<1>1. CASE AtenderCreate(p)
  <2>1. Conversacion' /\ \A q \in Procs \ {p} : pc'[q] = pc[q]
    BY <1>1, IrConversa DEF AtenderCreate, TipoInv, Conversacion, Atiende
  <2>2. QED
    BY <1>a, <1>1, <2>1 DEF AtenderCreate, EnMarcha, locales, enCurso, Atiende, Ir, TipoInv, TypeOK, SuseTypeOK
<1>2. CASE CreateHayLugar(p)
  <2>1. Conversacion' /\ \A q \in Procs \ {p} : pc'[q] = pc[q]
    BY <1>2, IrConversa DEF CreateHayLugar, TipoInv, Conversacion, Sigue
  <2>2. QED
    BY <1>a, <1>2, <2>1 DEF CreateHayLugar, EnMarcha, locales, enCurso, Sigue, Ir, TipoInv, TypeOK, SuseTypeOK
<1>3. CASE CreateQuedaEnNew(p)
  <2>1. canal[p] # Nulo /\ \E v : Responder(p, v)
    BY <1>3 DEF CreateQuedaEnNew, TipoInv, Conversacion, Llego, Sigue
  <2>2. /\ Conversacion'
        /\ pc'[p] = "libre" /\ \A q \in Procs \ {p} : pc'[q] = pc[q]
    BY <2>1, ResponderConversa
  <2>3. QED
    BY <1>a, <1>3, <2>2 DEF CreateQuedaEnNew, EnMarcha, locales, enCurso
<1>4. CASE CreateAdmitido(p)
  <2>1. canal[p] # Nulo /\ \E v : Responder(p, v)
    BY <1>4 DEF CreateAdmitido, TipoInv, Conversacion, Llego, Sigue
  <2>2. /\ Conversacion'
        /\ pc'[p] = "libre" /\ \A q \in Procs \ {p} : pc'[q] = pc[q]
    BY <2>1, ResponderConversa
  <2>3. QED
    BY <1>a, <1>4, <2>2 DEF CreateAdmitido, EnMarcha, locales, enCurso
<1>5. QED
  BY <1>1, <1>2, <1>3, <1>4 DEF Create

LEMMA ScheduleNextConversa ==
  ASSUME TipoInv, NEW p \in Procs, ScheduleNext(p), UNCHANGED cli
  PROVE  Conversacion' /\ EnMarcha'
<1>a. /\ exec \in [Procs -> Hilos \cup {Nulo}] /\ recorrido \in [Procs -> Nat]
      /\ EnMarcha
  BY DEF TipoInv, TypeOK, SuseTypeOK
<1>1. CASE SigueElMismo(p)
  <2>1. canal[p] # Nulo /\ \E v : Responder(p, v)
    BY <1>1 DEF SigueElMismo, TipoInv, Conversacion, Llego, Atiende
  <2>2. /\ Conversacion'
        /\ pc'[p] = "libre" /\ \A q \in Procs \ {p} : pc'[q] = pc[q]
    BY <2>1, ResponderConversa
  <2>3. QED
    BY <1>a, <1>1, <2>2 DEF SigueElMismo, EnMarcha, locales, enCurso
<1>2. CASE PlanificaOtro(p)
  <2>1. canal[p] # Nulo /\ \E v : Responder(p, v)
    BY <1>2 DEF PlanificaOtro, TipoInv, Conversacion, Llego, Atiende
  <2>2. /\ Conversacion'
        /\ pc'[p] = "libre" /\ \A q \in Procs \ {p} : pc'[q] = pc[q]
    BY <2>1, ResponderConversa
  <2>3. QED
    BY <1>a, <1>2, <2>2 DEF PlanificaOtro, EnMarcha, locales, enCurso
<1>3. CASE PlanificaCae(p)
  BY <1>a, <1>3 DEF PlanificaCae, Caer, TipoInv, Conversacion, EnMarcha, Vacio, Llego, locales, enCurso
<1>4. QED
  BY <1>1, <1>2, <1>3 DEF ScheduleNext

LEMMA JoinConversa ==
  ASSUME TipoInv, NEW p \in Procs, Join(p), UNCHANGED cli
  PROVE  Conversacion' /\ EnMarcha'
<1>a. /\ exec \in [Procs -> Hilos \cup {Nulo}] /\ recorrido \in [Procs -> Nat]
      /\ EnMarcha
  BY DEF TipoInv, TypeOK, SuseTypeOK
<1>1. CASE JoinDespacha(p)
  <2>1. Conversacion' /\ \A q \in Procs \ {p} : pc'[q] = pc[q]
    BY <1>1, IrConversa DEF JoinDespacha, TipoInv, Conversacion, JoinEspera, Atiende
  <2>2. QED
    BY <1>a, <1>1, <2>1 DEF JoinDespacha, EnMarcha, locales, enCurso, JoinEspera, Atiende, Ir, TipoInv, TypeOK, SuseTypeOK
<1>2. CASE JoinDescuenta(p)
  <2>1. Conversacion' /\ \A q \in Procs \ {p} : pc'[q] = pc[q]
    BY <1>2, IrConversa DEF JoinDescuenta, TipoInv, Conversacion, Sigue
  <2>2. QED
    BY <1>a, <1>2, <2>1 DEF JoinDescuenta, EnMarcha, locales, enCurso, Sigue, Ir, TipoInv, TypeOK, SuseTypeOK
<1>3. CASE JoinArrastra(p)
  <2>1. Conversacion' /\ \A q \in Procs \ {p} : pc'[q] = pc[q]
    BY <1>3, IrConversa DEF JoinArrastra, TipoInv, Conversacion, Sigue
  <2>2. QED
    BY <1>a, <1>3, <2>1 DEF JoinArrastra, EnMarcha, locales, enCurso, Sigue, Ir, TipoInv, TypeOK, SuseTypeOK
<1>4. CASE JoinSaltea(p)
  BY <1>a, <1>4 DEF JoinSaltea, TipoInv, Conversacion, EnMarcha, Vacio, Llego, locales, enCurso
<1>5. CASE JoinVuelve(p)
  <2>1. Conversacion' /\ \A q \in Procs \ {p} : pc'[q] = pc[q]
    BY <1>5, IrConversa DEF JoinVuelve, TipoInv, Conversacion, Sigue
  <2>2. QED
    BY <1>a, <1>5, <2>1 DEF JoinVuelve, EnMarcha, locales, enCurso, Sigue, Ir, TipoInv, TypeOK, SuseTypeOK
<1>6. CASE JoinEncuentra(p)
  <2>1. Conversacion' /\ \A q \in Procs \ {p} : pc'[q] = pc[q]
    BY <1>6, IrConversa DEF JoinEncuentra, TipoInv, Conversacion, JoinBusca, Atiende
  <2>2. QED
    BY <1>a, <1>6, <2>1 DEF JoinEncuentra, EnMarcha, locales, enCurso, JoinBusca, Atiende, Ir, TipoInv, TypeOK, SuseTypeOK
<1>7. CASE JoinSigueBuscando(p)
  <2>1. Conversacion' /\ \A q \in Procs \ {p} : pc'[q] = pc[q]
    BY <1>7, IrConversa DEF JoinSigueBuscando, TipoInv, Conversacion, JoinBusca, Atiende
  <2>2. QED
    BY <1>a, <1>7, <2>1 DEF JoinSigueBuscando, EnMarcha, locales, enCurso, JoinBusca, Atiende, Ir, TipoInv, TypeOK, SuseTypeOK
<1>8. CASE JoinEncuentraBlocked(p)
  <2>1. Conversacion' /\ \A q \in Procs \ {p} : pc'[q] = pc[q]
    BY <1>8, IrConversa DEF JoinEncuentraBlocked, TipoInv, Conversacion, Sigue
  <2>2. QED
    BY <1>a, <1>8, <2>1 DEF JoinEncuentraBlocked, EnMarcha, locales, enCurso, Sigue, Ir, TipoInv, TypeOK, SuseTypeOK
<1>9. CASE JoinNoEncuentra(p)
  <2>1. canal[p] # Nulo /\ \E v : Responder(p, v)
    BY <1>9 DEF JoinNoEncuentra, TipoInv, Conversacion, Llego, Sigue
  <2>2. /\ Conversacion'
        /\ pc'[p] = "libre" /\ \A q \in Procs \ {p} : pc'[q] = pc[q]
    BY <2>1, ResponderConversa
  <2>3. QED
    BY <1>a, <1>9, <2>2 DEF JoinNoEncuentra, EnMarcha, locales, enCurso
<1>10. CASE JoinBloquea(p)
  <2>1. canal[p] # Nulo /\ \E v : Responder(p, v)
    BY <1>10 DEF JoinBloquea, TipoInv, Conversacion, Llego, Sigue
  <2>2. /\ Conversacion'
        /\ pc'[p] = "libre" /\ \A q \in Procs \ {p} : pc'[q] = pc[q]
    BY <2>1, ResponderConversa
  <2>3. QED
    BY <1>a, <1>10, <2>2 DEF JoinBloquea, EnMarcha, locales, enCurso
<1>11. QED
  BY <1>1, <1>2, <1>3, <1>4, <1>5, <1>6, <1>7, <1>8, <1>9, <1>10 DEF Join

LEMMA CloseConversa ==
  ASSUME TipoInv, NEW p \in Procs, Close(p), UNCHANGED cli
  PROVE  Conversacion' /\ EnMarcha'
<1>a. /\ exec \in [Procs -> Hilos \cup {Nulo}] /\ recorrido \in [Procs -> Nat]
      /\ EnMarcha
  BY DEF TipoInv, TypeOK, SuseTypeOK
<1>1. CASE AtenderClose(p)
  <2>1. Conversacion' /\ \A q \in Procs \ {p} : pc'[q] = pc[q]
    BY <1>1, IrConversa DEF AtenderClose, TipoInv, Conversacion, Atiende, EnEjecucion
  <2>2. QED
    BY <1>a, <1>1, <2>1 DEF AtenderClose, EnMarcha, locales, enCurso, Atiende, EnEjecucion, Ir, TipoInv, TypeOK, SuseTypeOK
<1>2. CASE CloseNoEjecuta(p)
  <2>1. canal[p] # Nulo /\ \E v : Responder(p, v)
    BY <1>2 DEF CloseNoEjecuta, TipoInv, Conversacion, Llego, Atiende
  <2>2. /\ Conversacion'
        /\ pc'[p] = "libre" /\ \A q \in Procs \ {p} : pc'[q] = pc[q]
    BY <2>1, ResponderConversa
  <2>3. QED
    BY <1>a, <1>2, <2>2 DEF CloseNoEjecuta, EnMarcha, locales, enCurso
<1>3. CASE CloseDespierta(p)
  BY <1>a, <1>3 DEF CloseDespierta, TipoInv, Conversacion, EnMarcha, Vacio, Llego, locales, enCurso
<1>4. CASE CloseLibera(p)
  <2>1. Conversacion' /\ \A q \in Procs \ {p} : pc'[q] = pc[q]
    BY <1>4, IrConversa DEF CloseLibera, TipoInv, Conversacion, Sigue
  <2>2. QED
    BY <1>a, <1>4, <2>1 DEF CloseLibera, EnMarcha, locales, enCurso, Sigue, Ir, TipoInv, TypeOK, SuseTypeOK
<1>5. CASE CloseAdmite(p)
  <2>1. Conversacion' /\ \A q \in Procs \ {p} : pc'[q] = pc[q]
    BY <1>5, IrConversa DEF CloseAdmite, TipoInv, Conversacion, Sigue
  <2>2. QED
    BY <1>a, <1>5, <2>1 DEF CloseAdmite, EnMarcha, locales, enCurso, Sigue, Ir, TipoInv, TypeOK, SuseTypeOK
<1>6. CASE CloseSinNuevos(p)
  <2>1. canal[p] # Nulo /\ \E v : Responder(p, v)
    BY <1>6 DEF CloseSinNuevos, TipoInv, Conversacion, Llego, Sigue
  <2>2. /\ Conversacion'
        /\ pc'[p] = "libre" /\ \A q \in Procs \ {p} : pc'[q] = pc[q]
    BY <2>1, ResponderConversa
  <2>3. QED
    BY <1>a, <1>6, <2>2 DEF CloseSinNuevos, EnMarcha, locales, enCurso
<1>7. CASE CloseDescuenta(p)
  <2>1. canal[p] # Nulo /\ \E v : Responder(p, v)
    BY <1>7 DEF CloseDescuenta, TipoInv, Conversacion, Llego, Sigue
  <2>2. /\ Conversacion'
        /\ pc'[p] = "libre" /\ \A q \in Procs \ {p} : pc'[q] = pc[q]
    BY <2>1, ResponderConversa
  <2>3. QED
    BY <1>a, <1>7, <2>2 DEF CloseDescuenta, EnMarcha, locales, enCurso
<1>8. QED
  BY <1>1, <1>2, <1>3, <1>4, <1>5, <1>6, <1>7 DEF Close

LEMMA WaitConversa ==
  ASSUME TipoInv, NEW p \in Procs, Wait(p), UNCHANGED cli
  PROVE  Conversacion' /\ EnMarcha'
<1>a. /\ exec \in [Procs -> Hilos \cup {Nulo}] /\ recorrido \in [Procs -> Nat]
      /\ EnMarcha
  BY DEF TipoInv, TypeOK, SuseTypeOK
<1>1. CASE WaitPasa(p)
  <2>1. canal[p] # Nulo /\ \E v : Responder(p, v)
    BY <1>1 DEF WaitPasa, TipoInv, Conversacion, Llego, AtiendeSemaforo, Atiende
  <2>2. /\ Conversacion'
        /\ pc'[p] = "libre" /\ \A q \in Procs \ {p} : pc'[q] = pc[q]
    BY <2>1, ResponderConversa
  <2>3. QED
    BY <1>a, <1>1, <2>2 DEF WaitPasa, EnMarcha, locales, enCurso
<1>2. CASE WaitBloquea(p)
  <2>1. canal[p] # Nulo /\ \E v : Responder(p, v)
    BY <1>2 DEF WaitBloquea, TipoInv, Conversacion, Llego, AtiendeSemaforo, Atiende
  <2>2. /\ Conversacion'
        /\ pc'[p] = "libre" /\ \A q \in Procs \ {p} : pc'[q] = pc[q]
    BY <2>1, ResponderConversa
  <2>3. QED
    BY <1>a, <1>2, <2>2 DEF WaitBloquea, EnMarcha, locales, enCurso
<1>3. CASE WaitCae(p)
  BY <1>a, <1>3 DEF WaitCae, Caer, TipoInv, Conversacion, EnMarcha, Vacio, Llego, locales, enCurso
<1>4. CASE WaitDesconocido(p)
  <2>1. canal[p] # Nulo /\ \E v : Responder(p, v)
    BY <1>4 DEF WaitDesconocido, TipoInv, Conversacion, Llego, AtiendeSemaforo, Atiende
  <2>2. /\ Conversacion'
        /\ pc'[p] = "libre" /\ \A q \in Procs \ {p} : pc'[q] = pc[q]
    BY <2>1, ResponderConversa
  <2>3. QED
    BY <1>a, <1>4, <2>2 DEF WaitDesconocido, EnMarcha, locales, enCurso
<1>5. QED
  BY <1>1, <1>2, <1>3, <1>4 DEF Wait

LEMMA SignalConversa ==
  ASSUME TipoInv, NEW p \in Procs, Signal(p), UNCHANGED cli
  PROVE  Conversacion' /\ EnMarcha'
<1>a. /\ exec \in [Procs -> Hilos \cup {Nulo}] /\ recorrido \in [Procs -> Nat]
      /\ EnMarcha
  BY DEF TipoInv, TypeOK, SuseTypeOK
<1>1. CASE SignalSube(p)
  <2>1. canal[p] # Nulo /\ \E v : Responder(p, v)
    BY <1>1 DEF SignalSube, TipoInv, Conversacion, Llego, AtiendeSemaforo, Atiende
  <2>2. /\ Conversacion'
        /\ pc'[p] = "libre" /\ \A q \in Procs \ {p} : pc'[q] = pc[q]
    BY <2>1, ResponderConversa
  <2>3. QED
    BY <1>a, <1>1, <2>2 DEF SignalSube, EnMarcha, locales, enCurso
<1>2. CASE SignalTraba(p)
  <2>1. canal[p] # Nulo /\ \E v : Responder(p, v)
    BY <1>2 DEF SignalTraba, TipoInv, Conversacion, Llego, AtiendeSemaforo, Atiende
  <2>2. /\ Conversacion'
        /\ pc'[p] = "libre" /\ \A q \in Procs \ {p} : pc'[q] = pc[q]
    BY <2>1, ResponderConversa
  <2>3. QED
    BY <1>a, <1>2, <2>2 DEF SignalTraba, EnMarcha, locales, enCurso
<1>3. CASE SignalDespierta(p)
  <2>1. canal[p] # Nulo /\ \E v : Responder(p, v)
    BY <1>3 DEF SignalDespierta, TipoInv, Conversacion, Llego, AtiendeSemaforo, Atiende
  <2>2. /\ Conversacion'
        /\ pc'[p] = "libre" /\ \A q \in Procs \ {p} : pc'[q] = pc[q]
    BY <2>1, ResponderConversa
  <2>3. QED
    BY <1>a, <1>3, <2>2 DEF SignalDespierta, EnMarcha, locales, enCurso
<1>4. CASE SignalSinPropios(p)
  <2>1. canal[p] # Nulo /\ \E v : Responder(p, v)
    BY <1>4 DEF SignalSinPropios, TipoInv, Conversacion, Llego, AtiendeSemaforo, Atiende
  <2>2. /\ Conversacion'
        /\ pc'[p] = "libre" /\ \A q \in Procs \ {p} : pc'[q] = pc[q]
    BY <2>1, ResponderConversa
  <2>3. QED
    BY <1>a, <1>4, <2>2 DEF SignalSinPropios, EnMarcha, locales, enCurso
<1>5. CASE SignalDesconocido(p)
  <2>1. canal[p] # Nulo /\ \E v : Responder(p, v)
    BY <1>5 DEF SignalDesconocido, TipoInv, Conversacion, Llego, AtiendeSemaforo, Atiende
  <2>2. /\ Conversacion'
        /\ pc'[p] = "libre" /\ \A q \in Procs \ {p} : pc'[q] = pc[q]
    BY <2>1, ResponderConversa
  <2>3. QED
    BY <1>a, <1>5, <2>2 DEF SignalDesconocido, EnMarcha, locales, enCurso
<1>6. QED
  BY <1>1, <1>2, <1>3, <1>4, <1>5 DEF Signal

(* A handler only writes to its own connection. *)
LEMMA OtrosCanales ==
  ASSUME TipoInv, NEW p \in Procs, OcupateDeEste(p)
  PROVE  \A q \in Procs \ {p} : canal'[q] = canal[q]
<1>1. UNCHANGED canal \/ \E m : Enviar(p, m)
  BY DEF OcupateDeEste, AtenderInit, Desconectar, Create, ScheduleNext, Join, Close, Wait, Signal,
     AtenderCreate, CreateHayLugar, CreateQuedaEnNew, CreateAdmitido,
     SigueElMismo, PlanificaOtro, PlanificaCae,
     JoinDespacha, JoinDescuenta, JoinArrastra, JoinSaltea, JoinVuelve, JoinEncuentra,
     JoinSigueBuscando, JoinEncuentraBlocked, JoinNoEncuentra, JoinBloquea,
     AtenderClose, CloseNoEjecuta, CloseDespierta, CloseLibera, CloseAdmite,
     CloseSinNuevos, CloseDescuenta, WaitPasa, WaitBloquea, WaitCae, WaitDesconocido,
     SignalSube, SignalTraba, SignalDespierta, SignalSinPropios, SignalDesconocido,
     Responder, Caer
<1>2. QED
  BY <1>1 DEF Enviar, TipoInv, TypeOK, CanalTypeOK

(* The first and the last request of a connection. *)
LEMMA ConexionTipoInv ==
  ASSUME TipoInv, NEW p \in Procs, AtenderInit(p) \/ Desconectar(p), UNCHANGED cli
  PROVE  SuseTypeOK' /\ CanalTypeOK' /\ Conversacion' /\ EnMarcha'
<1>1. /\ canal' = [canal EXCEPT ![p] = Nulo] /\ canal[p] # Nulo
      /\ pc' \in [Procs -> Puntos]
      /\ pc'[p] \in {"libre", "cerrado"} /\ \A q \in Procs \ {p} : pc'[q] = pc[q]
      /\ UNCHANGED <<listas, multiprog, semaforos, tidsEsperando, locales,
                     miSemaforo, enCurso, caido>>
  BY DEF AtenderInit, Desconectar, Atiende, Sigue, Ir, Enviar, Llego, Puntos,
         TipoInv, TypeOK, SuseTypeOK
<1>2. SuseTypeOK' /\ CanalTypeOK'
  BY <1>1 DEF TipoInv, TypeOK, SuseTypeOK, CanalTypeOK, listas, semaforos, locales, enCurso
<1>3. /\ canal'[p] = Nulo /\ \A q \in Procs \ {p} : canal'[q] = canal[q]
  BY <1>1 DEF TipoInv, TypeOK, CanalTypeOK
<1>4. Conversacion'
  BY <1>1, <1>3 DEF TipoInv, Conversacion, Vacio, Llego
<1>5. EnMarcha'
  BY <1>1 DEF TipoInv, EnMarcha, locales, enCurso
<1>6. QED
  BY <1>2, <1>4, <1>5

LEMMA ServidorTipoInv ==
  ASSUME TipoInv, NEW p \in Procs, Servidor(p)
  PROVE  TipoInv'
<1>1. SuseTypeOK' /\ CanalTypeOK' /\ Conversacion' /\ EnMarcha'
  <2>1. OcupateDeEste(p) /\ UNCHANGED cli
    BY DEF Servidor, hilolayVars
  <2>2. CASE AtenderInit(p) \/ Desconectar(p)
    BY <2>1, <2>2, ConexionTipoInv
  <2>3. CASE Create(p)
    BY <2>1, <2>3, CreateConTipos, CreateConversa
  <2>4. CASE ScheduleNext(p)
    BY <2>1, <2>4, ScheduleNextConTipos, ScheduleNextConversa
  <2>5. CASE Join(p)
    BY <2>1, <2>5, JoinConTipos, JoinConversa
  <2>6. CASE Close(p)
    BY <2>1, <2>6, CloseConTipos, CloseConversa
  <2>7. CASE Wait(p)
    BY <2>1, <2>7, WaitConTipos, WaitConversa
  <2>8. CASE Signal(p)
    BY <2>1, <2>8, SignalConTipos, SignalConversa
  <2>9. QED
    BY <2>1, <2>2, <2>3, <2>4, <2>5, <2>6, <2>7, <2>8 DEF OcupateDeEste
<1>2. HilolayTypeOK'
  BY DEF Servidor, hilolayVars, HilolayTypeOK, TipoInv, TypeOK
<1>3. QED
  BY <1>1, <1>2 DEF TipoInv, TypeOK

(* The library sends only when it has nothing pending, and waits for the     *)
(* reply before it sends again.                                              *)
LEMMA EnviarConversa ==
  ASSUME TipoInv, NEW p \in Procs, NEW m \in Mensajes \cup {Nulo}, NEW estado \in Estados,
         Enviar(p, m), cli' = [cli EXCEPT ![p] = estado], UNCHANGED <<pc, exec, recorrido>>,
         Vacio(p) \/ Llego(p, "RESPUESTA"),
         estado \in {"afuera", "corriendo"} => m = Nulo,
         m # Nulo /\ m.tipo = "CREATE" => m.arg <= UltimoTid[p],
         m # Nulo /\ m.tipo \in {"WAIT", "SIGNAL"} => estado = "pide"
  PROVE  CanalTypeOK' /\ Conversacion' /\ EnMarcha' /\ cli' \in [Procs -> Estados]
<1>1. CanalTypeOK' /\ canal'[p] = m /\ \A q \in Procs \ {p} : canal'[q] = canal[q]
  BY EnviarMensaje DEF TipoInv, TypeOK
<1>2. /\ cli' \in [Procs -> Estados]
      /\ cli'[p] = estado /\ \A q \in Procs \ {p} : cli'[q] = cli[q]
  BY DEF TipoInv, TypeOK, HilolayTypeOK
<1>3. Conversacion'
  <2> SUFFICES ASSUME NEW q \in Procs PROVE Conversacion!(q)'
    BY DEF Conversacion
  <2>1. CASE q = p
    BY <1>1, <1>2, <2>1 DEF TipoInv, Conversacion, Vacio, Llego
  <2>2. CASE q # p
    BY <1>1, <1>2, <2>2 DEF TipoInv, Conversacion, Vacio, Llego
  <2>3. QED
    BY <2>1, <2>2
<1>4. EnMarcha'
  BY DEF TipoInv, EnMarcha
<1>5. QED
  BY <1>1, <1>2, <1>3, <1>4

LEMMA ClienteTipoInv ==
  ASSUME TipoInv, NEW p \in Procs, Cliente(p)
  PROVE  TipoInv'
<1>1. Programa(p) /\ UNCHANGED suseVars
  BY DEF Cliente
<1>2. SuseTypeOK' /\ UNCHANGED <<pc, exec, recorrido>>
  BY <1>1 DEF TipoInv, TypeOK, SuseTypeOK, suseVars, listas, semaforos, locales, enCurso
<1>3. siguienteId \in [Procs -> Nat] /\ actual[p] \in Tids /\ canal \in [Procs -> Mensajes \cup {Nulo}]
  BY TidsDeProceso DEF TipoInv, TypeOK, HilolayTypeOK, CanalTypeOK
<1>4. UltimoTid[p] \in Nat /\ 0..UltimoTid[p] \subseteq Tids /\ 0 \in Tids
  BY TidsDeProceso
<1>5. \E m \in Mensajes \cup {Nulo}, estado \in Estados :
        /\ Enviar(p, m) /\ cli' = [cli EXCEPT ![p] = estado]
        /\ Vacio(p) \/ Llego(p, "RESPUESTA")
        /\ estado \in {"afuera", "corriendo"} => m = Nulo
        /\ m # Nulo /\ m.tipo = "CREATE" => m.arg <= UltimoTid[p]
        /\ m # Nulo /\ m.tipo \in {"WAIT", "SIGNAL"} => estado = "pide"
  <2>1. CASE Iniciar(p)
    <3> DEFINE m == Pedido("INIT", SinArgumento)
    <3>1. m \in Mensajes \cup {Nulo} /\ "conectado" \in Estados
      BY <1>3, <1>4, <2>1, EsMensaje DEF Estados, Iniciar, Pasar
    <3>2. /\ Enviar(p, m) /\ cli' = [cli EXCEPT ![p] = "conectado"]
          /\ Vacio(p) \/ Llego(p, "RESPUESTA")
      BY <2>1 DEF Iniciar, Pasar, TipoInv, Conversacion
    <3>3. /\ "conectado" \in {"afuera", "corriendo"} => m = Nulo
          /\ m # Nulo /\ m.tipo = "CREATE" => m.arg <= UltimoTid[p]
          /\ m # Nulo /\ m.tipo \in {"WAIT", "SIGNAL"} => "conectado" = "pide"
      BY <1>3, <1>4, <2>1 DEF Pedido, Fin, Iniciar, Pasar
    <3> HIDE DEF m
    <3>4. QED
      BY <3>1, <3>2, <3>3
  <2>2. CASE InitInternal(p)
    <3> DEFINE m == Pedido("CREATE", 0)
    <3>1. m \in Mensajes \cup {Nulo} /\ "crea" \in Estados
      BY <1>3, <1>4, <2>2, EsMensaje DEF Estados, InitInternal, Pasar
    <3>2. /\ Enviar(p, m) /\ cli' = [cli EXCEPT ![p] = "crea"]
          /\ Vacio(p) \/ Llego(p, "RESPUESTA")
      BY <2>2 DEF InitInternal, Pasar, TipoInv, Conversacion
    <3>3. /\ "crea" \in {"afuera", "corriendo"} => m = Nulo
          /\ m # Nulo /\ m.tipo = "CREATE" => m.arg <= UltimoTid[p]
          /\ m # Nulo /\ m.tipo \in {"WAIT", "SIGNAL"} => "crea" = "pide"
      BY <1>3, <1>4, <2>2 DEF Pedido, Fin, InitInternal, Pasar
    <3> HIDE DEF m
    <3>4. QED
      BY <3>1, <3>2, <3>3
  <2>3. CASE HilolayCreate(p)
    <3> DEFINE m == Pedido("CREATE", siguienteId[p])
    <3>1. m \in Mensajes \cup {Nulo} /\ "crea" \in Estados
      BY <1>3, <1>4, <2>3, EsMensaje DEF Estados, HilolayCreate, Pedir, Pasar
    <3>2. /\ Enviar(p, m) /\ cli' = [cli EXCEPT ![p] = "crea"]
          /\ Vacio(p) \/ Llego(p, "RESPUESTA")
      BY <2>3 DEF HilolayCreate, Pedir, Pasar, TipoInv, Conversacion
    <3>3. /\ "crea" \in {"afuera", "corriendo"} => m = Nulo
          /\ m # Nulo /\ m.tipo = "CREATE" => m.arg <= UltimoTid[p]
          /\ m # Nulo /\ m.tipo \in {"WAIT", "SIGNAL"} => "crea" = "pide"
      BY <1>3, <1>4, <2>3 DEF Pedido, Fin, HilolayCreate, Pedir, Pasar
    <3> HIDE DEF m
    <3>4. QED
      BY <3>1, <3>2, <3>3
  <2>4. CASE Creado(p)
    <3> DEFINE m == Nulo
    <3>1. m \in Mensajes \cup {Nulo} /\ "corriendo" \in Estados
      BY <1>3, <1>4, <2>4, EsMensaje DEF Estados, Creado, Pasar
    <3>2. /\ Enviar(p, m) /\ cli' = [cli EXCEPT ![p] = "corriendo"]
          /\ Vacio(p) \/ Llego(p, "RESPUESTA")
      BY <2>4 DEF Creado, Pasar, TipoInv, Conversacion
    <3>3. /\ "corriendo" \in {"afuera", "corriendo"} => m = Nulo
          /\ m # Nulo /\ m.tipo = "CREATE" => m.arg <= UltimoTid[p]
          /\ m # Nulo /\ m.tipo \in {"WAIT", "SIGNAL"} => "corriendo" = "pide"
      BY <1>3, <1>4, <2>4 DEF Pedido, Fin, Creado, Pasar
    <3> HIDE DEF m
    <3>4. QED
      BY <3>1, <3>2, <3>3
  <2>5. CASE HilolayYield(p)
    <3> DEFINE m == Pedido("SCHEDULE_NEXT", SinArgumento)
    <3>1. m \in Mensajes \cup {Nulo} /\ "cede" \in Estados
      BY <1>3, <1>4, <2>5, EsMensaje DEF Estados, HilolayYield, Pedir, Pasar
    <3>2. /\ Enviar(p, m) /\ cli' = [cli EXCEPT ![p] = "cede"]
          /\ Vacio(p) \/ Llego(p, "RESPUESTA")
      BY <2>5 DEF HilolayYield, Pedir, Pasar, TipoInv, Conversacion
    <3>3. /\ "cede" \in {"afuera", "corriendo"} => m = Nulo
          /\ m # Nulo /\ m.tipo = "CREATE" => m.arg <= UltimoTid[p]
          /\ m # Nulo /\ m.tipo \in {"WAIT", "SIGNAL"} => "cede" = "pide"
      BY <1>3, <1>4, <2>5 DEF Pedido, Fin, HilolayYield, Pedir, Pasar
    <3> HIDE DEF m
    <3>4. QED
      BY <3>1, <3>2, <3>3
  <2>6. CASE Wrap(p)
    <3> DEFINE m == Pedido("CLOSE", actual[p])
    <3>1. m \in Mensajes \cup {Nulo} /\ "pide" \in Estados
      BY <1>3, <1>4, <2>6, EsMensaje DEF Estados, Wrap, Pedir, Pasar
    <3>2. /\ Enviar(p, m) /\ cli' = [cli EXCEPT ![p] = "pide"]
          /\ Vacio(p) \/ Llego(p, "RESPUESTA")
      BY <2>6 DEF Wrap, Pedir, Pasar, TipoInv, Conversacion
    <3>3. /\ "pide" \in {"afuera", "corriendo"} => m = Nulo
          /\ m # Nulo /\ m.tipo = "CREATE" => m.arg <= UltimoTid[p]
          /\ m # Nulo /\ m.tipo \in {"WAIT", "SIGNAL"} => "pide" = "pide"
      BY <1>3, <1>4, <2>6 DEF Pedido, Fin, Wrap, Pedir, Pasar
    <3> HIDE DEF m
    <3>4. QED
      BY <3>1, <3>2, <3>3
  <2>7. CASE HilolayReturn(p)
    <3> DEFINE m == Pedido("CLOSE", 0)
    <3>1. m \in Mensajes \cup {Nulo} /\ "retorna" \in Estados
      BY <1>3, <1>4, <2>7, EsMensaje DEF Estados, HilolayReturn, Pedir, Pasar
    <3>2. /\ Enviar(p, m) /\ cli' = [cli EXCEPT ![p] = "retorna"]
          /\ Vacio(p) \/ Llego(p, "RESPUESTA")
      BY <2>7 DEF HilolayReturn, Pedir, Pasar, TipoInv, Conversacion
    <3>3. /\ "retorna" \in {"afuera", "corriendo"} => m = Nulo
          /\ m # Nulo /\ m.tipo = "CREATE" => m.arg <= UltimoTid[p]
          /\ m # Nulo /\ m.tipo \in {"WAIT", "SIGNAL"} => "retorna" = "pide"
      BY <1>3, <1>4, <2>7 DEF Pedido, Fin, HilolayReturn, Pedir, Pasar
    <3> HIDE DEF m
    <3>4. QED
      BY <3>1, <3>2, <3>3
  <2>8. CASE \E tid \in Tids : HilolayJoin(p, tid)
    <3> PICK tid \in Tids : HilolayJoin(p, tid)
      BY <2>8
    <3> DEFINE m == Pedido("JOIN", tid)
    <3>1. m \in Mensajes \cup {Nulo} /\ "pide" \in Estados
      BY <1>3, <1>4, <2>8, EsMensaje DEF Estados, HilolayJoin, Pedir, Pasar
    <3>2. /\ Enviar(p, m) /\ cli' = [cli EXCEPT ![p] = "pide"]
          /\ Vacio(p) \/ Llego(p, "RESPUESTA")
      BY <2>8 DEF HilolayJoin, Pedir, Pasar, TipoInv, Conversacion
    <3>3. /\ "pide" \in {"afuera", "corriendo"} => m = Nulo
          /\ m # Nulo /\ m.tipo = "CREATE" => m.arg <= UltimoTid[p]
          /\ m # Nulo /\ m.tipo \in {"WAIT", "SIGNAL"} => "pide" = "pide"
      BY <1>3, <1>4, <2>8 DEF Pedido, Fin, HilolayJoin, Pedir, Pasar
    <3> HIDE DEF m
    <3>4. QED
      BY <3>1, <3>2, <3>3
  <2>9. CASE \E s \in Nombres : HilolayWait(p, s)
    <3> PICK s \in Nombres : HilolayWait(p, s)
      BY <2>9
    <3> DEFINE m == Pedido("WAIT", s)
    <3>1. m \in Mensajes \cup {Nulo} /\ "pide" \in Estados
      BY <1>3, <1>4, <2>9, EsMensaje DEF Estados, HilolayWait, Pedir, Pasar
    <3>2. /\ Enviar(p, m) /\ cli' = [cli EXCEPT ![p] = "pide"]
          /\ Vacio(p) \/ Llego(p, "RESPUESTA")
      BY <2>9 DEF HilolayWait, Pedir, Pasar, TipoInv, Conversacion
    <3>3. /\ "pide" \in {"afuera", "corriendo"} => m = Nulo
          /\ m # Nulo /\ m.tipo = "CREATE" => m.arg <= UltimoTid[p]
          /\ m # Nulo /\ m.tipo \in {"WAIT", "SIGNAL"} => "pide" = "pide"
      BY <1>3, <1>4, <2>9 DEF Pedido, Fin, HilolayWait, Pedir, Pasar
    <3> HIDE DEF m
    <3>4. QED
      BY <3>1, <3>2, <3>3
  <2>10. CASE \E s \in Nombres : HilolaySignal(p, s)
    <3> PICK s \in Nombres : HilolaySignal(p, s)
      BY <2>10
    <3> DEFINE m == Pedido("SIGNAL", s)
    <3>1. m \in Mensajes \cup {Nulo} /\ "pide" \in Estados
      BY <1>3, <1>4, <2>10, EsMensaje DEF Estados, HilolaySignal, Pedir, Pasar
    <3>2. /\ Enviar(p, m) /\ cli' = [cli EXCEPT ![p] = "pide"]
          /\ Vacio(p) \/ Llego(p, "RESPUESTA")
      BY <2>10 DEF HilolaySignal, Pedir, Pasar, TipoInv, Conversacion
    <3>3. /\ "pide" \in {"afuera", "corriendo"} => m = Nulo
          /\ m # Nulo /\ m.tipo = "CREATE" => m.arg <= UltimoTid[p]
          /\ m # Nulo /\ m.tipo \in {"WAIT", "SIGNAL"} => "pide" = "pide"
      BY <1>3, <1>4, <2>10 DEF Pedido, Fin, HilolaySignal, Pedir, Pasar
    <3> HIDE DEF m
    <3>4. QED
      BY <3>1, <3>2, <3>3
  <2>11. CASE Ceder(p)
    <3> DEFINE m == Pedido("SCHEDULE_NEXT", SinArgumento)
    <3>1. m \in Mensajes \cup {Nulo} /\ "cede" \in Estados
      BY <1>3, <1>4, <2>11, EsMensaje DEF Estados, Ceder, Pasar
    <3>2. /\ Enviar(p, m) /\ cli' = [cli EXCEPT ![p] = "cede"]
          /\ Vacio(p) \/ Llego(p, "RESPUESTA")
      BY <2>11 DEF Ceder, Pasar, TipoInv, Conversacion
    <3>3. /\ "cede" \in {"afuera", "corriendo"} => m = Nulo
          /\ m # Nulo /\ m.tipo = "CREATE" => m.arg <= UltimoTid[p]
          /\ m # Nulo /\ m.tipo \in {"WAIT", "SIGNAL"} => "cede" = "pide"
      BY <1>3, <1>4, <2>11 DEF Pedido, Fin, Ceder, Pasar
    <3> HIDE DEF m
    <3>4. QED
      BY <3>1, <3>2, <3>3
  <2>12. CASE SwapContext(p)
    <3> DEFINE m == Nulo
    <3>1. m \in Mensajes \cup {Nulo} /\ "corriendo" \in Estados
      BY <1>3, <1>4, <2>12, EsMensaje DEF Estados, SwapContext, Pasar
    <3>2. /\ Enviar(p, m) /\ cli' = [cli EXCEPT ![p] = "corriendo"]
          /\ Vacio(p) \/ Llego(p, "RESPUESTA")
      BY <2>12 DEF SwapContext, Pasar, TipoInv, Conversacion
    <3>3. /\ "corriendo" \in {"afuera", "corriendo"} => m = Nulo
          /\ m # Nulo /\ m.tipo = "CREATE" => m.arg <= UltimoTid[p]
          /\ m # Nulo /\ m.tipo \in {"WAIT", "SIGNAL"} => "corriendo" = "pide"
      BY <1>3, <1>4, <2>12 DEF Pedido, Fin, SwapContext, Pasar
    <3> HIDE DEF m
    <3>4. QED
      BY <3>1, <3>2, <3>3
  <2>13. CASE Abortar(p)
    <3> DEFINE m == Fin
    <3>1. m \in Mensajes \cup {Nulo} /\ "abortado" \in Estados
      BY <1>3, <1>4, <2>13, EsMensaje DEF Estados, Abortar, Pasar
    <3>2. /\ Enviar(p, m) /\ cli' = [cli EXCEPT ![p] = "abortado"]
          /\ Vacio(p) \/ Llego(p, "RESPUESTA")
      BY <2>13 DEF Abortar, Pasar, TipoInv, Conversacion
    <3>3. /\ "abortado" \in {"afuera", "corriendo"} => m = Nulo
          /\ m # Nulo /\ m.tipo = "CREATE" => m.arg <= UltimoTid[p]
          /\ m # Nulo /\ m.tipo \in {"WAIT", "SIGNAL"} => "abortado" = "pide"
      BY <1>3, <1>4, <2>13 DEF Pedido, Fin, Abortar, Pasar
    <3> HIDE DEF m
    <3>4. QED
      BY <3>1, <3>2, <3>3
  <2>14. CASE Terminar(p)
    <3> DEFINE m == Fin
    <3>1. m \in Mensajes \cup {Nulo} /\ "terminado" \in Estados
      BY <1>3, <1>4, <2>14, EsMensaje DEF Estados, Terminar, Pasar
    <3>2. /\ Enviar(p, m) /\ cli' = [cli EXCEPT ![p] = "terminado"]
          /\ Vacio(p) \/ Llego(p, "RESPUESTA")
      BY <2>14 DEF Terminar, Pasar, TipoInv, Conversacion
    <3>3. /\ "terminado" \in {"afuera", "corriendo"} => m = Nulo
          /\ m # Nulo /\ m.tipo = "CREATE" => m.arg <= UltimoTid[p]
          /\ m # Nulo /\ m.tipo \in {"WAIT", "SIGNAL"} => "terminado" = "pide"
      BY <1>3, <1>4, <2>14 DEF Pedido, Fin, Terminar, Pasar
    <3> HIDE DEF m
    <3>4. QED
      BY <3>1, <3>2, <3>3
  <2>15. QED
    BY <1>1, <2>1, <2>2, <2>3, <2>4, <2>5, <2>6, <2>7, <2>8, <2>9, <2>10, <2>11, <2>12, <2>13, <2>14 DEF Programa
<1>6. CanalTypeOK' /\ Conversacion' /\ EnMarcha' /\ cli' \in [Procs -> Estados]
  BY <1>2, <1>5, EnviarConversa
<1>7. /\ actual' \in [Procs -> Tids \cup {0}]
      /\ siguienteId' \in [Procs -> Nat]
      /\ tomados' \in [Hilos -> SUBSET Cerrojos]
  <2> USE DEF TipoInv, TypeOK, HilolayTypeOK
  <2>1. CASE HilolayCreate(p)
    BY <2>1 DEF HilolayCreate
  <2>2. CASE \E s \in Nombres : HilolayWait(p, s) \/ HilolaySignal(p, s)
    BY <2>2 DEF HilolayWait, HilolaySignal
  <2>3. CASE SwapContext(p)
    <3>1. canal[p] \in Mensajes /\ canal[p].tipo = "RESPUESTA"
      BY <1>3, <2>3 DEF SwapContext, Llego
    <3>2. canal[p].arg \in Tids \cup {-1, 0}
      BY <3>1, ArgumentoDeMensaje
    <3>3. canal[p].arg \in Tids \cup {0}
      BY <1>3, <2>3, <3>2 DEF SwapContext, Conoce
    <3>4. QED
      BY <2>3, <3>3 DEF SwapContext
  <2>4. CASE UNCHANGED <<actual, siguienteId, tomados>>
    BY <2>4
  <2>5. QED
    BY <1>1, <2>1, <2>2, <2>3, <2>4
    DEF Programa, Iniciar, InitInternal, Creado, HilolayYield, HilolayJoin, Wrap,
        HilolayReturn, Ceder, Abortar, Terminar
<1>8. QED
  BY <1>2, <1>6, <1>7 DEF TipoInv, TypeOK, HilolayTypeOK

LEMMA TipoInvSePreserva == TipoInv /\ [Next]_vars => TipoInv'
<1> SUFFICES ASSUME TipoInv, [Next]_vars PROVE TipoInv'
  OBVIOUS
<1>1. CASE Next
  BY <1>1, ServidorTipoInv, ClienteTipoInv DEF Next
<1>2. CASE UNCHANGED vars
  BY <1>2 DEF vars, suseVars, hilolayVars, listas, semaforos, locales, enCurso,
      TipoInv, TypeOK, CanalTypeOK, SuseTypeOK, HilolayTypeOK, Conversacion,
      EnMarcha, Vacio, Llego
<1>3. QED
  BY <1>1, <1>2

THEOREM TipoInvariante == Spec => []TipoInv
<1>1. QED
  BY TipoInvInicial, TipoInvSePreserva, PTL DEF Spec

(* Every variable of SUSE and of the library keeps the type of its C         *)
(* declaration, with any number of processes, threads and semaphores.        *)
THEOREM TipoCorrecto == Spec => []TypeOK
<1>1. TipoInv => TypeOK
  BY DEF TipoInv
<1>2. QED
  BY <1>1, TipoInvariante, PTL

-----------------------------------------------------------------------------
(* The handler's own semaphore.  It is only taken between the reply of a     *)
(* SIGNAL and the SCHEDULE_NEXT of the yield that follows.                   *)

LocalInv ==
  \A p \in Procs : miSemaforo[p] = 0 =>
    \/ cli[p] = "pide" /\ Llego(p, "RESPUESTA")
    \/ cli[p] = "cede" /\ Llego(p, "SCHEDULE_NEXT")

LEMMA LocalInvInicial == Init => LocalInv
  BY DEF Init, SuseInit, LocalInv

(* The other requests neither take it nor release it. *)
LEMMA SinLocal ==
  ASSUME TipoInv, NEW p \in Procs,
         AtenderInit(p) \/ Create(p) \/ Join(p) \/ Close(p) \/ Wait(p) \/ Desconectar(p)
  PROVE  /\ UNCHANGED miSemaforo
         /\ canal[p] # Nulo /\ canal[p].tipo \notin {"RESPUESTA", "SCHEDULE_NEXT"}
<1> USE DEF TipoInv, Conversacion, Llego, Sigue, Atiende, Caer
<1>1. CASE AtenderInit(p) \/ Desconectar(p)
  BY <1>1 DEF AtenderInit, Desconectar
<1>2. CASE Create(p)
  BY <1>2 DEF Create, AtenderCreate, CreateHayLugar, CreateQuedaEnNew, CreateAdmitido
<1>3. CASE Join(p)
  BY <1>3 DEF Join, JoinDespacha, JoinDescuenta, JoinArrastra, JoinSaltea, JoinVuelve,
     JoinEncuentra, JoinSigueBuscando, JoinEncuentraBlocked, JoinNoEncuentra, JoinBloquea,
     JoinEspera, JoinBusca
<1>4. CASE Close(p)
  BY <1>4 DEF Close, AtenderClose, CloseNoEjecuta, CloseDespierta, CloseLibera, CloseAdmite,
     CloseSinNuevos, CloseDescuenta
<1>5. CASE Wait(p)
  BY <1>5 DEF Wait, WaitPasa, WaitBloquea, WaitCae, WaitDesconocido, AtiendeSemaforo
<1>6. QED
  BY <1>1, <1>2, <1>3, <1>4, <1>5

LEMMA ServidorLocalInv ==
  ASSUME TipoInv, LocalInv, NEW p \in Procs, Servidor(p)
  PROVE  LocalInv'
<1>1. OcupateDeEste(p) /\ UNCHANGED cli
  BY DEF Servidor, hilolayVars
<1>2. miSemaforo \in [Procs -> 0..TopeLocal] /\ canal \in [Procs -> Mensajes \cup {Nulo}]
  BY DEF TipoInv, TypeOK, SuseTypeOK, CanalTypeOK
<1>3. CASE SigueElMismo(p) \/ PlanificaOtro(p)
  <2>1. Liberar(p) /\ \E v : Enviar(p, Respuesta(v))
    BY <1>3 DEF SigueElMismo, PlanificaOtro, Responder
  <2>2. /\ miSemaforo'[p] # 0
        /\ \A q \in Procs \ {p} : miSemaforo'[q] = miSemaforo[q] /\ canal'[q] = canal[q]
    BY <1>2, <2>1, SuseSupuesto DEF Liberar, Enviar
  <2>3. QED
    BY <1>1, <2>2 DEF LocalInv, Llego
<1>4. CASE PlanificaCae(p)
  BY <1>1, <1>4 DEF PlanificaCae, Caer, LocalInv, Llego
<1>5. CASE Signal(p)
  <2>1. /\ Tomar(p) /\ Enviar(p, Respuesta(0))
        /\ Llego(p, "SIGNAL")
    BY <1>5 DEF Signal, SignalSube, SignalTraba, SignalDespierta, SignalSinPropios,
       SignalDesconocido, AtiendeSemaforo, Atiende, Responder
  <2>2. cli[p] = "pide"
    BY <2>1 DEF TipoInv, Conversacion
  <2>3. Respuesta(0) # Nulo /\ Respuesta(0).tipo = "RESPUESTA"
    BY EsMensaje, NuloSupuesto DEF Respuesta
  <2>4. /\ canal'[p] = Respuesta(0)
        /\ \A q \in Procs \ {p} : miSemaforo'[q] = miSemaforo[q] /\ canal'[q] = canal[q]
    BY <1>2, <2>1 DEF Enviar, Tomar
  <2>5. QED
    BY <1>1, <2>2, <2>3, <2>4 DEF LocalInv, Llego
<1>6. CASE AtenderInit(p) \/ Create(p) \/ Join(p) \/ Close(p) \/ Wait(p) \/ Desconectar(p)
  <2>1. /\ UNCHANGED miSemaforo
        /\ canal[p] # Nulo /\ canal[p].tipo \notin {"RESPUESTA", "SCHEDULE_NEXT"}
    BY <1>6, SinLocal
  <2>2. miSemaforo[p] # 0
    BY <2>1 DEF LocalInv, Llego
  <2>3. \A q \in Procs \ {p} : canal'[q] = canal[q]
    BY <1>1, OtrosCanales
  <2>4. QED
    BY <1>1, <2>1, <2>2, <2>3 DEF LocalInv, Llego
<1>7. QED
  BY <1>1, <1>3, <1>4, <1>5, <1>6 DEF OcupateDeEste, ScheduleNext

LEMMA ClienteLocalInv ==
  ASSUME TipoInv, LocalInv, NEW p \in Procs, Cliente(p)
  PROVE  LocalInv'
<1>1. Programa(p) /\ UNCHANGED miSemaforo
  BY DEF Cliente, suseVars
<1>2. canal \in [Procs -> Mensajes \cup {Nulo}] /\ cli \in [Procs -> Estados]
  BY DEF TipoInv, TypeOK, CanalTypeOK, HilolayTypeOK
<1>3. CASE Ceder(p)
  <2>1. Pedido("SCHEDULE_NEXT", SinArgumento) \in Mensajes \ {Nulo}
    BY EsMensaje, NuloSupuesto
  <2>2. /\ canal'[p] = Pedido("SCHEDULE_NEXT", SinArgumento) /\ cli'[p] = "cede"
        /\ \A q \in Procs \ {p} : canal'[q] = canal[q] /\ cli'[q] = cli[q]
    BY <1>2, <1>3 DEF Ceder, Pasar, Enviar
  <2>3. QED
    BY <1>1, <2>1, <2>2 DEF LocalInv, Llego, Pedido
<1>4. CASE ~Ceder(p)
  <2>1. /\ Vacio(p) \/ (Llego(p, "RESPUESTA") /\ cli[p] # "pide")
        /\ \A q \in Procs \ {p} : canal'[q] = canal[q] /\ cli'[q] = cli[q]
    BY <1>1, <1>2, <1>4
    DEF Programa, Iniciar, InitInternal, HilolayCreate, Creado, HilolayYield,
        HilolayJoin, HilolayWait, HilolaySignal, Wrap, HilolayReturn, SwapContext,
        Abortar, Terminar, Pedir, Pasar, Enviar, TipoInv, Conversacion
  <2>2. miSemaforo[p] # 0
    BY <2>1 DEF LocalInv, Vacio, Llego
  <2>3. QED
    BY <1>1, <2>1, <2>2 DEF LocalInv, Llego
<1>5. QED
  BY <1>3, <1>4

(* Whatever the programs do, a WAIT or a SIGNAL finds its handler's own      *)
(* semaphore free, and never stops there.                                    *)
THEOREM LocalSiempreLibre == Spec => []LocalLibre
<1>1. TipoInv /\ LocalInv /\ [Next]_vars => LocalInv'
  <2> SUFFICES ASSUME TipoInv, LocalInv, [Next]_vars PROVE LocalInv'
    OBVIOUS
  <2>1. CASE Next
    BY <2>1, ServidorLocalInv, ClienteLocalInv DEF Next
  <2>2. CASE UNCHANGED vars
    BY <2>2 DEF vars, suseVars, hilolayVars, LocalInv, Llego
  <2>3. QED
    BY <2>1, <2>2
<1>2. TipoInv /\ LocalInv => LocalLibre
  <2> SUFFICES ASSUME TipoInv, LocalInv, NEW p \in Procs,
                      Llego(p, "WAIT") \/ Llego(p, "SIGNAL")
               PROVE  miSemaforo[p] > 0
    BY DEF LocalLibre
  <2>1. miSemaforo[p] # 0
    BY DEF LocalInv, Llego
  <2>2. miSemaforo[p] \in 0..TopeLocal
    BY DEF TipoInv, TypeOK, SuseTypeOK
  <2>3. QED
    BY <2>1, <2>2, SuseSupuesto
<1>3. QED
  BY <1>1, <1>2, LocalInvInicial, TipoInvariante, PTL DEF Spec

-----------------------------------------------------------------------------
(* The value and the queue of a semaphore.                                   *)

(* WAIT and SIGNAL are the only requests that touch a semaphore. *)
LEMMA SemaforosQuietos ==
  ASSUME NEW p \in Procs, OcupateDeEste(p), ~Wait(p), ~Signal(p)
  PROVE  UNCHANGED <<valor, colaDeBloqueo>>
<1> USE DEF semaforos
<1>1. CASE AtenderInit(p) \/ Desconectar(p)
  BY <1>1 DEF AtenderInit, Desconectar
<1>2. CASE Create(p) \/ ScheduleNext(p)
  BY <1>2 DEF Create, AtenderCreate, CreateHayLugar, CreateQuedaEnNew, CreateAdmitido,
     ScheduleNext, SigueElMismo, PlanificaOtro, PlanificaCae, Caer
<1>3. CASE Join(p)
  BY <1>3 DEF Join, JoinDespacha, JoinDescuenta, JoinArrastra, JoinSaltea, JoinVuelve,
     JoinEncuentra, JoinSigueBuscando, JoinEncuentraBlocked, JoinNoEncuentra, JoinBloquea
<1>4. CASE Close(p)
  BY <1>4 DEF Close, AtenderClose, CloseNoEjecuta, CloseDespierta, CloseLibera, CloseAdmite,
     CloseSinNuevos, CloseDescuenta
<1>5. QED
  BY <1>1, <1>2, <1>3, <1>4 DEF OcupateDeEste

(* What each request does to the value and the queue of one semaphore.  The  *)
(* thread a signal wakes is the first of the signalling process.             *)
Cambio(s) ==
  \/ UNCHANGED <<valor[s], colaDeBloqueo[s]>>
  \/ /\ valor[s] > 0 /\ valor'[s] = valor[s] - 1
     /\ UNCHANGED colaDeBloqueo[s]
  \/ /\ valor[s] <= 0 /\ valor'[s] = valor[s] - 1
     /\ \E t \in Hilos : colaDeBloqueo'[s] = Append(colaDeBloqueo[s], t)
  \/ /\ valor[s] > 0 /\ valor[s] < SemMax[s] /\ valor'[s] = valor[s] + 1
     /\ UNCHANGED colaDeBloqueo[s]
  \/ /\ valor[s] <= 0 /\ valor'[s] = valor[s] + 1
     /\ \E p \in Procs : \E i \in Primeros(colaDeBloqueo[s], HilosDe(p)) :
          colaDeBloqueo'[s] = RemoveAt(colaDeBloqueo[s], i)
  \/ /\ valor[s] <= 0 /\ valor'[s] = valor[s] + 1
     /\ \E p \in Procs : ~HayPropio(p, colaDeBloqueo[s])
     /\ UNCHANGED colaDeBloqueo[s]

LEMMA PasoDeSemaforo ==
  ASSUME TipoInv, [Next]_vars, NEW s \in Sems
  PROVE  Cambio(s)
<1>1. /\ valor \in [Sems -> Int] /\ colaDeBloqueo \in [Sems -> Seq(Hilos)]
      /\ exec \in [Procs -> Hilos \cup {Nulo}]
  BY DEF TipoInv, TypeOK, SuseTypeOK
<1>2. CASE UNCHANGED <<valor, colaDeBloqueo>>
  BY <1>2 DEF Cambio
<1>3. ASSUME NEW p \in Procs, Wait(p) PROVE Cambio(s)
  <2>1. CASE WaitPasa(p)
    BY <1>1, <2>1 DEF WaitPasa, HayUnidades, Cambio
  <2>2. CASE WaitBloquea(p)
    <3> DEFINE r == canal[p].arg
    <3>1. /\ r \in Sems /\ valor[r] <= 0 /\ exec[p] \in Hilos
          /\ valor' = [valor EXCEPT ![r] = @ - 1]
          /\ colaDeBloqueo' = [colaDeBloqueo EXCEPT ![r] = Append(@, exec[p])]
      BY <1>1, <2>2 DEF WaitBloquea, HayUnidades
    <3> HIDE DEF r
    <3>2. CASE r = s
      BY <1>1, <3>1, <3>2 DEF Cambio
    <3>3. CASE r # s
      BY <1>1, <3>1, <3>3 DEF Cambio
    <3>4. QED
      BY <3>2, <3>3
  <2>3. CASE WaitCae(p) \/ WaitDesconocido(p)
    BY <2>3 DEF WaitCae, WaitDesconocido, Caer, semaforos, Cambio
  <2>4. QED
    BY <1>3, <2>1, <2>2, <2>3 DEF Wait
<1>4. ASSUME NEW p \in Procs, Signal(p) PROVE Cambio(s)
  <2>1. CASE SignalSube(p)
    BY <1>1, <2>1 DEF SignalSube, HayUnidades, Cambio
  <2>2. CASE SignalDespierta(p)
    <3> DEFINE r == canal[p].arg
    <3>1. PICK i \in Primeros(colaDeBloqueo[r], HilosDe(p)) :
            colaDeBloqueo' = [colaDeBloqueo EXCEPT ![r] = RemoveAt(@, i)]
      BY <2>2 DEF SignalDespierta
    <3>2. /\ r \in Sems /\ valor[r] <= 0
          /\ valor' = [valor EXCEPT ![r] = @ + 1]
      BY <1>1, <2>2 DEF SignalDespierta, HayUnidades
    <3> HIDE DEF r
    <3>3. CASE r = s
      <4>1. valor[s] <= 0 /\ valor'[s] = valor[s] + 1
        BY <1>1, <3>2, <3>3
      <4>2. colaDeBloqueo'[s] = RemoveAt(colaDeBloqueo[s], i)
        BY <1>1, <3>1, <3>3
      <4>3. i \in Primeros(colaDeBloqueo[s], HilosDe(p))
        BY <3>1, <3>3
      <4>4. QED
        BY <1>4, <4>1, <4>2, <4>3 DEF Cambio
    <3>4. CASE r # s
      BY <1>1, <3>1, <3>2, <3>4 DEF Cambio
    <3>5. QED
      BY <3>3, <3>4
  <2>3. CASE SignalSinPropios(p)
    <3> DEFINE r == canal[p].arg
    <3>1. /\ r \in Sems /\ valor[r] <= 0 /\ ~HayPropio(p, colaDeBloqueo[r])
          /\ valor' = [valor EXCEPT ![r] = @ + 1]
          /\ UNCHANGED colaDeBloqueo
      BY <1>1, <2>3 DEF SignalSinPropios, HayUnidades
    <3> HIDE DEF r
    <3>2. CASE r = s
      BY <1>1, <1>4, <3>1, <3>2 DEF Cambio
    <3>3. CASE r # s
      BY <1>1, <3>1, <3>3 DEF Cambio
    <3>4. QED
      BY <3>2, <3>3
  <2>4. CASE SignalTraba(p) \/ SignalDesconocido(p)
    BY <2>4 DEF SignalTraba, SignalDesconocido, semaforos, Cambio
  <2>5. QED
    BY <1>4, <2>1, <2>2, <2>3, <2>4 DEF Signal
<1>5. QED
  BY <1>2, <1>3, <1>4, SemaforosQuietos DEF Next, Servidor, Cliente, vars, suseVars, semaforos

(* The queue after a signal: one shorter. *)
LEMMA DespertarAcorta ==
  ASSUME TipoInv, NEW s \in Sems, NEW p \in Procs,
         NEW i \in Primeros(colaDeBloqueo[s], HilosDe(p))
  PROVE  /\ i \in 1..Len(colaDeBloqueo[s])
         /\ Len(colaDeBloqueo[s]) \in Nat
         /\ Len(RemoveAt(colaDeBloqueo[s], i)) = Len(colaDeBloqueo[s]) - 1
<1>1. colaDeBloqueo[s] \in Seq(Hilos)
  BY DEF TipoInv, TypeOK, SuseTypeOK
<1>2. i \in 1..Len(colaDeBloqueo[s])
  BY <1>1 DEF Primeros
<1>3. QED
  BY <1>1, <1>2, QuitarEnLista

LEMMA ValorAcotadoSePreserva ==
  ASSUME TipoInv, ValorAcotado, [Next]_vars
  PROVE  ValorAcotado'
<1> SUFFICES ASSUME NEW s \in Sems
             PROVE  valor'[s] <= SemMax[s] /\ Len(colaDeBloqueo'[s]) >= -valor'[s]
  BY DEF ValorAcotado
<1> DEFINE v == valor[s]
           n == Len(colaDeBloqueo[s])
           m == SemMax[s]
<1>1. v \in Int /\ n \in Nat /\ m \in Nat /\ m >= 1 /\ v <= m /\ n >= -v
  BY SuseSupuesto DEF TipoInv, TypeOK, SuseTypeOK, ValorAcotado
<1>2. Cambio(s)
  BY PasoDeSemaforo
<1>3. CASE UNCHANGED <<valor[s], colaDeBloqueo[s]>>
  BY <1>1, <1>3
<1>4. CASE valor'[s] = v - 1 /\ v > 0 /\ UNCHANGED colaDeBloqueo[s]
  BY <1>1, <1>4
<1>5. ASSUME NEW t \in Hilos, valor'[s] = v - 1, v <= 0,
             colaDeBloqueo'[s] = Append(colaDeBloqueo[s], t)
      PROVE  valor'[s] <= SemMax[s] /\ Len(colaDeBloqueo'[s]) >= -valor'[s]
  <2>1. Len(colaDeBloqueo'[s]) = n + 1
    BY <1>5, AppendProperties DEF TipoInv, TypeOK, SuseTypeOK
  <2> HIDE DEF n, v, m
  <2>2. QED
    BY <1>1, <1>5, <2>1 DEF m
<1>6. CASE valor'[s] = v + 1 /\ v < m /\ UNCHANGED colaDeBloqueo[s]
  BY <1>1, <1>6
<1>7. ASSUME NEW p \in Procs, NEW i \in Primeros(colaDeBloqueo[s], HilosDe(p)),
             valor'[s] = v + 1, v <= 0, colaDeBloqueo'[s] = RemoveAt(colaDeBloqueo[s], i)
      PROVE  valor'[s] <= SemMax[s] /\ Len(colaDeBloqueo'[s]) >= -valor'[s]
  <2>1. Len(colaDeBloqueo'[s]) = n - 1
    BY <1>7, DespertarAcorta
  <2> HIDE DEF n, v, m
  <2>2. QED
    BY <1>1, <1>7, <2>1 DEF m
<1>8. CASE valor'[s] = v + 1 /\ v <= 0 /\ UNCHANGED colaDeBloqueo[s]
  BY <1>1, <1>8
<1>9. QED
  BY <1>2, <1>3, <1>4, <1>5, <1>6, <1>7, <1>8 DEF Cambio

(* No semaphore goes over its maximum, and no unit is taken without a thread *)
(* in the queue to account for it, whoever shares it.                        *)
THEOREM ValorSiempreAcotado == Spec => []ValorAcotado
<1>1. Init => ValorAcotado
  BY SuseSupuesto, EmptySeq DEF Init, SuseInit, ValorAcotado
<1>2. QED
  BY <1>1, ValorAcotadoSePreserva, TipoInvariante, PTL DEF Spec

-----------------------------------------------------------------------------
(* A lone process.                                                           *)

(* Every queued thread is of the process, so a signal finds the first.       *)
LEMMA DespertarAlPrimero ==
  ASSUME UnSoloProceso, TipoInv, NEW s \in Sems, NEW p \in Procs
  PROVE  /\ HayPropio(p, colaDeBloqueo[s]) <=> colaDeBloqueo[s] # <<>>
         /\ \A i \in Primeros(colaDeBloqueo[s], HilosDe(p)) :
              colaDeBloqueo[s] # <<>> /\ RemoveAt(colaDeBloqueo[s], i) = Tail(colaDeBloqueo[s])
<1> DEFINE c == colaDeBloqueo[s]
<1>1. c \in Seq(Hilos)
  BY DEF TipoInv, TypeOK, SuseTypeOK
<1>2. \A j \in 1..Len(c) : c[j] \in HilosDe(p)
  BY <1>1, TidDeHilo DEF UnSoloProceso, HilosDe
<1>3. HayPropio(p, c) <=> c # <<>>
  BY <1>1, <1>2 DEF HayPropio
<1>4. ASSUME NEW i \in Primeros(c, HilosDe(p))
      PROVE  c # <<>> /\ RemoveAt(c, i) = Tail(c)
  <2>1. i \in 1..Len(c) /\ \A j \in 1..(i-1) : c[j] \notin HilosDe(p)
    BY <1>1 DEF Primeros
  <2>2. i = 1
    BY <1>1, <1>2, <2>1
  <2>3. c # <<>> /\ Len(c) \in Nat
    BY <1>1, <2>1
  <2>4. RemoveAt(c, 1) = <<>> \o SubSeq(c, 2, Len(c))
    BY SubSeqEmpty DEF RemoveAt
  <2>5. SubSeq(c, 2, Len(c)) \in Seq(Hilos)
    BY <1>1, SubSeqProperties
  <2>6. RemoveAt(c, 1) = SubSeq(c, 2, Len(c))
    BY <2>4, <2>5, ConcatEmptySeq
  <2>7. Tail(c) = SubSeq(c, 2, Len(c))
    BY <1>1, <2>3, TailIsSubSeq
  <2>8. QED
    BY <2>2, <2>3, <2>6, <2>7
<1>5. QED
  BY <1>3, <1>4

(* What a change of a semaphore does when there is one process: the value    *)
(* and the length of the queue stay in step, and the change is one of the    *)
(* abstract semaphore.                                                       *)
LEMMA CambioDeUnSoloProceso ==
  ASSUME UnSoloProceso, TipoInv, NEW s \in Sems, Cambio(s),
         Len(colaDeBloqueo[s]) = Negado(valor[s])
  PROVE  /\ Len(colaDeBloqueo'[s]) = Negado(valor'[s])
         /\ Semaforo(s)!Paso
<1> DEFINE v == valor[s]
           c == colaDeBloqueo[s]
           w == valor'[s]
           d == colaDeBloqueo'[s]
<1> USE DEF Semaforo!Paso, Semaforo!Next, Semaforo!Pasar, Semaforo!Bloquear,
            Semaforo!Despertar, Semaforo!Subir, Negado
<1>1. /\ v \in Int /\ c \in Seq(Hilos) /\ Len(c) \in Nat
      /\ SemMax[s] \in Nat \ {0}
      /\ Len(c) = IF v < 0 THEN -v ELSE 0
      /\ c = <<>> <=> Len(c) = 0
  BY SuseSupuesto, EmptySeq DEF TipoInv, TypeOK, SuseTypeOK
<1>2. CASE UNCHANGED <<valor[s], colaDeBloqueo[s]>>
  BY <1>2
<1>3. CASE v > 0 /\ w = v - 1 /\ d = c
  BY <1>1, <1>3
<1>4. ASSUME NEW t \in Hilos, v <= 0, w = v - 1, d = Append(c, t)
      PROVE  Len(d) = Negado(w) /\ Semaforo(s)!Paso
  <2>1. Len(d) = Len(c) + 1
    BY <1>1, <1>4, AppendProperties
  <2>2. v + Negado(v) = 0 /\ w + Negado(w) = 0 /\ Len(d) = Negado(w)
    BY <1>1, <1>4, <2>1
  <2>3. QED
    BY <1>4, <2>2
<1>5. CASE v > 0 /\ v < SemMax[s] /\ w = v + 1 /\ d = c
  BY <1>1, <1>5
<1>6. ASSUME NEW p \in Procs, NEW i \in Primeros(c, HilosDe(p)),
             v <= 0, w = v + 1, d = RemoveAt(c, i)
      PROVE  Len(d) = Negado(w) /\ Semaforo(s)!Paso
  <2>1. c # <<>> /\ d = Tail(c)
    BY <1>6, DespertarAlPrimero
  <2>2. Len(d) = Len(c) - 1
    BY <1>1, <2>1, HeadTailProperties
  <2>3. v + Negado(v) = 0 /\ w + Negado(w) = 0 /\ Len(d) = Negado(w)
    BY <1>1, <1>6, <2>1, <2>2
  <2>4. QED
    BY <2>1, <2>3
<1>7. ASSUME NEW p \in Procs, v <= 0, w = v + 1, ~HayPropio(p, c), d = c
      PROVE  Len(d) = Negado(w) /\ Semaforo(s)!Paso
  <2>1. c = <<>>
    BY <1>7, DespertarAlPrimero
  <2>2. v = 0
    BY <1>1, <1>7, <2>1
  <2>3. QED
    BY <1>1, <1>7, <2>1, <2>2
<1>8. QED
  BY <1>2, <1>3, <1>4, <1>5, <1>6, <1>7 DEF Cambio

LEMMA SemaforoCuadraInicial == Init => SemaforoCuadra
  BY SuseSupuesto, EmptySeq DEF Init, SuseInit, SemaforoCuadra, Negado

LEMMA SemaforoCuadraSePreserva ==
  ASSUME UnSoloProceso, TipoInv, SemaforoCuadra, [Next]_vars
  PROVE  SemaforoCuadra' /\ \A s \in Sems : Semaforo(s)!Paso
<1>1. ASSUME NEW s \in Sems
      PROVE  Len(colaDeBloqueo'[s]) = Negado(valor'[s]) /\ Semaforo(s)!Paso
  BY PasoDeSemaforo, CambioDeUnSoloProceso DEF SemaforoCuadra
<1>2. QED
  BY <1>1 DEF SemaforoCuadra, Negado

(* With one process, a negative value counts exactly the threads of the      *)
(* queue, and a thread only waits while there are no units.                  *)
THEOREM SemaforoCuadraConUno == UnSoloProceso => (Spec => []SemaforoCuadra)
<1> SUFFICES ASSUME UnSoloProceso PROVE Spec => []SemaforoCuadra
  OBVIOUS
<1>1. TipoInv /\ SemaforoCuadra /\ [Next]_vars => SemaforoCuadra'
  BY SemaforoCuadraSePreserva
<1>2. QED
  BY <1>1, SemaforoCuadraInicial, TipoInvariante, PTL DEF Spec

(* With one process, wait and signal implement the bounded counting          *)
(* semaphore: units are taken and given one by one, never over the maximum,  *)
(* and the threads are woken in order of arrival.                            *)
THEOREM SemaforoImplementado == UnSoloProceso => (Spec => EsSemaforo)
<1> SUFFICES ASSUME UnSoloProceso PROVE Spec => EsSemaforo
  OBVIOUS
<1>1. Init => \A s \in Sems : Semaforo(s)!Init
  BY SuseSupuesto DEF Init, SuseInit, Semaforo!Init, Negado
<1>2. TipoInv /\ SemaforoCuadra /\ [Next]_vars => [\A s \in Sems : Semaforo(s)!Paso]_vars
  BY SemaforoCuadraSePreserva
<1>3. Spec => []SemaforoCuadra
  BY SemaforoCuadraConUno
<1>4. QED
  BY <1>1, <1>2, <1>3, TipoInvariante, PTL DEF Spec, EsSemaforo

-----------------------------------------------------------------------------
(* The turns of a connection.                                                *)

EnCreate == {"create", "create_admitido"}
EnJoin   == {"join_descontar", "join_arrastrar", "join_blocked", "join_bloquear"}
EnClose  == {"close_despertar", "close_admitir", "close_descontar"}
Fuera    == {"terminado", "abortado"}

(* The program waits for what it asked for. *)
Espera(p) ==
  /\ cli[p] = "crea"    => Llego(p, "CREATE") \/ Llego(p, "RESPUESTA")
  /\ cli[p] = "cede"    => Llego(p, "SCHEDULE_NEXT") \/ Llego(p, "RESPUESTA")
  /\ cli[p] = "retorna" => Llego(p, "CLOSE") \/ Llego(p, "RESPUESTA")
  /\ cli[p] = "pide"    => \/ Llego(p, "JOIN") \/ Llego(p, "CLOSE") \/ Llego(p, "WAIT")
                           \/ Llego(p, "SIGNAL") \/ Llego(p, "RESPUESTA")

(* The handler is where the message it has says. *)
EnSuLugar(p) ==
  /\ cli[p] = "afuera"    => pc[p] = "nuevo" /\ Vacio(p)
  /\ cli[p] = "conectado" => (pc[p] = "nuevo" /\ Llego(p, "INIT")) \/ (pc[p] = "libre" /\ Vacio(p))
  /\ cli[p] = "corriendo" => pc[p] = "libre" /\ Vacio(p)
  /\ cli[p] \in Fuera     => (pc[p] = "libre" /\ Llego(p, "FIN")) \/ (pc[p] = "cerrado" /\ Vacio(p))
  /\ Llego(p, "CREATE")   => pc[p] \in EnCreate \cup {"libre"}
  /\ Llego(p, "JOIN")     => pc[p] \in EnJoin \cup {"libre"}
  /\ Llego(p, "CLOSE")    => pc[p] \in EnClose \cup {"libre"}
  /\ Llego(p, "WAIT") \/ Llego(p, "SIGNAL") \/ Llego(p, "SCHEDULE_NEXT") \/ Llego(p, "RESPUESTA")
       => pc[p] = "libre"

Turno == \A p \in Procs : Espera(p) /\ EnSuLugar(p)

LEMMA TurnoInicial == Init => Turno
  BY DEF Init, CanalInit, SuseInit, HilolayInit, Turno, Espera, EnSuLugar, Vacio, Llego, Fuera

(* What a step of a handler does to its connection. *)
Responde(p) ==
  /\ canal[p] # Nulo /\ canal[p].tipo \notin {"INIT", "FIN", "RESPUESTA"}
  /\ pc'[p] = "libre"
  /\ \E v \in Tids \cup {-1, 0} : canal'[p] = Respuesta(v)
Avanza(p, op, puntos) ==
  Llego(p, op) /\ canal'[p] = canal[p] /\ pc'[p] \in puntos \cup {"libre"}
EfectoEnTurno(p) ==
  \/ canal'[p] = canal[p] /\ pc'[p] = pc[p]
  \/ Llego(p, "INIT") /\ pc[p] = "nuevo" /\ canal'[p] = Nulo /\ pc'[p] = "libre"
  \/ Llego(p, "FIN") /\ pc[p] = "libre" /\ canal'[p] = Nulo /\ pc'[p] = "cerrado"
  \/ Responde(p)
  \/ Avanza(p, "CREATE", EnCreate) \/ Avanza(p, "JOIN", EnJoin) \/ Avanza(p, "CLOSE", EnClose)

LEMMA ResponderEfecto ==
  ASSUME TipoInv, NEW p \in Procs, NEW v \in Tids \cup {-1, 0}, Responder(p, v),
         canal[p] # Nulo, canal[p].tipo \notin {"INIT", "FIN", "RESPUESTA"}
  PROVE  Responde(p)
  BY DEF Responder, Responde, Enviar, Ir, TipoInv, TypeOK, CanalTypeOK, SuseTypeOK

LEMMA CreateEfecto ==
  ASSUME TipoInv, NEW p \in Procs, Create(p)
  PROVE  EfectoEnTurno(p)
<1> USE DEF Sigue, Atiende, Ir, EnCreate, Avanza, TipoInv, TypeOK, SuseTypeOK
<1>1. CASE AtenderCreate(p) \/ CreateHayLugar(p)
  BY <1>1 DEF AtenderCreate, CreateHayLugar, EfectoEnTurno, Conversacion
<1>2. CASE CreateQuedaEnNew(p) \/ CreateAdmitido(p)
  <2>1. Llego(p, "CREATE") /\ Responder(p, 0)
    BY <1>2 DEF CreateQuedaEnNew, CreateAdmitido, Conversacion
  <2>2. Responde(p)
    BY <2>1, ResponderEfecto DEF Llego
  <2>3. QED
    BY <2>2 DEF EfectoEnTurno
<1>3. QED
  BY <1>1, <1>2 DEF Create

LEMMA ScheduleNextEfecto ==
  ASSUME TipoInv, NEW p \in Procs, ScheduleNext(p)
  PROVE  EfectoEnTurno(p)
<1>1. CASE PlanificaCae(p)
  BY <1>1 DEF PlanificaCae, Caer, EfectoEnTurno
<1>2. CASE SigueElMismo(p)
  <2>1. PICK v \in Tids \cup {-1, 0} : Responder(p, v)
    BY <1>2, TidDeHilo DEF SigueElMismo, TipoInv, TypeOK, SuseTypeOK
  <2>2. QED
    BY <1>2, <2>1, ResponderEfecto DEF SigueElMismo, Atiende, Llego, EfectoEnTurno
<1>3. CASE PlanificaOtro(p)
  <2>1. PICK i \in DOMAIN ready[p] : Responder(p, Tid(ready[p][i])) /\ ready[p][i] # Nulo
    BY <1>3 DEF PlanificaOtro, TieneNulo, Range
  <2>2. ready[p][i] \in Hilos
    BY <2>1 DEF TipoInv, TypeOK, SuseTypeOK
  <2>3. Tid(ready[p][i]) \in Tids
    BY <2>2, TidDeHilo
  <2>4. QED
    BY <1>3, <2>1, <2>3, ResponderEfecto DEF PlanificaOtro, Atiende, Llego, EfectoEnTurno
<1>4. QED
  BY <1>1, <1>2, <1>3 DEF ScheduleNext

LEMMA JoinEfecto ==
  ASSUME TipoInv, NEW p \in Procs, Join(p)
  PROVE  EfectoEnTurno(p)
<1> USE DEF Sigue, Atiende, Ir, EnJoin, Avanza, TipoInv, TypeOK, SuseTypeOK
<1>1. CASE JoinDespacha(p) \/ JoinDescuenta(p) \/ JoinArrastra(p) \/ JoinSaltea(p) \/ JoinVuelve(p)
  BY <1>1 DEF JoinDespacha, JoinEspera, JoinDescuenta, JoinArrastra, JoinSaltea, JoinVuelve,
     EfectoEnTurno, Conversacion
<1>2. CASE JoinEncuentra(p) \/ JoinSigueBuscando(p) \/ JoinEncuentraBlocked(p)
  BY <1>2 DEF JoinEncuentra, JoinSigueBuscando, JoinEncuentraBlocked, JoinBusca, EfectoEnTurno,
     Conversacion
<1>3. CASE JoinNoEncuentra(p) \/ JoinBloquea(p)
  <2>1. Llego(p, "JOIN") /\ Responder(p, 0)
    BY <1>3 DEF JoinNoEncuentra, JoinBloquea, Conversacion
  <2>2. Responde(p)
    BY <2>1, ResponderEfecto DEF Llego
  <2>3. QED
    BY <2>2 DEF EfectoEnTurno
<1>4. QED
  BY <1>1, <1>2, <1>3 DEF Join

LEMMA CloseEfecto ==
  ASSUME TipoInv, NEW p \in Procs, Close(p)
  PROVE  EfectoEnTurno(p)
<1> USE DEF Sigue, Atiende, Ir, EnClose, Avanza, TipoInv, TypeOK, SuseTypeOK
<1>1. CASE AtenderClose(p) \/ CloseDespierta(p) \/ CloseLibera(p) \/ CloseAdmite(p)
  BY <1>1 DEF AtenderClose, CloseDespierta, CloseLibera, CloseAdmite, EfectoEnTurno, Conversacion
<1>2. CASE CloseNoEjecuta(p) \/ CloseSinNuevos(p) \/ CloseDescuenta(p)
  <2>1. Llego(p, "CLOSE") /\ Responder(p, 0)
    BY <1>2 DEF CloseNoEjecuta, CloseSinNuevos, CloseDescuenta, Conversacion
  <2>2. Responde(p)
    BY <2>1, ResponderEfecto DEF Llego
  <2>3. QED
    BY <2>2 DEF EfectoEnTurno
<1>3. QED
  BY <1>1, <1>2 DEF Close

LEMMA WaitYSignalEfecto ==
  ASSUME TipoInv, NEW p \in Procs, Wait(p) \/ Signal(p)
  PROVE  EfectoEnTurno(p)
<1>1. CASE WaitCae(p)
  BY <1>1 DEF WaitCae, Caer, EfectoEnTurno
<1>2. CASE ~WaitCae(p)
  <2>1. Llego(p, "WAIT") \/ Llego(p, "SIGNAL")
    BY <1>2 DEF Wait, WaitPasa, WaitBloquea, WaitDesconocido,
       Signal, SignalSube, SignalTraba, SignalDespierta, SignalSinPropios, SignalDesconocido,
       AtiendeSemaforo, Atiende
  <2>2. Responder(p, 0)
    BY <1>2 DEF Wait, WaitPasa, WaitBloquea, WaitDesconocido,
       Signal, SignalSube, SignalTraba, SignalDespierta, SignalSinPropios, SignalDesconocido
  <2>3. QED
    BY <2>1, <2>2, ResponderEfecto DEF Llego, EfectoEnTurno
<1>3. QED
  BY <1>1, <1>2

(* The handlers of the others keep what is theirs. *)
LEMMA OtrosLocales ==
  ASSUME TipoInv, NEW p \in Procs, OcupateDeEste(p), NEW q \in Procs \ {p}
  PROVE  pc'[q] = pc[q] /\ ready'[q] = ready[q] /\ exec'[q] = exec[q]
<1>1. UNCHANGED pc \/ \E x : pc' = [pc EXCEPT ![p] = x]
  BY DEF OcupateDeEste, AtenderInit, Desconectar, Create, ScheduleNext, Join, Close, Wait, Signal,
     AtenderCreate, CreateHayLugar, CreateQuedaEnNew, CreateAdmitido,
     SigueElMismo, PlanificaOtro, PlanificaCae,
     JoinDespacha, JoinDescuenta, JoinArrastra, JoinSaltea, JoinVuelve, JoinEncuentra,
     JoinSigueBuscando, JoinEncuentraBlocked, JoinNoEncuentra, JoinBloquea,
     AtenderClose, CloseNoEjecuta, CloseDespierta, CloseLibera, CloseAdmite,
     CloseSinNuevos, CloseDescuenta, WaitPasa, WaitBloquea, WaitCae, WaitDesconocido,
     SignalSube, SignalTraba, SignalDespierta, SignalSinPropios, SignalDesconocido,
     Responder, Sigue, Ir, Caer
<1>2. UNCHANGED ready \/ \E x : ready' = [ready EXCEPT ![p] = x]
  BY DEF OcupateDeEste, AtenderInit, Desconectar, Create, ScheduleNext, Join, Close, Wait, Signal,
     AtenderCreate, CreateHayLugar, CreateQuedaEnNew, CreateAdmitido,
     SigueElMismo, PlanificaOtro, PlanificaCae,
     JoinDespacha, JoinDescuenta, JoinArrastra, JoinSaltea, JoinVuelve, JoinEncuentra,
     JoinSigueBuscando, JoinEncuentraBlocked, JoinNoEncuentra, JoinBloquea,
     AtenderClose, CloseNoEjecuta, CloseDespierta, CloseLibera, CloseAdmite,
     CloseSinNuevos, CloseDescuenta, WaitPasa, WaitBloquea, WaitCae, WaitDesconocido,
     SignalSube, SignalTraba, SignalDespierta, SignalSinPropios, SignalDesconocido,
     locales, Caer
<1>3. UNCHANGED exec \/ \E x : exec' = [exec EXCEPT ![p] = x]
  BY DEF OcupateDeEste, AtenderInit, Desconectar, Create, ScheduleNext, Join, Close, Wait, Signal,
     AtenderCreate, CreateHayLugar, CreateQuedaEnNew, CreateAdmitido,
     SigueElMismo, PlanificaOtro, PlanificaCae,
     JoinDespacha, JoinDescuenta, JoinArrastra, JoinSaltea, JoinVuelve, JoinEncuentra,
     JoinSigueBuscando, JoinEncuentraBlocked, JoinNoEncuentra, JoinBloquea,
     AtenderClose, CloseNoEjecuta, CloseDespierta, CloseLibera, CloseAdmite,
     CloseSinNuevos, CloseDescuenta, WaitPasa, WaitBloquea, WaitCae, WaitDesconocido,
     SignalSube, SignalTraba, SignalDespierta, SignalSinPropios, SignalDesconocido,
     locales, Caer
<1>4. QED
  BY <1>1, <1>2, <1>3 DEF TipoInv, TypeOK, SuseTypeOK

LEMMA ServidorTurno ==
  ASSUME TipoInv, Turno, NEW p \in Procs, Servidor(p)
  PROVE  Turno'
<1>1. OcupateDeEste(p) /\ UNCHANGED cli
  BY DEF Servidor, hilolayVars
<1>2. EfectoEnTurno(p)
  <2>1. CASE AtenderInit(p) \/ Desconectar(p)
    BY <2>1 DEF AtenderInit, Desconectar, Sigue, Atiende, Ir, Enviar, EfectoEnTurno,
       TipoInv, TypeOK, CanalTypeOK, SuseTypeOK
  <2>2. QED
    BY <1>1, <2>1, CreateEfecto, ScheduleNextEfecto, JoinEfecto, CloseEfecto, WaitYSignalEfecto
    DEF OcupateDeEste
<1>3. ASSUME NEW q \in Procs \ {p} PROVE Espera(q)' /\ EnSuLugar(q)'
  <2>1. canal'[q] = canal[q] /\ pc'[q] = pc[q] /\ cli'[q] = cli[q]
    BY <1>1, OtrosCanales, OtrosLocales
  <2>2. QED
    BY <2>1 DEF Turno, Espera, EnSuLugar, Llego, Vacio
<1>4. cli[p] \in Estados /\ cli'[p] = cli[p]
  BY <1>1 DEF TipoInv, TypeOK, HilolayTypeOK
<1>5. Espera(p)' /\ EnSuLugar(p)'
  <2>1. CASE canal'[p] = canal[p] /\ pc'[p] = pc[p]
    BY <1>4, <2>1 DEF Turno, Espera, EnSuLugar, Llego, Vacio
  <2>2. CASE Llego(p, "INIT") /\ pc[p] = "nuevo" /\ canal'[p] = Nulo /\ pc'[p] = "libre"
    BY <1>4, <2>2 DEF Turno, Espera, EnSuLugar, Llego, Vacio, Fuera
  <2>3. CASE Llego(p, "FIN") /\ pc[p] = "libre" /\ canal'[p] = Nulo /\ pc'[p] = "cerrado"
    BY <1>4, <2>3 DEF Turno, Espera, EnSuLugar, Llego, Vacio, Fuera
  <2>4. CASE Responde(p)
    <3>1. Llego(p, "RESPUESTA")' /\ canal'[p] # Nulo /\ canal'[p].tipo = "RESPUESTA"
      BY <2>4, EsMensaje, NuloSupuesto DEF Responde, Respuesta, Llego
    <3>2. QED
      BY <1>4, <2>4, <3>1
      DEF Responde, Turno, Espera, EnSuLugar, Llego, Vacio, Fuera
  <2>5. CASE Avanza(p, "CREATE", EnCreate) \/ Avanza(p, "JOIN", EnJoin) \/ Avanza(p, "CLOSE", EnClose)
    BY <1>4, <2>5 DEF Avanza, Turno, Espera, EnSuLugar, Llego, Vacio, Fuera
  <2>6. QED
    BY <1>2, <2>1, <2>2, <2>3, <2>4, <2>5 DEF EfectoEnTurno
<1>6. QED
  BY <1>3, <1>5 DEF Turno

(* What a step of a program does: what it was at and what it had received, and what *)
(* it is at and what it has sent.                                              *)
Va(p, desde, recibe, hasta, manda) ==
  /\ cli[p] = desde /\ cli'[p] = hasta
  /\ IF recibe = "nada" THEN Vacio(p) ELSE Llego(p, recibe)
  /\ IF manda = "nada" THEN Vacio(p)' ELSE Llego(p, manda)'

PideCreate(p) ==
  /\ Va(p, "corriendo", "nada", "crea", "CREATE")
  /\ canal'[p].arg = siguienteId[p] /\ siguienteId'[p] = siguienteId[p] + 1
PideOtro(p) ==
  \/ Va(p, "corriendo", "nada", "cede", "SCHEDULE_NEXT")
  \/ Va(p, "corriendo", "nada", "pide", "JOIN")
  \/ Va(p, "corriendo", "nada", "pide", "WAIT")
  \/ Va(p, "corriendo", "nada", "pide", "SIGNAL")
  \/ Va(p, "corriendo", "nada", "pide", "CLOSE")
  \/ Va(p, "corriendo", "nada", "retorna", "CLOSE")
Recibe(p) ==
  \/ Va(p, "crea", "RESPUESTA", "corriendo", "nada")
  \/ Va(p, "pide", "RESPUESTA", "cede", "SCHEDULE_NEXT")
  \/ Va(p, "cede", "RESPUESTA", "corriendo", "nada") /\ Conoce(p, canal[p].arg)
  \/ Va(p, "cede", "RESPUESTA", "abortado", "FIN")
  \/ Va(p, "retorna", "RESPUESTA", "terminado", "FIN")
EfectoCliente(p) ==
  \/ Va(p, "afuera", "nada", "conectado", "INIT") /\ siguienteId'[p] = siguienteId[p]
  \/ /\ Va(p, "conectado", "nada", "crea", "CREATE")
     /\ canal'[p].arg = 0 /\ siguienteId'[p] = siguienteId[p]
  \/ PideCreate(p)
  \/ PideOtro(p) /\ siguienteId'[p] = siguienteId[p]
  \/ Recibe(p) /\ siguienteId'[p] = siguienteId[p]

LEMMA MandarMensaje ==
  ASSUME TipoInv, NEW p \in Procs, NEW desde, NEW hasta, NEW recibe, NEW op, NEW arg,
         Pasar(p, desde, hasta), Enviar(p, Pedido(op, arg)), Pedido(op, arg) \in Mensajes,
         op # "nada", IF recibe = "nada" THEN Vacio(p) ELSE Llego(p, recibe)
  PROVE  Va(p, desde, recibe, hasta, op) /\ canal'[p].arg = arg
<1>1. canal'[p] = Pedido(op, arg) /\ cli'[p] = hasta /\ cli[p] = desde
  BY DEF TipoInv, TypeOK, CanalTypeOK, HilolayTypeOK, Enviar, Pasar
<1>2. Pedido(op, arg) # Nulo /\ Pedido(op, arg).tipo = op /\ Pedido(op, arg).arg = arg
  BY NuloSupuesto DEF Pedido
<1>3. Llego(p, op)'
  BY <1>1, <1>2 DEF Llego
<1>4. QED
  BY <1>1, <1>2, <1>3 DEF Va

LEMMA PedirMensaje ==
  ASSUME TipoInv, NEW p \in Procs, NEW hasta, NEW op, NEW arg,
         Pedir(p, op, arg, hasta), Pedido(op, arg) \in Mensajes, op # "nada"
  PROVE  Va(p, "corriendo", "nada", hasta, op) /\ canal'[p].arg = arg
<1>1. Pasar(p, "corriendo", hasta) /\ Enviar(p, Pedido(op, arg))
  BY DEF Pedir
<1>2. Vacio(p)
  BY <1>1 DEF Pasar, TipoInv, Conversacion
<1>3. QED
  BY <1>1, <1>2, MandarMensaje

LEMMA ClienteEfecto ==
  ASSUME TipoInv, Turno, NEW p \in Procs, Cliente(p)
  PROVE  /\ EfectoCliente(p)
         /\ \A q \in Procs \ {p} :
              cli'[q] = cli[q] /\ canal'[q] = canal[q] /\ siguienteId'[q] = siguienteId[q]
<1>1. Programa(p)
  BY DEF Cliente
<1>2. /\ cli \in [Procs -> Estados] /\ canal \in [Procs -> Mensajes \cup {Nulo}]
      /\ siguienteId \in [Procs -> Nat] /\ actual \in [Procs -> Tids \cup {0}]
  BY DEF TipoInv, TypeOK, CanalTypeOK, HilolayTypeOK
<1>3. cli[p] \in {"afuera", "corriendo"} => Vacio(p)
  BY DEF TipoInv, Conversacion
<1>4. 0 \in Tids /\ 0..UltimoTid[p] \subseteq Tids /\ UltimoTid[p] \in Nat
  BY TidsDeProceso
<1>5. \A q \in Procs \ {p} : cli'[q] = cli[q] /\ canal'[q] = canal[q] /\ siguienteId'[q] = siguienteId[q]
  BY <1>1, <1>2
  DEF Programa, Iniciar, InitInternal, HilolayCreate, Creado, HilolayYield,
      HilolayJoin, HilolayWait, HilolaySignal, Wrap, HilolayReturn, Ceder, SwapContext,
      Abortar, Terminar, Pedir, Pasar, Enviar
<1> SUFFICES EfectoCliente(p)
  BY <1>5
<1>6. CASE Iniciar(p)
  <2>1. Va(p, "afuera", "nada", "conectado", "INIT")
    <3>1. Pasar(p, "afuera", "conectado") /\ Enviar(p, Pedido("INIT", SinArgumento))
      BY <1>6 DEF Iniciar
    <3>2. Vacio(p)
      BY <1>3, <3>1 DEF Pasar
    <3>3. QED
      BY <3>1, <3>2, EsMensaje, MandarMensaje
  <2>2. QED
    BY <1>6, <2>1 DEF Iniciar, EfectoCliente
<1>7. CASE InitInternal(p)
  <2>1. /\ Pasar(p, "conectado", "crea") /\ Vacio(p) /\ Enviar(p, Pedido("CREATE", 0))
        /\ Pedido("CREATE", 0) \in Mensajes
    BY <1>4, <1>7, EsMensaje DEF InitInternal
  <2>2. Va(p, "conectado", "nada", "crea", "CREATE") /\ canal'[p].arg = 0
    BY <2>1, MandarMensaje
  <2>3. QED
    BY <1>7, <2>2 DEF InitInternal, EfectoCliente
<1>8. CASE HilolayCreate(p)
  <2>1. siguienteId[p] \in Tids
    BY <1>2, <1>4, <1>8 DEF HilolayCreate
  <2>2. Va(p, "corriendo", "nada", "crea", "CREATE") /\ canal'[p].arg = siguienteId[p]
    BY <1>8, <2>1, EsMensaje, PedirMensaje DEF HilolayCreate
  <2>3. QED
    BY <1>2, <1>8, <2>2 DEF HilolayCreate, EfectoCliente, PideCreate
<1>9. CASE HilolayYield(p)
  <2>1. Va(p, "corriendo", "nada", "cede", "SCHEDULE_NEXT")
    BY <1>9, EsMensaje, PedirMensaje DEF HilolayYield
  <2>2. QED
    BY <1>9, <2>1 DEF HilolayYield, EfectoCliente, PideOtro
<1>10. CASE Wrap(p) \/ HilolayReturn(p)
  <2>1. actual[p] \in Tids
    BY <1>2, <1>4
  <2>2. /\ Pedido("CLOSE", actual[p]) \in Mensajes
        /\ Pedido("CLOSE", 0) \in Mensajes
    BY <1>4, <2>1, EsMensaje
  <2>3. Va(p, "corriendo", "nada", "pide", "CLOSE") \/ Va(p, "corriendo", "nada", "retorna", "CLOSE")
    BY <1>10, <2>2, PedirMensaje DEF Wrap, HilolayReturn
  <2>4. QED
    BY <1>10, <2>3 DEF Wrap, HilolayReturn, EfectoCliente, PideOtro
<1>11. ASSUME NEW tid \in Tids, HilolayJoin(p, tid) PROVE EfectoCliente(p)
  <2>1. Va(p, "corriendo", "nada", "pide", "JOIN")
    BY <1>11, EsMensaje, PedirMensaje DEF HilolayJoin
  <2>2. QED
    BY <1>11, <2>1 DEF HilolayJoin, EfectoCliente, PideOtro
<1>12. ASSUME NEW s \in Nombres, HilolayWait(p, s) PROVE EfectoCliente(p)
  <2>1. Va(p, "corriendo", "nada", "pide", "WAIT")
    BY <1>12, EsMensaje, PedirMensaje DEF HilolayWait
  <2>2. QED
    BY <1>12, <2>1 DEF HilolayWait, EfectoCliente, PideOtro
<1>13. ASSUME NEW s \in Nombres, HilolaySignal(p, s) PROVE EfectoCliente(p)
  <2>1. Va(p, "corriendo", "nada", "pide", "SIGNAL")
    BY <1>13, EsMensaje, PedirMensaje DEF HilolaySignal
  <2>2. QED
    BY <1>13, <2>1 DEF HilolaySignal, EfectoCliente, PideOtro
<1>14. CASE Ceder(p)
  <2>1. Va(p, "pide", "RESPUESTA", "cede", "SCHEDULE_NEXT")
    <3>1. /\ Pasar(p, "pide", "cede") /\ Llego(p, "RESPUESTA")
          /\ Enviar(p, Pedido("SCHEDULE_NEXT", SinArgumento))
      BY <1>14 DEF Ceder
    <3>2. QED
      BY <3>1, EsMensaje, MandarMensaje
  <2>2. QED
    BY <1>14, <2>1 DEF Ceder, EfectoCliente, Recibe
<1>15. CASE Creado(p) \/ SwapContext(p)
  <2>1. Vacio(p)' /\ cli'[p] = "corriendo"
    BY <1>2, <1>15 DEF Creado, SwapContext, Pasar, Enviar, Vacio
  <2>2. QED
    BY <1>15, <2>1 DEF Creado, SwapContext, Pasar, Va, EfectoCliente, Recibe
<1>16. CASE Abortar(p) \/ Terminar(p)
  <2>1. Fin \in Mensajes /\ Fin = Pedido("FIN", SinArgumento)
    BY EsMensaje DEF Fin, Pedido
  <2>2. Va(p, "cede", "RESPUESTA", "abortado", "FIN") \/ Va(p, "retorna", "RESPUESTA", "terminado", "FIN")
    BY <1>16, <2>1, MandarMensaje DEF Abortar, Terminar
  <2>3. QED
    BY <1>16, <2>2 DEF Abortar, Terminar, EfectoCliente, Recibe
<1>17. QED
  BY <1>1, <1>5, <1>6, <1>7, <1>8, <1>9, <1>10, <1>11, <1>12, <1>13, <1>14, <1>15, <1>16
  DEF Programa

LEMMA ClienteTurno ==
  ASSUME TipoInv, Turno, NEW p \in Procs, Cliente(p)
  PROVE  Turno'
<1>1. UNCHANGED pc
  BY DEF Cliente, suseVars
<1>2. EfectoCliente(p)
  BY ClienteEfecto
<1>3. ASSUME NEW q \in Procs \ {p} PROVE Espera(q)' /\ EnSuLugar(q)'
  BY <1>1, ClienteEfecto DEF Turno, Espera, EnSuLugar, Llego, Vacio
<1>4. pc[p] = IF cli[p] = "afuera" THEN "nuevo" ELSE "libre"
  BY <1>2 DEF EfectoCliente, PideCreate, PideOtro, Recibe, Va, Turno, EnSuLugar, Vacio, Llego
<1>5. Espera(p)' /\ EnSuLugar(p)'
  BY <1>1, <1>2, <1>4
  DEF EfectoCliente, PideCreate, PideOtro, Recibe, Va, Espera, EnSuLugar, Vacio, Llego, Fuera
<1>6. QED
  BY <1>3, <1>5 DEF Turno

LEMMA TurnoSePreserva == TipoInv /\ Turno /\ [Next]_vars => Turno'
<1> SUFFICES ASSUME TipoInv, Turno, [Next]_vars PROVE Turno'
  OBVIOUS
<1>1. CASE Next
  BY <1>1, ServidorTurno, ClienteTurno DEF Next
<1>2. CASE UNCHANGED vars
  BY <1>2 DEF vars, suseVars, hilolayVars, Turno, Espera, EnSuLugar, Vacio, Llego
<1>3. QED
  BY <1>1, <1>2

-----------------------------------------------------------------------------
(* What the operations on lists keep.                                        *)

LEMMA RangoAgregar ==
  ASSUME NEW S, NEW lista \in Seq(S), NEW x
  PROVE  Range(Append(lista, x)) = Range(lista) \cup {x}
<1>1. /\ DOMAIN Append(lista, x) = 1..(Len(lista) + 1) /\ DOMAIN lista = 1..Len(lista)
      /\ Len(lista) \in Nat /\ Append(lista, x)[Len(lista) + 1] = x
      /\ \A i \in 1..Len(lista) : Append(lista, x)[i] = lista[i]
  <2>1. lista \in Seq(S \cup {x})
    OBVIOUS
  <2>2. QED
    BY <2>1, AppendProperties
<1>2. \A i \in 1..(Len(lista) + 1) : i \in 1..Len(lista) \/ i = Len(lista) + 1
  BY <1>1
<1>3. \A i \in 1..Len(lista) : i \in 1..(Len(lista) + 1)
  BY <1>1
<1>4. Len(lista) + 1 \in 1..(Len(lista) + 1)
  BY <1>1
<1>5. QED
  BY <1>1, <1>2, <1>3, <1>4 DEF Range

(* What is after the position removed moves one back. *)
LEMMA QuitarPosicion ==
  ASSUME NEW S, NEW lista \in Seq(S), NEW i \in 1..Len(lista)
  PROVE  /\ DOMAIN RemoveAt(lista, i) = 1..(Len(lista) - 1)
         /\ \A j \in 1..(Len(lista) - 1) :
              RemoveAt(lista, i)[j] = IF j <= i - 1 THEN lista[j] ELSE lista[j + 1]
<1> DEFINE n     == Len(lista)
           antes == SubSeq(lista, 1, i-1)
           resto == SubSeq(lista, i+1, n)
           todo  == antes \o resto
<1>1. n \in Nat /\ i \in 1..n /\ DOMAIN lista = 1..n
  OBVIOUS
<1>2. /\ antes \in Seq(S) /\ Len(antes) = i - 1
      /\ \A j \in 1..(i-1) : antes[j] = lista[j]
  BY SubSeqProperties
<1>3. /\ resto \in Seq(S) /\ Len(resto) = n - i
      /\ \A j \in 1..(n-i) : resto[j] = lista[i + j]
  BY SubSeqProperties
<1> HIDE DEF antes, resto, n
<1>4. /\ Len(todo) = n - 1 /\ DOMAIN todo = 1..(n-1)
      /\ \A j \in 1..(n-1) : todo[j] = IF j <= i - 1 THEN antes[j] ELSE resto[j - (i-1)]
  <2>1. /\ todo \in Seq(S) /\ Len(todo) = Len(antes) + Len(resto)
        /\ \A j \in 1..(Len(antes) + Len(resto)) :
             todo[j] = IF j <= Len(antes) THEN antes[j] ELSE resto[j - Len(antes)]
    BY <1>2, <1>3, ConcatProperties
  <2>2. Len(antes) + Len(resto) = n - 1
    BY <1>1, <1>2, <1>3
  <2>3. DOMAIN todo = 1..Len(todo)
    BY <2>1
  <2> HIDE DEF todo
  <2>4. QED
    BY <1>2, <2>1, <2>2, <2>3
<1>5. \A j \in 1..(n-1) : todo[j] = IF j <= i - 1 THEN lista[j] ELSE lista[j + 1]
  <2> SUFFICES ASSUME NEW j \in 1..(n-1)
               PROVE  todo[j] = IF j <= i - 1 THEN lista[j] ELSE lista[j + 1]
    OBVIOUS
  <2>1. CASE j <= i - 1
    <3>1. j \in 1..(i-1)
      BY <1>1, <2>1
    <3>2. QED
      BY <1>2, <1>4, <2>1, <3>1
  <2>2. CASE ~(j <= i - 1)
    <3>1. j - (i-1) \in 1..(n-i) /\ i + (j - (i-1)) = j + 1
      BY <1>1, <2>2
    <3>2. QED
      BY <1>3, <1>4, <2>2, <3>1
  <2>3. QED
    BY <2>1, <2>2
<1>6. RemoveAt(lista, i) = todo
  BY DEF RemoveAt, antes, resto, n
<1> HIDE DEF todo
<1>7. QED
  BY <1>4, <1>5, <1>6 DEF n

LEMMA RangoQuitar ==
  ASSUME NEW S, NEW lista \in Seq(S), NEW i \in 1..Len(lista)
  PROVE  /\ \A x \in Range(lista) : x = lista[i] \/ x \in Range(RemoveAt(lista, i))
         /\ Range(RemoveAt(lista, i)) \subseteq Range(lista)
<1> DEFINE n    == Len(lista)
           todo == RemoveAt(lista, i)
<1>1. n \in Nat /\ i \in 1..n /\ DOMAIN lista = 1..n
  OBVIOUS
<1>2. /\ DOMAIN todo = 1..(n-1)
      /\ \A j \in 1..(n-1) : todo[j] = IF j <= i - 1 THEN lista[j] ELSE lista[j + 1]
  BY QuitarPosicion
<1> HIDE DEF todo, n
<1>3. ASSUME NEW k \in 1..n PROVE k = i \/ \E j \in 1..(n-1) : todo[j] = lista[k]
  <2>1. CASE k < i
    <3>1. k \in 1..(n-1) /\ k <= i - 1
      BY <1>1, <2>1
    <3>2. QED
      BY <1>2, <3>1
  <2>2. CASE k > i
    <3>1. k - 1 \in 1..(n-1) /\ ~(k - 1 <= i - 1) /\ (k - 1) + 1 = k
      BY <1>1, <2>2
    <3>2. todo[k - 1] = lista[k]
      BY <1>2, <3>1
    <3>3. QED
      BY <3>1, <3>2
  <2>3. QED
    BY <1>1, <2>1, <2>2
<1>4. ASSUME NEW j \in 1..(n-1) PROVE \E k \in 1..n : todo[j] = lista[k]
  <2>1. j \in 1..n /\ j + 1 \in 1..n
    BY <1>1
  <2>2. QED
    BY <1>2, <2>1
<1>5. Range(lista) = {lista[k] : k \in 1..n} /\ Range(todo) = {todo[j] : j \in 1..(n-1)}
  BY <1>1, <1>2 DEF Range
<1>6. QED
  BY <1>3, <1>4, <1>5 DEF todo

LEMMA RangoSin ==
  ASSUME NEW S, NEW lista \in Seq(S), NEW t, NEW r \in Sin(lista, t)
  PROVE  \A x \in Range(lista) : x = t \/ x \in Range(r)
<1>1. CASE t \in Range(lista)
  <2>1. PICK i \in Primeros(lista, {t}) : r = RemoveAt(lista, i)
    BY <1>1 DEF Sin
  <2>2. i \in 1..Len(lista) /\ lista[i] = t
    BY <2>1, PrimerosEnLista
  <2>3. QED
    BY <2>1, <2>2, RangoQuitar
<1>2. CASE t \notin Range(lista)
  BY <1>2 DEF Sin
<1>3. QED
  BY <1>1, <1>2

(* The sort of New keeps all its threads. *)
LEMMA RangoOrden ==
  ASSUME NEW S, NEW lista \in Seq(S), NEW orden \in Ordenamientos(lista)
  PROVE  Range(orden) = Range(lista)
<1>1. PICK f \in Bijection(DOMAIN lista, DOMAIN lista) : orden = [i \in DOMAIN lista |-> lista[f[i]]]
  BY DEF Ordenamientos
<1>2. f \in [DOMAIN lista -> DOMAIN lista] /\ \A j \in DOMAIN lista : \E i \in DOMAIN lista : f[i] = j
  BY DEF Bijection, Injection, Surjection
<1>3. QED
  BY <1>1, <1>2 DEF Range

-----------------------------------------------------------------------------
(* No thread is lost.                                                        *)

(* A thread that leaves Exec for good is in Exit. *)
CierraEnExit == \A p \in Procs : pc[p] = "close_despertar" => exec[p] \in Range(estadoExit)

LEMMA TiposDeListas ==
  ASSUME TipoInv, NEW p \in Procs
  PROVE  /\ estadoNew \in Seq(Hilos) /\ estadoBlocked \in Seq(Hilos) /\ estadoExit \in Seq(Hilos)
         /\ ready \in [Procs -> Seq(Hilos \cup {Nulo})] /\ ready[p] \in Seq(Hilos \cup {Nulo})
         /\ exec \in [Procs -> Hilos \cup {Nulo}] /\ pc \in [Procs -> Puntos]
         /\ Nulo \notin Hilos
  BY NuloSupuesto DEF TipoInv, TypeOK, SuseTypeOK

(* A step that only adds to the lists, and leaves Exec as it is, loses nothing. *)
LEMMA ListasCrecen ==
  ASSUME TipoInv, NEW p \in Procs, UNCHANGED exec,
         Range(estadoNew) \subseteq Range(estadoNew)',
         Range(estadoBlocked) \subseteq Range(estadoBlocked)',
         Range(estadoExit) \subseteq Range(estadoExit)',
         Range(ready[p]) \subseteq Range(ready[p])'
  PROVE  Lugares(p) \subseteq Lugares(p)'
  BY DEF Lugares

LEMMA CreateNoPierde ==
  ASSUME TipoInv, NEW p \in Procs, Create(p)
  PROVE  \A t \in Hilos : t \in Lugares(p) => t \in Lugares(p)'
<1>1. CASE AtenderCreate(p)
  <2>1. Range(estadoNew) \subseteq Range(estadoNew)'
    BY <1>1, TiposDeListas, RangoAgregar DEF AtenderCreate
  <2>2. QED
    BY <1>1, <2>1, ListasCrecen DEF AtenderCreate, locales
<1>2. CASE CreateHayLugar(p) \/ CreateQuedaEnNew(p)
  BY <1>2 DEF CreateHayLugar, CreateQuedaEnNew, listas, locales, Lugares
<1>3. CASE CreateAdmitido(p)
  <2> DEFINE u == <<p, canal[p].arg>>
  <2>1. estadoNew' \in Sin(estadoNew, u) /\ UNCHANGED <<estadoBlocked, estadoExit>>
    BY <1>3 DEF CreateAdmitido
  <2>2. \A t \in Range(estadoNew) : t = u \/ t \in Range(estadoNew)'
    BY <2>1, TiposDeListas, RangoSin
  <2>3. \/ exec[p] # Nulo /\ ready' = [ready EXCEPT ![p] = Append(@, u)] /\ UNCHANGED exec
        \/ exec[p] = Nulo /\ exec' = [exec EXCEPT ![p] = u] /\ UNCHANGED ready
    BY <1>3 DEF CreateAdmitido
  <2> HIDE DEF u
  <2>4. u \in Lugares(p)' /\ Range(ready[p]) \subseteq Range(ready[p])'
        /\ exec[p] \in {Nulo, exec'[p]}
    <3>1. Range(Append(ready[p], u)) = Range(ready[p]) \cup {u}
      BY TiposDeListas, RangoAgregar
    <3>2. QED
      BY <2>3, <3>1, TiposDeListas DEF Lugares
  <2>5. QED
    BY <2>1, <2>2, <2>4, TiposDeListas DEF Lugares
<1>4. QED
  BY <1>1, <1>2, <1>3 DEF Create

LEMMA ScheduleNextNoPierde ==
  ASSUME TipoInv, NEW p \in Procs, ScheduleNext(p)
  PROVE  \A t \in Hilos : t \in Lugares(p) => t \in Lugares(p)'
<1>1. CASE SigueElMismo(p) \/ PlanificaCae(p)
  BY <1>1 DEF SigueElMismo, PlanificaCae, Caer, listas, locales, Lugares
<1>2. CASE PlanificaOtro(p)
  <2>1. PICK i \in DOMAIN ready[p] :
          /\ exec' = [exec EXCEPT ![p] = ready[p][i]]
          /\ ready' = [ready EXCEPT ![p] =
                         IF exec[p] = Nulo THEN RemoveAt(@, i) ELSE Append(RemoveAt(@, i), exec[p])]
    BY <1>2 DEF PlanificaOtro
  <2>2. UNCHANGED <<estadoNew, estadoBlocked, estadoExit>>
    BY <1>2 DEF PlanificaOtro, listas
  <2>3. i \in 1..Len(ready[p])
    BY TiposDeListas
  <2> DEFINE r == RemoveAt(ready[p], i)
  <2>4. \A x \in Range(ready[p]) : x = ready[p][i] \/ x \in Range(r)
    BY <2>3, TiposDeListas, RangoQuitar
  <2>5. r \in Seq(Hilos \cup {Nulo})
    BY <2>3, TiposDeListas, QuitarEnLista
  <2> HIDE DEF r
  <2>6. Range(Append(r, exec[p])) = Range(r) \cup {exec[p]}
    BY <2>5, RangoAgregar
  <2>7. /\ exec'[p] = ready[p][i]
        /\ ready'[p] = IF exec[p] = Nulo THEN r ELSE Append(r, exec[p])
    BY <2>1, TiposDeListas DEF r
  <2>8. QED
    BY <2>2, <2>4, <2>6, <2>7, TiposDeListas DEF Lugares
<1>3. QED
  BY <1>1, <1>2 DEF ScheduleNext

LEMMA JoinNoPierde ==
  ASSUME TipoInv, NEW p \in Procs, Join(p)
  PROVE  \A t \in Hilos : t \in Lugares(p) => t \in Lugares(p)'
<1>1. CASE JoinDespacha(p)
  <2>1. PICK orden \in Ordenamientos(estadoNew) : \E i \in Primeros(orden, HilosDe(p)) :
          estadoNew' = RemoveAt(orden, i) /\ exec' = [exec EXCEPT ![p] = orden[i]]
    BY <1>1 DEF JoinDespacha
  <2>2. PICK i \in Primeros(orden, HilosDe(p)) :
          estadoNew' = RemoveAt(orden, i) /\ exec' = [exec EXCEPT ![p] = orden[i]]
    BY <2>1
  <2>3. orden \in Seq(Hilos) /\ Range(orden) = Range(estadoNew)
    BY TiposDeListas, OrdenamientoEnLista, RangoOrden
  <2>4. i \in 1..Len(orden)
    BY <2>3, PrimerosEnLista
  <2>5. \A t \in Range(estadoNew) : t = orden[i] \/ t \in Range(estadoNew)'
    BY <2>2, <2>3, <2>4, RangoQuitar
  <2>6. exec'[p] = orden[i] /\ exec[p] = Nulo /\ UNCHANGED <<estadoBlocked, estadoExit, ready>>
    BY <1>1, <2>2, TiposDeListas DEF JoinDespacha, JoinEspera
  <2>7. QED
    BY <2>5, <2>6, TiposDeListas DEF Lugares
<1>2. CASE JoinArrastra(p)
  <2>1. ready'[p] = Append(ready[p], estadoNew[recorrido[p]])
    BY <1>2, TiposDeListas DEF JoinArrastra
  <2>2. Range(ready[p]) \subseteq Range(ready[p])'
    BY <2>1, TiposDeListas, RangoAgregar
  <2>3. QED
    BY <1>2, <2>2, ListasCrecen DEF JoinArrastra, listas
<1>3. CASE JoinBloquea(p)
  <2>1. Range(Append(estadoBlocked, exec[p])) = Range(estadoBlocked) \cup {exec[p]}
    BY TiposDeListas, RangoAgregar
  <2>2. QED
    BY <1>3, <2>1 DEF JoinBloquea, Lugares
<1>4. CASE \/ JoinDescuenta(p) \/ JoinSaltea(p) \/ JoinVuelve(p) \/ JoinEncuentra(p)
           \/ JoinSigueBuscando(p) \/ JoinEncuentraBlocked(p) \/ JoinNoEncuentra(p)
  BY <1>4 DEF JoinDescuenta, JoinSaltea, JoinVuelve, JoinEncuentra, JoinSigueBuscando,
     JoinEncuentraBlocked, JoinNoEncuentra, listas, locales, Lugares
<1>5. QED
  BY <1>1, <1>2, <1>3, <1>4 DEF Join

LEMMA CloseNoPierde ==
  ASSUME TipoInv, CierraEnExit, NEW p \in Procs, Close(p)
  PROVE  \A t \in Hilos : t \in Lugares(p) => t \in Lugares(p)'
<1>1. CASE AtenderClose(p)
  <2>1. Range(estadoExit) \subseteq Range(estadoExit)'
    BY <1>1, TiposDeListas, RangoAgregar DEF AtenderClose
  <2>2. QED
    BY <1>1, <2>1, ListasCrecen DEF AtenderClose, locales
<1>2. CASE CloseDespierta(p)
  <2> DEFINE w == Esperante(p, exec[p])
  <2>1. /\ estadoBlocked' \in Sin(estadoBlocked, w)
        /\ ready' = [ready EXCEPT ![p] = Append(@, IF w \in Range(estadoBlocked) THEN w ELSE Nulo)]
        /\ UNCHANGED <<estadoNew, estadoExit, exec>>
    BY <1>2 DEF CloseDespierta
  <2> HIDE DEF w
  <2>2. \A t \in Range(estadoBlocked) : t = w \/ t \in Range(estadoBlocked)'
    BY <2>1, TiposDeListas, RangoSin
  <2>3. ready'[p] = Append(ready[p], IF w \in Range(estadoBlocked) THEN w ELSE Nulo)
    BY <2>1, TiposDeListas
  <2>4. /\ Range(ready[p]) \subseteq Range(ready[p])'
        /\ w \in Range(estadoBlocked) => w \in Range(ready[p])'
    BY <2>3, TiposDeListas, RangoAgregar
  <2>5. QED
    BY <2>1, <2>2, <2>4 DEF Lugares
<1>3. CASE CloseLibera(p)
  <2>1. exec[p] \in Range(estadoExit)
    BY <1>3 DEF CloseLibera, Sigue, CierraEnExit
  <2>2. QED
    BY <1>3, <2>1 DEF CloseLibera, listas, Lugares
<1>4. CASE CloseAdmite(p)
  <2>1. PICK i \in Primeros(estadoNew, HilosDe(p)) :
          /\ estadoNew' = RemoveAt(estadoNew, i)
          /\ ready' = [ready EXCEPT ![p] = Append(@, estadoNew[i])]
    BY <1>4 DEF CloseAdmite
  <2>2. i \in 1..Len(estadoNew)
    BY TiposDeListas, PrimerosEnLista
  <2>3. \A t \in Range(estadoNew) : t = estadoNew[i] \/ t \in Range(estadoNew)'
    BY <2>1, <2>2, TiposDeListas, RangoQuitar
  <2>4. Range(ready[p])' = Range(ready[p]) \cup {estadoNew[i]}
    <3>1. ready'[p] = Append(ready[p], estadoNew[i])
      BY <2>1, TiposDeListas
    <3>2. QED
      BY <3>1, TiposDeListas, RangoAgregar
  <2>5. QED
    BY <1>4, <2>3, <2>4 DEF CloseAdmite, Lugares
<1>5. CASE CloseNoEjecuta(p) \/ CloseSinNuevos(p) \/ CloseDescuenta(p)
  BY <1>5 DEF CloseNoEjecuta, CloseSinNuevos, CloseDescuenta, listas, locales, Lugares
<1>6. QED
  BY <1>1, <1>2, <1>3, <1>4, <1>5 DEF Close

LEMMA WaitYSignalNoPierden ==
  ASSUME TipoInv, NEW p \in Procs, Wait(p) \/ Signal(p)
  PROVE  \A t \in Hilos : t \in Lugares(p) => t \in Lugares(p)'
<1>1. CASE WaitBloquea(p)
  <2>1. Range(Append(estadoBlocked, exec[p])) = Range(estadoBlocked) \cup {exec[p]}
    BY TiposDeListas, RangoAgregar
  <2>2. QED
    BY <1>1, <2>1 DEF WaitBloquea, Lugares
<1>2. CASE SignalDespierta(p)
  <2>1. PICK t \in Hilos \cup {Nulo} :
          /\ estadoBlocked' \in Sin(estadoBlocked, t)
          /\ ready' = [ready EXCEPT ![p] = Append(@, t)]
    <3> DEFINE s == canal[p].arg
    <3>1. PICK i \in Primeros(colaDeBloqueo[s], HilosDe(p)) :
            /\ estadoBlocked' \in Sin(estadoBlocked, colaDeBloqueo[s][i])
            /\ ready' = [ready EXCEPT ![p] = Append(@, colaDeBloqueo[s][i])]
      BY <1>2 DEF SignalDespierta
    <3>2. s \in Sems
      BY <1>2 DEF SignalDespierta
    <3> HIDE DEF s
    <3>3. colaDeBloqueo[s] \in Seq(Hilos)
      BY <3>2 DEF TipoInv, TypeOK, SuseTypeOK
    <3>4. colaDeBloqueo[s][i] \in Hilos
      BY <3>3, PrimerosEnLista
    <3>5. QED
      BY <3>1, <3>4
  <2>2. \A x \in Range(estadoBlocked) : x = t \/ x \in Range(estadoBlocked)'
    BY <2>1, TiposDeListas, RangoSin
  <2>3. ready'[p] = Append(ready[p], t)
    BY <2>1, TiposDeListas
  <2>4. Range(ready[p])' = Range(ready[p]) \cup {t}
    BY <2>3, TiposDeListas, RangoAgregar
  <2>5. QED
    BY <1>2, <2>2, <2>4 DEF SignalDespierta, Lugares
<1>3. CASE ~WaitBloquea(p) /\ ~SignalDespierta(p)
  BY <1>3 DEF Wait, WaitPasa, WaitCae, WaitDesconocido, Signal, SignalSube, SignalTraba,
     SignalSinPropios, SignalDesconocido, Caer, listas, locales, Lugares
<1>4. QED
  BY <1>1, <1>2, <1>3

LEMMA ServidorNoPierde ==
  ASSUME TipoInv, CierraEnExit, NEW p \in Procs, OcupateDeEste(p), NEW t \in Hilos,
         \E q \in Procs : t \in Lugares(q)
  PROVE  \E q \in Procs : t \in Lugares(q)'
<1>1. CASE AtenderInit(p) \/ Desconectar(p)
  BY <1>1 DEF AtenderInit, Desconectar, listas, locales, Lugares
<1>2. CASE ~AtenderInit(p) /\ ~Desconectar(p)
  <2>1. t \in Lugares(p) => t \in Lugares(p)'
    BY <1>2, CreateNoPierde, ScheduleNextNoPierde, JoinNoPierde, CloseNoPierde, WaitYSignalNoPierden
    DEF OcupateDeEste
  <2>2. PICK q \in Procs : t \in Lugares(q)
    OBVIOUS
  <2>3. CASE q # p
    <3>1. ready'[q] = ready[q] /\ exec'[q] = exec[q]
      BY <2>3, OtrosLocales
    <3>2. QED
      BY <2>1, <2>2, <3>1 DEF Lugares
  <2>4. QED
    BY <2>1, <2>2, <2>3
<1>3. QED
  BY <1>1, <1>2

(* Nobody is taken out of Exit, and who closes stays in Exec. *)
LEMMA ExitCrece ==
  ASSUME TipoInv, NEW p \in Procs, OcupateDeEste(p)
  PROVE  /\ Range(estadoExit) \subseteq Range(estadoExit)'
         /\ pc'[p] = "close_despertar" =>
              /\ exec'[p] = exec[p]
              /\ pc[p] = "close_despertar" \/ exec[p] \in Range(estadoExit)'
<1>1. CASE AtenderClose(p)
  BY <1>1, TiposDeListas, RangoAgregar DEF AtenderClose, locales
<1>2. CASE CloseDespierta(p)
  BY <1>2 DEF CloseDespierta
<1>3. CASE Create(p) \/ ScheduleNext(p)
  BY <1>3, TiposDeListas DEF Create, AtenderCreate, CreateHayLugar, CreateQuedaEnNew, CreateAdmitido,
     ScheduleNext, SigueElMismo, PlanificaOtro, PlanificaCae, Caer, Responder, Ir, Sigue, listas, locales
<1>4. CASE Join(p)
  BY <1>4, TiposDeListas DEF Join, JoinDespacha, JoinDescuenta, JoinArrastra, JoinSaltea, JoinVuelve,
     JoinEncuentra, JoinSigueBuscando, JoinEncuentraBlocked, JoinNoEncuentra, JoinBloquea,
     JoinEspera, Responder, Ir, Sigue, listas, locales
<1>5. CASE CloseNoEjecuta(p) \/ CloseLibera(p) \/ CloseAdmite(p) \/ CloseSinNuevos(p) \/ CloseDescuenta(p)
  BY <1>5, TiposDeListas DEF CloseNoEjecuta, CloseLibera, CloseAdmite, CloseSinNuevos, CloseDescuenta,
     Responder, Ir, Sigue, listas, locales
<1>6. CASE Wait(p) \/ Signal(p) \/ AtenderInit(p) \/ Desconectar(p)
  BY <1>6, TiposDeListas DEF Wait, WaitPasa, WaitBloquea, WaitCae, WaitDesconocido, Signal, SignalSube,
     SignalTraba, SignalDespierta, SignalSinPropios, SignalDesconocido, AtenderInit, Desconectar,
     Caer, Responder, Ir, Sigue, listas, locales
<1>7. QED
  BY <1>1, <1>2, <1>3, <1>4, <1>5, <1>6 DEF OcupateDeEste, Close

(* The first thread a program creates after main is 1. *)
SiguienteInv ==
  \A p \in Procs :
    siguienteId[p] \in Nat \ {0} /\ (cli[p] \in {"afuera", "conectado"} => siguienteId[p] = 1)

SinPerdidasInv == TipoInv /\ Turno /\ CierraEnExit /\ SiguienteInv /\ NadieSePierde

(* A CREATE is attended first of all. *)
LEMMA PrimeroSeCrea ==
  ASSUME NEW p \in Procs, OcupateDeEste(p), Llego(p, "CREATE"), pc[p] = "libre"
  PROVE  AtenderCreate(p) \/ UNCHANGED <<canal, pc>>
<1> USE DEF Atiende, Sigue, Llego
<1>1. CASE AtenderInit(p) \/ Desconectar(p)
  BY <1>1 DEF AtenderInit, Desconectar
<1>2. CASE Create(p) \/ ScheduleNext(p)
  BY <1>2 DEF Create, CreateHayLugar, CreateQuedaEnNew, CreateAdmitido, ScheduleNext,
     SigueElMismo, PlanificaOtro, PlanificaCae
<1>3. CASE Join(p)
  BY <1>3 DEF Join, JoinDespacha, JoinDescuenta, JoinArrastra, JoinSaltea, JoinVuelve,
     JoinEncuentra, JoinSigueBuscando, JoinEncuentraBlocked, JoinNoEncuentra, JoinBloquea,
     JoinEspera, JoinBusca
<1>4. CASE Close(p)
  BY <1>4 DEF Close, AtenderClose, CloseNoEjecuta, CloseDespierta, CloseLibera, CloseAdmite,
     CloseSinNuevos, CloseDescuenta
<1>5. CASE Wait(p) \/ Signal(p)
  BY <1>5 DEF Wait, WaitPasa, WaitBloquea, WaitCae, WaitDesconocido, Signal, SignalSube,
     SignalTraba, SignalDespierta, SignalSinPropios, SignalDesconocido, AtiendeSemaforo
<1>6. QED
  BY <1>1, <1>2, <1>3, <1>4, <1>5 DEF OcupateDeEste

LEMMA ServidorNadie ==
  ASSUME SinPerdidasInv, NEW p \in Procs, Servidor(p)
  PROVE  CierraEnExit' /\ SiguienteInv' /\ NadieSePierde'
<1> USE DEF SinPerdidasInv
<1>1. OcupateDeEste(p) /\ UNCHANGED <<cli, siguienteId>>
  BY DEF Servidor, hilolayVars
<1>2. CierraEnExit'
  <2> SUFFICES ASSUME NEW q \in Procs, pc'[q] = "close_despertar"
               PROVE  exec'[q] \in Range(estadoExit)'
    BY DEF CierraEnExit
  <2>1. Range(estadoExit) \subseteq Range(estadoExit)'
    BY <1>1, ExitCrece
  <2>2. CASE q = p
    BY <1>1, <2>1, <2>2, ExitCrece DEF CierraEnExit
  <2>3. CASE q # p
    <3>1. pc'[q] = pc[q] /\ exec'[q] = exec[q]
      BY <1>1, <2>3, OtrosLocales
    <3>2. QED
      BY <2>1, <3>1 DEF CierraEnExit
  <2>4. QED
    BY <2>2, <2>3
<1>3. SiguienteInv'
  BY <1>1 DEF SiguienteInv
<1>4. ASSUME NEW t \in Hilos, Creada(t)' PROVE \E q \in Procs : t \in Lugares(q)'
  <2>1. CASE Creada(t)
    <3>1. \E q \in Procs : t \in Lugares(q)
      BY <2>1 DEF NadieSePierde
    <3>2. QED
      BY <1>1, <3>1, ServidorNoPierde
  <2>2. CASE ~Creada(t)
    <3>1. Pid(t) \in Procs /\ t = <<Pid(t), Tid(t)>>
      BY TidDeHilo
    <3>2. /\ Llego(Pid(t), "CREATE") /\ canal[Pid(t)].arg = Tid(t) /\ pc[Pid(t)] = "libre"
          /\ ~(Llego(Pid(t), "CREATE")' /\ canal'[Pid(t)].arg = Tid(t) /\ pc'[Pid(t)] = "libre")
      BY <1>1, <1>4, <2>2 DEF Creada
    <3>3. Pid(t) = p
      <4> SUFFICES ASSUME Pid(t) # p PROVE FALSE
        OBVIOUS
      <4>1. canal'[Pid(t)] = canal[Pid(t)] /\ pc'[Pid(t)] = pc[Pid(t)]
        BY <1>1, <3>1, OtrosCanales, OtrosLocales
      <4>2. QED
        BY <3>2, <4>1 DEF Llego
    <3>4. AtenderCreate(p)
      BY <1>1, <3>2, <3>3, PrimeroSeCrea DEF Llego
    <3>5. t \in Range(estadoNew)'
      <4>1. estadoNew' = Append(estadoNew, <<p, canal[p].arg>>)
        BY <3>4 DEF AtenderCreate
      <4>2. <<p, canal[p].arg>> = t
        BY <3>1, <3>2, <3>3
      <4>3. Range(estadoNew)' = Range(estadoNew) \cup {t}
        BY <4>1, <4>2, TiposDeListas, RangoAgregar
      <4>4. QED
        BY <4>3
    <3>6. QED
      BY <3>5 DEF Lugares
  <2>3. QED
    BY <2>1, <2>2
<1>5. QED
  BY <1>2, <1>3, <1>4 DEF NadieSePierde

LEMMA ClienteNadie ==
  ASSUME SinPerdidasInv, NEW p \in Procs, Cliente(p)
  PROVE  CierraEnExit' /\ SiguienteInv' /\ NadieSePierde'
<1> USE DEF SinPerdidasInv
<1>1. UNCHANGED <<pc, exec, ready, estadoNew, estadoBlocked, estadoExit>>
  BY DEF Cliente, suseVars, listas, locales
<1>2. /\ EfectoCliente(p)
      /\ \A q \in Procs \ {p} : cli'[q] = cli[q] /\ canal'[q] = canal[q] /\ siguienteId'[q] = siguienteId[q]
  BY ClienteEfecto
<1>3. CierraEnExit'
  BY <1>1 DEF CierraEnExit
<1>4. SiguienteInv'
  <2>1. /\ siguienteId'[p] \in Nat \ {0}
        /\ cli'[p] \in {"afuera", "conectado"} => siguienteId'[p] = 1
    BY <1>2 DEF SiguienteInv, EfectoCliente, PideCreate, PideOtro, Recibe, Va
  <2>2. QED
    BY <1>2, <2>1 DEF SiguienteInv
<1>5. ASSUME NEW t \in Hilos, Creada(t)' PROVE Creada(t)
  <2>1. Pid(t) \in Procs /\ Tid(t) \in Nat
    BY TidDeHilo, TidsNaturales
  <2>2. CASE Pid(t) # p
    BY <1>1, <1>2, <1>5, <2>1, <2>2 DEF Creada, Llego
  <2>3. CASE Pid(t) = p
    <3>1. /\ cli'[p] \notin {"afuera", "conectado"} /\ Tid(t) < siguienteId'[p]
          /\ ~(Llego(p, "CREATE")' /\ canal'[p].arg = Tid(t) /\ pc[p] = "libre")
      BY <1>1, <1>5, <2>3 DEF Creada
    <3>2. siguienteId[p] \in Nat \ {0} /\ (cli[p] \in {"afuera", "conectado"} => siguienteId[p] = 1)
      BY <2>1, <2>3 DEF SiguienteInv
    <3>3. SUFFICES /\ cli[p] \notin {"afuera", "conectado"} /\ Tid(t) < siguienteId[p]
                   /\ ~Llego(p, "CREATE")
      BY <2>3 DEF Creada
    <3>4. CASE cli[p] = "conectado"
      <4>1. Llego(p, "CREATE")' /\ canal'[p].arg = 0 /\ siguienteId'[p] = 1 /\ Vacio(p)
        BY <1>2, <3>2, <3>4 DEF EfectoCliente, PideCreate, PideOtro, Recibe, Va
      <4>2. pc[p] = "libre"
        BY <2>1, <2>3, <3>4, <4>1 DEF Turno, EnSuLugar, Vacio, Llego
      <4>3. Tid(t) = 0
        BY <2>1, <3>1, <4>1
      <4>4. QED
        BY <3>1, <4>1, <4>2, <4>3
    <3>5. CASE PideCreate(p)
      <4>1. /\ Llego(p, "CREATE")' /\ canal'[p].arg = siguienteId[p]
            /\ siguienteId'[p] = siguienteId[p] + 1 /\ Vacio(p) /\ cli[p] = "corriendo"
        BY <3>5 DEF PideCreate, Va
      <4>2. pc[p] = "libre"
        BY <2>1, <2>3, <4>1 DEF Turno, EnSuLugar
      <4>3. Tid(t) # siguienteId[p]
        BY <3>1, <4>1, <4>2
      <4>4. QED
        BY <2>1, <3>1, <3>2, <4>1, <4>3 DEF Vacio, Llego
    <3>6. CASE (PideOtro(p) \/ Recibe(p)) /\ siguienteId'[p] = siguienteId[p]
      BY <3>1, <3>6 DEF PideOtro, Recibe, Va, Vacio, Llego
    <3>7. QED
      BY <1>2, <3>1, <3>4, <3>5, <3>6 DEF EfectoCliente, Va
  <2>4. QED
    BY <2>2, <2>3
<1>6. NadieSePierde'
  BY <1>1, <1>5 DEF NadieSePierde, Lugares
<1>7. QED
  BY <1>3, <1>4, <1>6

LEMMA SinPerdidasSePreserva == SinPerdidasInv /\ [Next]_vars => SinPerdidasInv'
<1> SUFFICES ASSUME SinPerdidasInv, [Next]_vars PROVE SinPerdidasInv'
  OBVIOUS
<1>1. TipoInv' /\ Turno'
  BY TipoInvSePreserva, TurnoSePreserva DEF SinPerdidasInv
<1>2. CierraEnExit' /\ SiguienteInv' /\ NadieSePierde'
  <2>1. CASE Next
    BY <2>1, ServidorNadie, ClienteNadie DEF Next
  <2>2. CASE UNCHANGED vars
    BY <2>2 DEF vars, suseVars, hilolayVars, listas, locales, SinPerdidasInv, CierraEnExit,
       SiguienteInv, NadieSePierde, Creada, Lugares, Llego
  <2>3. QED
    BY <2>1, <2>2
<1>3. QED
  BY <1>1, <1>2 DEF SinPerdidasInv

LEMMA SinPerdidasInvariante == Spec => []SinPerdidasInv
<1>1. Init => SinPerdidasInv
  <2> SUFFICES ASSUME Init PROVE CierraEnExit /\ SiguienteInv /\ NadieSePierde
    BY TipoInvInicial, TurnoInicial DEF SinPerdidasInv
  <2>1. \A p \in Procs : pc[p] = "nuevo" /\ cli[p] = "afuera" /\ siguienteId[p] = 1
    BY DEF Init, SuseInit, HilolayInit
  <2>2. \A t \in Hilos : ~Creada(t)
    BY <2>1, TidDeHilo DEF Creada
  <2>3. QED
    BY <2>1, <2>2 DEF CierraEnExit, SiguienteInv, NadieSePierde
<1>2. QED
  BY <1>1, SinPerdidasSePreserva, PTL DEF Spec

(* Every thread that SUSE was told of is in some list or in some Exec, for any   *)
(* processes that share it, whatever they ask for and in any order.           *)
THEOREM NuncaSePierde == Spec => []NadieSePierde
  BY SinPerdidasInvariante, PTL DEF SinPerdidasInv

-----------------------------------------------------------------------------
(* The pointers SUSE follows.                                                *)

(* The steps of a handler are those of the request it has. *)
LEMMA SegunPedido ==
  ASSUME TipoInv, NEW p \in Procs
  PROVE  /\ Create(p) => Llego(p, "CREATE")
         /\ ScheduleNext(p) => Llego(p, "SCHEDULE_NEXT")
         /\ Join(p) => Llego(p, "JOIN")
         /\ Close(p) => Llego(p, "CLOSE")
         /\ Wait(p) => Llego(p, "WAIT")
         /\ Signal(p) => Llego(p, "SIGNAL")
<1> USE DEF Atiende, Sigue, TipoInv, Conversacion
<1>1. Create(p) => Llego(p, "CREATE")
  BY DEF Create, AtenderCreate, CreateHayLugar, CreateQuedaEnNew, CreateAdmitido
<1>2. ScheduleNext(p) => Llego(p, "SCHEDULE_NEXT")
  BY DEF ScheduleNext, SigueElMismo, PlanificaOtro, PlanificaCae
<1>3. Join(p) => Llego(p, "JOIN")
  BY DEF Join, JoinDespacha, JoinDescuenta, JoinArrastra, JoinSaltea, JoinVuelve,
     JoinEncuentra, JoinSigueBuscando, JoinEncuentraBlocked, JoinNoEncuentra, JoinBloquea,
     JoinEspera, JoinBusca
<1>4. Close(p) => Llego(p, "CLOSE")
  BY DEF Close, AtenderClose, CloseNoEjecuta, CloseDespierta, CloseLibera, CloseAdmite,
     CloseSinNuevos, CloseDescuenta
<1>5. (Wait(p) => Llego(p, "WAIT")) /\ (Signal(p) => Llego(p, "SIGNAL"))
  BY DEF Wait, WaitPasa, WaitBloquea, WaitCae, WaitDesconocido, Signal, SignalSube,
     SignalTraba, SignalDespierta, SignalSinPropios, SignalDesconocido, AtiendeSemaforo
<1>6. QED
  BY <1>1, <1>2, <1>3, <1>4, <1>5

(* What the program is at, by the request the handler has. *)
LEMMA QuienPide ==
  ASSUME TipoInv, Turno, NEW p \in Procs
  PROVE  /\ Llego(p, "CREATE") => cli[p] = "crea"
         /\ Llego(p, "SCHEDULE_NEXT") => cli[p] = "cede"
         /\ Llego(p, "JOIN") \/ Llego(p, "WAIT") \/ Llego(p, "SIGNAL") => cli[p] = "pide"
         /\ Llego(p, "CLOSE") => cli[p] \in {"pide", "retorna"}
         /\ Llego(p, "FIN") => cli[p] \in Fuera
         /\ Llego(p, "INIT") => cli[p] = "conectado"
<1>1. cli[p] \in Estados
  BY DEF TipoInv, TypeOK, HilolayTypeOK
<1>2. QED
  BY <1>1 DEF Turno, Espera, EnSuLugar, Llego, Vacio, Fuera, Estados

(* A NULL gets in Ready by a CLOSE, and the SCHEDULE_NEXT that follows is the first *)
(* to look.                                                                    *)
NuloInv ==
  \A p \in Procs : TieneNulo(p) =>
    \/ Llego(p, "CLOSE")
    \/ cli[p] \in {"pide", "retorna"} /\ Llego(p, "RESPUESTA")
    \/ cli[p] = "cede" /\ Llego(p, "SCHEDULE_NEXT")
    \/ cli[p] = "terminado"

LEMMA SoloCloseAnula ==
  ASSUME TipoInv, NEW p \in Procs, OcupateDeEste(p), TieneNulo(p)'
  PROVE  \/ CloseDespierta(p)
         \/ TieneNulo(p) /\ ~SigueElMismo(p) /\ ~PlanificaOtro(p)
<1>1. CASE AtenderInit(p) \/ Desconectar(p)
  BY <1>1 DEF AtenderInit, Desconectar, Atiende, Sigue, Llego, SigueElMismo, PlanificaOtro, locales,
     TieneNulo
<1>2. CASE Create(p)
  <2>1. \/ UNCHANGED ready
        \/ \E t \in Hilos : ready' = [ready EXCEPT ![p] = Append(@, t)]
    <3>1. Create(p) => Llego(p, "CREATE")
      BY SegunPedido
    <3>2. <<p, canal[p].arg>> \in Hilos
      BY <1>2, <3>1, HiloPedido
    <3>3. QED
      BY <1>2, <3>2 DEF Create, AtenderCreate, CreateHayLugar, CreateQuedaEnNew, CreateAdmitido, locales
  <2>2. TieneNulo(p)
    <3>1. CASE UNCHANGED ready
      BY <3>1 DEF TieneNulo
    <3>2. ASSUME NEW t \in Hilos, ready' = [ready EXCEPT ![p] = Append(@, t)]
          PROVE  TieneNulo(p)
      <4>1. ready'[p] = Append(ready[p], t)
        BY <3>2, TiposDeListas
      <4>2. t # Nulo
        BY TiposDeListas
      <4>3. QED
        BY <4>1, <4>2, TiposDeListas, RangoAgregar DEF TieneNulo
    <3>3. QED
      BY <2>1, <3>1, <3>2
  <2>3. Llego(p, "CREATE")
    BY <1>2, SegunPedido
  <2>4. QED
    BY <2>2, <2>3 DEF SigueElMismo, PlanificaOtro, Atiende, Llego
<1>3. CASE PlanificaCae(p)
  <2>1. TieneNulo(p) /\ DOMAIN ready[p] = 1..Len(ready[p]) /\ Len(<<>>) = 0
    BY <1>3, TiposDeListas DEF PlanificaCae
  <2>2. ready[p] # <<>>
    BY <2>1 DEF TieneNulo, Range
  <2>3. QED
    BY <2>1, <2>2 DEF SigueElMismo, PlanificaOtro
<1>4. CASE SigueElMismo(p)
  BY <1>4 DEF SigueElMismo, locales, TieneNulo, Range
<1>5. CASE PlanificaOtro(p)
  <2>1. PICK i \in DOMAIN ready[p] :
          ready' = [ready EXCEPT ![p] =
                      IF exec[p] = Nulo THEN RemoveAt(@, i) ELSE Append(RemoveAt(@, i), exec[p])]
    BY <1>5 DEF PlanificaOtro
  <2>2. ~TieneNulo(p)
    BY <1>5 DEF PlanificaOtro
  <2> DEFINE r == RemoveAt(ready[p], i)
  <2>3. i \in 1..Len(ready[p])
    BY TiposDeListas
  <2>4. r \in Seq(Hilos \cup {Nulo}) /\ Range(r) \subseteq Range(ready[p])
    BY <2>3, TiposDeListas, QuitarEnLista, RangoQuitar
  <2> HIDE DEF r
  <2>5. Range(Append(r, exec[p])) = Range(r) \cup {exec[p]}
    BY <2>4, RangoAgregar
  <2>6. ready'[p] = IF exec[p] = Nulo THEN r ELSE Append(r, exec[p])
    BY <2>1, TiposDeListas DEF r
  <2>7. QED
    BY <2>2, <2>4, <2>5, <2>6 DEF TieneNulo
<1>6. CASE Join(p)
  <2>1. CASE JoinArrastra(p)
    <3>1. recorrido[p] \in 1..Len(estadoNew)
      BY <2>1 DEF JoinArrastra, Sigue, TipoInv, EnMarcha, TypeOK, SuseTypeOK
    <3>2. estadoNew[recorrido[p]] # Nulo
      BY <3>1, TiposDeListas
    <3>3. ready'[p] = Append(ready[p], estadoNew[recorrido[p]])
      BY <2>1, TiposDeListas DEF JoinArrastra
    <3>4. TieneNulo(p)
      BY <3>2, <3>3, TiposDeListas, RangoAgregar DEF TieneNulo
    <3>5. QED
      BY <1>6, <3>4, SegunPedido DEF SigueElMismo, PlanificaOtro, Atiende, Llego
  <2>2. CASE ~JoinArrastra(p)
    <3>1. UNCHANGED ready
      BY <1>6, <2>2 DEF Join, JoinDespacha, JoinDescuenta, JoinSaltea, JoinVuelve, JoinEncuentra,
         JoinSigueBuscando, JoinEncuentraBlocked, JoinNoEncuentra, JoinBloquea, locales
    <3>2. QED
      BY <1>6, <3>1, SegunPedido DEF SigueElMismo, PlanificaOtro, Atiende, Llego, TieneNulo
  <2>3. QED
    BY <2>1, <2>2
<1>7. CASE Close(p) /\ ~CloseDespierta(p)
  <2>1. CASE CloseAdmite(p)
    <3>1. PICK i \in Primeros(estadoNew, HilosDe(p)) : ready' = [ready EXCEPT ![p] = Append(@, estadoNew[i])]
      BY <2>1 DEF CloseAdmite
    <3>2. estadoNew[i] # Nulo
      BY <3>1, TiposDeListas, PrimerosEnLista
    <3>3. ready'[p] = Append(ready[p], estadoNew[i])
      BY <3>1, TiposDeListas
    <3>4. TieneNulo(p)
      BY <3>2, <3>3, TiposDeListas, RangoAgregar DEF TieneNulo
    <3>5. QED
      BY <1>7, <3>4, SegunPedido DEF SigueElMismo, PlanificaOtro, Atiende, Llego
  <2>2. CASE ~CloseAdmite(p)
    <3>1. UNCHANGED ready
      BY <1>7, <2>2 DEF Close, AtenderClose, CloseNoEjecuta, CloseLibera, CloseSinNuevos,
         CloseDescuenta, locales
    <3>2. QED
      BY <1>7, <3>1, SegunPedido DEF SigueElMismo, PlanificaOtro, Atiende, Llego, TieneNulo
  <2>3. QED
    BY <2>1, <2>2
<1>8. CASE Wait(p) \/ Signal(p)
  <2>1. CASE SignalDespierta(p)
    <3> DEFINE s == canal[p].arg
    <3>1. PICK i \in Primeros(colaDeBloqueo[s], HilosDe(p)) :
            ready' = [ready EXCEPT ![p] = Append(@, colaDeBloqueo[s][i])]
      BY <2>1 DEF SignalDespierta
    <3>2. s \in Sems
      BY <2>1 DEF SignalDespierta
    <3> HIDE DEF s
    <3>3. colaDeBloqueo[s] \in Seq(Hilos)
      BY <3>2 DEF TipoInv, TypeOK, SuseTypeOK
    <3>4. colaDeBloqueo[s][i] # Nulo
      BY <3>1, <3>3, TiposDeListas, PrimerosEnLista
    <3>5. ready'[p] = Append(ready[p], colaDeBloqueo[s][i])
      BY <3>1, TiposDeListas
    <3>6. TieneNulo(p)
      BY <3>4, <3>5, TiposDeListas, RangoAgregar DEF TieneNulo
    <3>7. QED
      BY <1>8, <3>6, SegunPedido DEF SigueElMismo, PlanificaOtro, Atiende, Llego
  <2>2. CASE ~SignalDespierta(p)
    <3>1. UNCHANGED ready
      BY <1>8, <2>2 DEF Wait, WaitPasa, WaitBloquea, WaitCae, WaitDesconocido, Signal, SignalSube,
         SignalTraba, SignalSinPropios, SignalDesconocido, Caer, locales
    <3>2. QED
      BY <1>8, <3>1, SegunPedido DEF SigueElMismo, PlanificaOtro, Atiende, Llego, TieneNulo
  <2>3. QED
    BY <2>1, <2>2
<1>9. QED
  BY <1>1, <1>2, <1>3, <1>4, <1>5, <1>6, <1>7, <1>8 DEF OcupateDeEste, ScheduleNext

LEMMA ServidorNuloInv ==
  ASSUME TipoInv, Turno, NuloInv, NEW p \in Procs, Servidor(p)
  PROVE  NuloInv'
<1>1. OcupateDeEste(p) /\ UNCHANGED cli
  BY DEF Servidor, hilolayVars
<1>2. ASSUME NEW q \in Procs, TieneNulo(q)'
      PROVE  \/ Llego(q, "CLOSE")'
             \/ cli[q] \in {"pide", "retorna"} /\ Llego(q, "RESPUESTA")'
             \/ cli[q] = "cede" /\ Llego(q, "SCHEDULE_NEXT")'
             \/ cli[q] = "terminado"
  <2>1. CASE q # p
    <3>1. ready'[q] = ready[q] /\ canal'[q] = canal[q]
      BY <1>1, <2>1, OtrosCanales, OtrosLocales
    <3>2. QED
      BY <1>2, <3>1 DEF NuloInv, TieneNulo, Llego
  <2>2. CASE q = p /\ CloseDespierta(p)
    BY <2>2, SegunPedido DEF Close, CloseDespierta, Llego
  <2>3. CASE q = p /\ TieneNulo(p) /\ ~SigueElMismo(p) /\ ~PlanificaOtro(p)
    <3>1. CASE UNCHANGED canal
      BY <2>3, <3>1 DEF NuloInv, Llego
    <3>2. CASE Close(p)
      <4>1. cli[p] \in {"pide", "retorna"} /\ Llego(p, "CLOSE")
        BY <3>2, SegunPedido, QuienPide
      <4>2. EfectoEnTurno(p)
        BY <3>2, CloseEfecto
      <4>3. Responde(p) => Llego(p, "RESPUESTA")'
        BY EsMensaje, NuloSupuesto DEF Responde, Respuesta, Llego
      <4>4. QED
        BY <2>3, <4>1, <4>2, <4>3 DEF EfectoEnTurno, Avanza, Llego
    <3>3. CASE ~Close(p) /\ ~ScheduleNext(p)
      <4>1. ~Llego(p, "CLOSE") /\ ~Llego(p, "RESPUESTA") /\ ~Llego(p, "SCHEDULE_NEXT")
        BY <1>1, <3>3, SegunPedido DEF OcupateDeEste, AtenderInit, Desconectar, Atiende, Llego
      <4>2. QED
        BY <2>3, <4>1 DEF NuloInv
    <3>4. CASE PlanificaCae(p)
      BY <3>1, <3>4 DEF PlanificaCae, Caer
    <3>5. QED
      BY <2>3, <3>2, <3>3, <3>4 DEF ScheduleNext
  <2>4. QED
    BY <1>1, <1>2, <2>1, <2>2, <2>3, SoloCloseAnula
<1>3. QED
  BY <1>1, <1>2 DEF NuloInv

LEMMA ClienteNuloInv ==
  ASSUME TipoInv, Turno, NuloInv, NEW p \in Procs, Cliente(p)
  PROVE  NuloInv'
<1>1. UNCHANGED ready
  BY DEF Cliente, suseVars, locales
<1>2. /\ EfectoCliente(p)
      /\ \A q \in Procs \ {p} : cli'[q] = cli[q] /\ canal'[q] = canal[q]
  BY ClienteEfecto
<1>3. ASSUME TieneNulo(p)
      PROVE  \/ cli'[p] = "cede" /\ Llego(p, "SCHEDULE_NEXT")'
             \/ cli'[p] = "terminado"
  BY <1>2, <1>3
  DEF NuloInv, EfectoCliente, PideCreate, PideOtro, Recibe, Va, Vacio, Llego
<1>4. QED
  BY <1>1, <1>2, <1>3 DEF NuloInv, TieneNulo, Llego

(* A process that runs code of a ULT, or that asks for one more thread or joins   *)
(* one, has a thread in Exec or else one of its own in New.                      *)
TienePropio(p) == \E t \in Range(estadoNew) : Pid(t) = p
EnCodigo(p) ==
  \/ cli[p] = "corriendo"
  \/ cli[p] = "crea" /\ Llego(p, "RESPUESTA")
  \/ Llego(p, "CREATE") /\ (pc[p] # "libre" \/ canal[p].arg # 0)
  \/ Llego(p, "JOIN") /\ pc[p] = "libre"

Despachado(p) == cli[p] = "cede" /\ Llego(p, "RESPUESTA") /\ canal[p].arg # -1
EnMedioDelJoin(p) == pc[p] \in {"join_descontar", "join_arrastrar"}

Propio(p) ==
  /\ EnMedioDelJoin(p) \/ Despachado(p) => exec[p] # Nulo
  /\ EnCodigo(p) => exec[p] # Nulo \/ TienePropio(p)
PropioInv == \A p \in Procs : Propio(p)

(* No handler takes from New the tcb of another process. *)
LEMMA NewDeOtros ==
  ASSUME TipoInv, NEW p \in Procs, OcupateDeEste(p), NEW q \in Procs \ {p}, TienePropio(q)
  PROVE  TienePropio(q)'
<1>1. PICK u \in Range(estadoNew) : Pid(u) = q
  BY DEF TienePropio
<1>2. CASE UNCHANGED estadoNew
  BY <1>2 DEF TienePropio
<1>3. CASE AtenderCreate(p)
  <2>1. Range(estadoNew)' = Range(estadoNew) \cup {<<p, canal[p].arg>>}
    BY <1>3, TiposDeListas, RangoAgregar DEF AtenderCreate
  <2>2. QED
    BY <1>1, <2>1 DEF TienePropio
<1>4. CASE CreateAdmitido(p)
  <2> DEFINE t == <<p, canal[p].arg>>
  <2>1. estadoNew' \in Sin(estadoNew, t)
    BY <1>4 DEF CreateAdmitido
  <2>2. u # t
    BY <1>1 DEF Pid
  <2> HIDE DEF t
  <2>3. u \in Range(estadoNew)'
    BY <2>1, <2>2, TiposDeListas, RangoSin
  <2>4. QED
    BY <1>1, <2>3 DEF TienePropio
<1>5. CASE JoinDespacha(p)
  <2>1. PICK orden \in Ordenamientos(estadoNew) :
          \E i \in Primeros(orden, HilosDe(p)) : estadoNew' = RemoveAt(orden, i)
    BY <1>5 DEF JoinDespacha
  <2>2. PICK i \in Primeros(orden, HilosDe(p)) : estadoNew' = RemoveAt(orden, i)
    BY <2>1
  <2>3. orden \in Seq(Hilos) /\ Range(orden) = Range(estadoNew)
    BY TiposDeListas, OrdenamientoEnLista, RangoOrden
  <2>4. i \in 1..Len(orden) /\ Pid(orden[i]) = p
    BY <2>3, PrimerosEnLista DEF HilosDe
  <2>5. u \in Range(estadoNew)'
    BY <1>1, <2>2, <2>3, <2>4, RangoQuitar
  <2>6. QED
    BY <1>1, <2>5 DEF TienePropio
<1>6. CASE CloseAdmite(p)
  <2>1. PICK i \in Primeros(estadoNew, HilosDe(p)) : estadoNew' = RemoveAt(estadoNew, i)
    BY <1>6 DEF CloseAdmite
  <2>2. i \in 1..Len(estadoNew) /\ Pid(estadoNew[i]) = p
    BY TiposDeListas, PrimerosEnLista DEF HilosDe
  <2>3. u \in Range(estadoNew)'
    BY <1>1, <2>1, <2>2, TiposDeListas, RangoQuitar
  <2>4. QED
    BY <1>1, <2>3 DEF TienePropio
<1>7. QED
  BY <1>2, <1>3, <1>4, <1>5, <1>6
  DEF OcupateDeEste, AtenderInit, Desconectar, Create, ScheduleNext, Join, Close, Wait, Signal,
     CreateHayLugar, CreateQuedaEnNew, SigueElMismo, PlanificaOtro, PlanificaCae,
     JoinDescuenta, JoinArrastra, JoinSaltea, JoinVuelve, JoinEncuentra,
     JoinSigueBuscando, JoinEncuentraBlocked, JoinNoEncuentra, JoinBloquea,
     AtenderClose, CloseNoEjecuta, CloseDespierta, CloseLibera,
     CloseSinNuevos, CloseDescuenta, WaitPasa, WaitBloquea, WaitCae, WaitDesconocido,
     SignalSube, SignalTraba, SignalDespierta, SignalSinPropios, SignalDesconocido,
     listas, Caer

(* A CREATE leaves its thread in New, in Ready behind one in Exec, or in Exec. *)
LEMMA CreatePropio ==
  ASSUME TipoInv, Turno, NEW p \in Procs, Propio(p), Create(p)
  PROVE  exec'[p] # Nulo \/ TienePropio(p)'
<1>1. Llego(p, "CREATE") /\ <<p, canal[p].arg>> \in Hilos
  BY SegunPedido, HiloPedido
<1>2. CASE AtenderCreate(p)
  <2>1. Range(estadoNew)' = Range(estadoNew) \cup {<<p, canal[p].arg>>}
    BY <1>2, TiposDeListas, RangoAgregar DEF AtenderCreate
  <2>2. Pid(<<p, canal[p].arg>>) = p
    BY DEF Pid
  <2>3. QED
    BY <2>1, <2>2 DEF TienePropio
<1>3. CASE CreateHayLugar(p) \/ CreateQuedaEnNew(p)
  <2>1. EnCodigo(p)
    BY <1>1, <1>3 DEF CreateHayLugar, CreateQuedaEnNew, Sigue, EnCodigo
  <2>2. QED
    BY <1>3, <2>1 DEF Propio, CreateHayLugar, CreateQuedaEnNew, listas, locales, TienePropio
<1>4. CASE CreateAdmitido(p)
  <2>1. exec'[p] = <<p, canal[p].arg>> \/ exec'[p] # Nulo
    BY <1>4, TiposDeListas DEF CreateAdmitido
  <2>2. QED
    BY <1>1, <2>1, TiposDeListas
<1>5. QED
  BY <1>2, <1>3, <1>4 DEF Create

(* SCHEDULE_NEXT answers -1 or the thread it has put in Exec. *)
LEMMA ScheduleNextPropio ==
  ASSUME TipoInv, NEW p \in Procs, ScheduleNext(p)
  PROVE  Despachado(p)' => exec'[p] # Nulo
<1>1. CASE SigueElMismo(p)
  <2>1. exec'[p] = exec[p] /\ canal'[p] = Respuesta(IF exec[p] # Nulo THEN Tid(exec[p]) ELSE -1)
    BY <1>1 DEF SigueElMismo, locales, Responder, Enviar, TipoInv, TypeOK, CanalTypeOK
  <2>2. QED
    BY <2>1 DEF Despachado, Respuesta
<1>2. CASE PlanificaOtro(p)
  <2>1. PICK i \in DOMAIN ready[p] : exec' = [exec EXCEPT ![p] = ready[p][i]] /\ ready[p][i] # Nulo
    BY <1>2 DEF PlanificaOtro, TieneNulo, Range
  <2>2. QED
    BY <2>1, TiposDeListas
<1>3. CASE PlanificaCae(p)
  BY <1>3 DEF PlanificaCae, Caer, Atiende, Llego, Despachado
<1>4. QED
  BY <1>1, <1>2, <1>3 DEF ScheduleNext

(* A JOIN waits for Exec until it has put a thread there. *)
LEMMA JoinPropio ==
  ASSUME TipoInv, Turno, NEW p \in Procs, Propio(p), Join(p)
  PROVE  EnMedioDelJoin(p)' \/ (pc'[p] = "libre" /\ ~Llego(p, "RESPUESTA")') => exec'[p] # Nulo
<1> USE DEF Sigue, Atiende, Ir, TipoInv, TypeOK, SuseTypeOK
<1>1. CASE JoinDespacha(p)
  <2>1. PICK orden \in Ordenamientos(estadoNew) :
          \E i \in Primeros(orden, HilosDe(p)) : exec' = [exec EXCEPT ![p] = orden[i]]
    BY <1>1 DEF JoinDespacha
  <2>2. PICK i \in Primeros(orden, HilosDe(p)) : exec' = [exec EXCEPT ![p] = orden[i]]
    BY <2>1
  <2>3. orden[i] \in Hilos
    BY TiposDeListas, OrdenamientoEnLista, PrimerosEnLista
  <2>4. QED
    BY <2>2, <2>3, TiposDeListas
<1>2. CASE JoinDescuenta(p) \/ JoinArrastra(p) \/ JoinSaltea(p) \/ JoinVuelve(p)
  BY <1>2 DEF JoinDescuenta, JoinArrastra, JoinSaltea, JoinVuelve, locales, Propio, EnMedioDelJoin
<1>3. CASE JoinEncuentra(p) \/ JoinSigueBuscando(p) \/ JoinEncuentraBlocked(p)
  BY <1>3 DEF JoinEncuentra, JoinSigueBuscando, JoinEncuentraBlocked, EnMedioDelJoin
<1>4. CASE JoinNoEncuentra(p) \/ JoinBloquea(p)
  <2>1. pc'[p] = "libre" /\ canal'[p] = Respuesta(0)
    BY <1>4 DEF JoinNoEncuentra, JoinBloquea, Responder, Enviar, CanalTypeOK
  <2>2. Respuesta(0) # Nulo
    BY EsMensaje, NuloSupuesto
  <2>3. QED
    BY <2>1, <2>2 DEF EnMedioDelJoin, Llego, Respuesta
<1>5. QED
  BY <1>1, <1>2, <1>3, <1>4 DEF Join

LEMMA RespondeUnaRespuesta ==
  ASSUME NEW p \in Procs, Responde(p)
  PROVE  pc'[p] = "libre" /\ Llego(p, "RESPUESTA")'
  BY EsMensaje, NuloSupuesto DEF Responde, Respuesta, Llego

LEMMA ServidorPropio ==
  ASSUME TipoInv, Turno, PropioInv, NEW p \in Procs, Servidor(p)
  PROVE  PropioInv'
<1>1. OcupateDeEste(p) /\ UNCHANGED cli
  BY DEF Servidor, hilolayVars
<1>2. ASSUME NEW q \in Procs \ {p} PROVE Propio(q)'
  <2>1. canal'[q] = canal[q] /\ pc'[q] = pc[q] /\ exec'[q] = exec[q] /\ cli'[q] = cli[q]
    BY <1>1, OtrosCanales, OtrosLocales
  <2>2. TienePropio(q) => TienePropio(q)'
    BY <1>1, NewDeOtros
  <2>3. QED
    BY <2>1, <2>2 DEF PropioInv, Propio, EnMedioDelJoin, Despachado, EnCodigo, Llego
<1>3. Propio(p)'
  <2>1. Propio(p)
    BY DEF PropioInv
  <2>2. CASE AtenderInit(p) \/ Desconectar(p)
    <3>1. pc'[p] \in {"libre", "cerrado"} /\ canal'[p] = Nulo /\ cli[p] \in Fuera \cup {"conectado"}
      <4>1. AtenderInit(p) => Llego(p, "INIT")
        BY DEF AtenderInit
      <4>2. Desconectar(p) => Llego(p, "FIN")
        BY DEF Desconectar, Atiende
      <4>3. QED
        BY <2>2, <4>1, <4>2, QuienPide DEF AtenderInit, Desconectar, Sigue, Ir, Enviar, TipoInv,
           TypeOK, CanalTypeOK, SuseTypeOK
    <3>2. QED
      BY <1>1, <3>1 DEF Propio, EnMedioDelJoin, Despachado, EnCodigo, Llego, Fuera
  <2>3. CASE Create(p)
    <3>1. cli[p] = "crea" /\ (exec'[p] # Nulo \/ TienePropio(p)')
      BY <2>1, <2>3, SegunPedido, QuienPide, CreatePropio
    <3>2. ~EnMedioDelJoin(p)'
      BY <2>3, SegunPedido, CreateEfecto
      DEF EfectoEnTurno, Responde, Avanza, EnCreate, EnMedioDelJoin, Llego, Turno, EnSuLugar
    <3>3. QED
      BY <1>1, <3>1, <3>2 DEF Propio, Despachado
  <2>4. CASE ScheduleNext(p)
    <3>1. cli[p] = "cede" /\ Llego(p, "SCHEDULE_NEXT") /\ pc[p] = "libre"
      BY <2>4, SegunPedido, QuienPide DEF Turno, EnSuLugar
    <3>2. ~EnMedioDelJoin(p)' /\ ~EnCodigo(p)'
      <4>1. EfectoEnTurno(p)
        BY <2>4, ScheduleNextEfecto
      <4>2. pc'[p] = "libre" /\ (canal'[p] = canal[p] \/ Responde(p))
        BY <3>1, <4>1 DEF EfectoEnTurno, Responde, Avanza, Llego
      <4>3. QED
        BY <1>1, <3>1, <4>2, RespondeUnaRespuesta DEF EnMedioDelJoin, EnCodigo, Llego
    <3>3. QED
      BY <2>4, <3>2, ScheduleNextPropio DEF Propio
  <2>5. CASE Join(p)
    <3>1. cli[p] = "pide" /\ Llego(p, "JOIN")
      BY <2>5, SegunPedido, QuienPide
    <3>2. EnCodigo(p)' => pc'[p] = "libre" /\ ~Llego(p, "RESPUESTA")'
      <4>1. canal'[p] = canal[p] \/ Responde(p)
        BY <2>5, <3>1, JoinEfecto DEF EfectoEnTurno, Avanza, Llego
      <4>2. QED
        BY <1>1, <3>1, <4>1, RespondeUnaRespuesta DEF EnCodigo, Llego
    <3>3. EnCodigo(p)' \/ EnMedioDelJoin(p)' => exec'[p] # Nulo
      BY <2>1, <2>5, <3>2, JoinPropio
    <3>4. QED
      BY <1>1, <3>1, <3>3 DEF Propio, Despachado
  <2>6. CASE Close(p) \/ Wait(p) \/ Signal(p)
    <3>1. /\ cli[p] \in {"pide", "retorna"}
          /\ Llego(p, "CLOSE") \/ Llego(p, "WAIT") \/ Llego(p, "SIGNAL")
      BY <2>6, SegunPedido, QuienPide
    <3>2. EfectoEnTurno(p)
      BY <2>6, CloseEfecto, WaitYSignalEfecto
    <3>3. ~EnMedioDelJoin(p)' /\ ~EnCodigo(p)'
      <4>1. pc[p] \in EnClose \cup {"libre"}
        BY <3>1 DEF Turno, EnSuLugar
      <4>2. Responde(p) \/ (canal'[p] = canal[p] /\ pc'[p] \in EnClose \cup {"libre"})
        BY <3>1, <3>2, <4>1 DEF EfectoEnTurno, Avanza, Llego
      <4>3. QED
        BY <1>1, <3>1, <4>2, RespondeUnaRespuesta DEF EnClose, EnMedioDelJoin, EnCodigo, Llego
    <3>4. QED
      BY <1>1, <3>1, <3>3 DEF Propio, Despachado
  <2>7. QED
    BY <1>1, <2>2, <2>3, <2>4, <2>5, <2>6 DEF OcupateDeEste
<1>4. QED
  BY <1>2, <1>3 DEF PropioInv

LEMMA ClientePropio ==
  ASSUME TipoInv, Turno, SiguienteInv, PropioInv, NEW p \in Procs, Cliente(p)
  PROVE  PropioInv'
<1>1. UNCHANGED <<exec, estadoNew, pc>>
  BY DEF Cliente, suseVars, listas, locales
<1>2. /\ EfectoCliente(p)
      /\ \A q \in Procs \ {p} : cli'[q] = cli[q] /\ canal'[q] = canal[q]
  BY ClienteEfecto
<1>3. ASSUME NEW q \in Procs \ {p} PROVE Propio(q)'
  BY <1>1, <1>2 DEF PropioInv, Propio, EnMedioDelJoin, Despachado, EnCodigo, TienePropio, Llego
<1>4. Propio(p)'
  <2>1. Propio(p) /\ siguienteId[p] # 0
    BY DEF PropioInv, SiguienteInv
  <2>2. pc[p] \in {"nuevo", "libre"}
    BY <1>2 DEF EfectoCliente, PideCreate, PideOtro, Recibe, Va, Turno, EnSuLugar, Vacio, Llego
  <2>3. EnCodigo(p)' => EnCodigo(p) \/ Despachado(p)
    <3>2. ~Conoce(p, -1)
      BY DEF Conoce
    <3>3. CASE Va(p, "afuera", "nada", "conectado", "INIT")
      BY <3>3 DEF Va, EnCodigo, Llego
    <3>4. CASE Va(p, "conectado", "nada", "crea", "CREATE") /\ canal'[p].arg = 0
      <4>1. pc[p] = "libre" \/ (pc[p] = "nuevo" /\ Llego(p, "INIT"))
        BY <3>4 DEF Va, Turno, EnSuLugar
      <4>2. pc'[p] = "libre"
        BY <1>1, <3>4, <4>1 DEF Va, Llego, Vacio
      <4>3. cli'[p] = "crea" /\ Llego(p, "CREATE")' /\ canal'[p].arg = 0
        BY <3>4 DEF Va
      <4>4. QED
        BY <4>2, <4>3 DEF EnCodigo, Llego
    <3>5. CASE PideCreate(p) \/ PideOtro(p)
      BY <3>5 DEF PideCreate, PideOtro, Va, EnCodigo
    <3>6. CASE Recibe(p)
      BY <3>2, <3>6 DEF Recibe, Va, EnCodigo, Despachado, Llego, Vacio
    <3>7. QED
      BY <1>2, <3>3, <3>4, <3>5, <3>6 DEF EfectoCliente
  <2>4. ~Despachado(p)'
    BY <1>2 DEF EfectoCliente, PideCreate, PideOtro, Recibe, Va, Despachado, Vacio, Llego
  <2>5. QED
    BY <1>1, <2>1, <2>2, <2>3, <2>4 DEF Propio, EnMedioDelJoin, TienePropio
<1>5. QED
  BY <1>3, <1>4 DEF PropioInv

LEMMA PunterosInvInicial == Init => NuloInv /\ PropioInv
<1> SUFFICES ASSUME Init, NEW p \in Procs PROVE ~TieneNulo(p) /\ Propio(p)
  BY DEF NuloInv, PropioInv
<1>1. /\ ready[p] = <<>> /\ pc[p] = "nuevo" /\ cli[p] = "afuera" /\ canal[p] = Nulo
  BY DEF Init, CanalInit, SuseInit, HilolayInit
<1>2. QED
  BY <1>1 DEF TieneNulo, Range, Propio, EnMedioDelJoin, Despachado, EnCodigo, Llego

LEMMA PunterosInvSePreserva ==
  SinPerdidasInv /\ NuloInv /\ PropioInv /\ [Next]_vars => NuloInv' /\ PropioInv'
<1> SUFFICES ASSUME SinPerdidasInv, NuloInv, PropioInv, [Next]_vars PROVE NuloInv' /\ PropioInv'
  OBVIOUS
<1>1. CASE Next
  BY <1>1, ServidorNuloInv, ClienteNuloInv, ServidorPropio, ClientePropio DEF Next, SinPerdidasInv
<1>2. CASE UNCHANGED vars
  BY <1>2 DEF vars, suseVars, hilolayVars, listas, locales, NuloInv, TieneNulo, PropioInv, Propio,
     EnMedioDelJoin, Despachado, EnCodigo, TienePropio, Llego
<1>3. QED
  BY <1>1, <1>2

LEMMA PunterosPorInv == SinPerdidasInv /\ NuloInv /\ PropioInv => PunterosValidos
<1> SUFFICES ASSUME SinPerdidasInv, NuloInv, PropioInv, NEW p \in Procs
             PROVE  /\ pc[p] = "create_admitido" \/ Atiende(p, "JOIN") => ~TieneNulo(p)
                    /\ JoinEspera(p) => HayPropio(p, estadoNew)
  BY DEF PunterosValidos
<1>1. TipoInv /\ Turno
  BY DEF SinPerdidasInv
<1>2. ASSUME pc[p] = "create_admitido" \/ Atiende(p, "JOIN") PROVE ~TieneNulo(p)
  <2>1. Llego(p, "CREATE") \/ Llego(p, "JOIN")
    BY <1>1, <1>2 DEF TipoInv, Conversacion, Atiende
  <2>2. QED
    BY <1>1, <2>1, QuienPide DEF NuloInv, Llego
<1>3. ASSUME JoinEspera(p) PROVE HayPropio(p, estadoNew)
  <2>1. EnCodigo(p) /\ exec[p] = Nulo
    BY <1>3 DEF JoinEspera, Atiende, EnCodigo
  <2>2. TienePropio(p)
    BY <2>1 DEF PropioInv, Propio
  <2>3. QED
    BY <1>1, <2>2, TiposDeListas DEF TienePropio, Range, HayPropio, HilosDe
<1>4. QED
  BY <1>2, <1>3

(* Whoever shares SUSE, CREATE and JOIN never run over a NULL of Ready, and a   *)
(* JOIN that waits for Exec finds a thread of its process in New.              *)
THEOREM PunterosSiempreValidos == Spec => []PunterosValidos
<1>1. SinPerdidasInv /\ SinPerdidasInv' /\ NuloInv /\ PropioInv /\ [Next]_vars
        => NuloInv' /\ PropioInv'
  BY PunterosInvSePreserva
<1>2. QED
  BY <1>1, PunterosInvInicial, PunterosPorInv, SinPerdidasInvariante, PTL DEF Spec

-----------------------------------------------------------------------------
(* Who runs.  The degree only matters to the main thread, which has to be    *)
(* admitted for Exec to be somebody when its program starts to run.          *)

EjecutaYo(p) == exec[p] # Nulo /\ exec[p] = Yo(p)
MainPorAdmitir(p) ==
  /\ exec[p] = Nulo /\ actual[p] = 0 /\ canal[p].arg = 0
  /\ pc[p] \in {"libre", "create"} => multiprog > 0

ConexionAcordada(p) ==
  /\ cli[p] = "corriendo" => EjecutaYo(p)
  /\ cli[p] \in {"afuera", "conectado"} => exec[p] = Nulo /\ actual[p] = 0 /\ multiprog > 0
  /\ cli[p] = "crea" /\ Llego(p, "RESPUESTA") => EjecutaYo(p)
  /\ cli[p] = "crea" /\ Llego(p, "CREATE") => EjecutaYo(p) \/ MainPorAdmitir(p)
  /\ cli[p] = "cede" /\ Llego(p, "RESPUESTA") =>
       canal[p].arg = -1 \/ (exec[p] # Nulo /\ exec[p] = <<p, canal[p].arg>>)

EjecucionInv == \A p \in Procs : ConexionAcordada(p)

LEMMA EjecucionInicial == Grado > 0 /\ Init => EjecucionInv
  BY DEF Init, CanalInit, SuseInit, HilolayInit, EjecucionInv, ConexionAcordada, Llego

(* A reply is a message that is no request. *)
LEMMA Respondido ==
  ASSUME TipoInv, NEW p \in Procs, NEW v \in Tids \cup {-1, 0}, Enviar(p, Respuesta(v))
  PROVE  /\ canal'[p] = Respuesta(v) /\ canal'[p].arg = v
         /\ Llego(p, "RESPUESTA")' /\ ~Llego(p, "CREATE")' /\ ~Llego(p, "JOIN")'
<1>1. Respuesta(v) \in Mensajes /\ Respuesta(v).tipo = "RESPUESTA" /\ Respuesta(v).arg = v
  BY EsMensaje DEF Respuesta
<1>2. canal'[p] = Respuesta(v)
  BY DEF Enviar, TipoInv, TypeOK, CanalTypeOK
<1>3. QED
  BY <1>1, <1>2, NuloSupuesto DEF Llego

LEMMA CreateAcuerda ==
  ASSUME TipoInv, Turno, NEW p \in Procs, ConexionAcordada(p), Create(p),
         UNCHANGED hilolayVars
  PROVE  ConexionAcordada(p)'
<1>1. Llego(p, "CREATE") /\ ~Llego(p, "RESPUESTA")
  BY SegunPedido DEF Llego
<1>2. cli[p] = "crea" /\ UNCHANGED <<cli, actual>>
  BY <1>1, QuienPide DEF hilolayVars
<1>3. EjecutaYo(p) \/ MainPorAdmitir(p)
  BY <1>1, <1>2 DEF ConexionAcordada
<1>4. CASE AtenderCreate(p) \/ CreateHayLugar(p)
  <2>1. UNCHANGED <<canal, exec>>
    BY <1>4 DEF AtenderCreate, CreateHayLugar, locales
  <2>2. \/ pc[p] = "libre" /\ multiprog' = multiprog
        \/ pc'[p] = "create_admitido"
    BY <1>4 DEF AtenderCreate, CreateHayLugar, Sigue, Atiende, Ir, TipoInv, TypeOK, SuseTypeOK
  <2>3. EjecutaYo(p)' \/ MainPorAdmitir(p)'
    BY <1>2, <1>3, <2>1, <2>2 DEF EjecutaYo, MainPorAdmitir, Yo
  <2>4. QED
    BY <1>1, <1>2, <2>1, <2>3 DEF ConexionAcordada, Llego
<1>5. CASE CreateQuedaEnNew(p) \/ CreateAdmitido(p)
  <2>1. Llego(p, "RESPUESTA")' /\ ~Llego(p, "CREATE")'
    BY <1>5, Respondido DEF CreateQuedaEnNew, CreateAdmitido, Responder
  <2>2. EjecutaYo(p)'
    <3>1. CASE CreateQuedaEnNew(p)
      BY <1>2, <1>3, <3>1 DEF CreateQuedaEnNew, HayLugar, locales, EjecutaYo, MainPorAdmitir, Yo
    <3>2. CASE CreateAdmitido(p)
      <4>1. <<p, canal[p].arg>> \in Hilos /\ <<p, canal[p].arg>> # Nulo
        BY <1>1, HiloPedido, NuloSupuesto
      <4>2. exec'[p] = IF exec[p] = Nulo THEN <<p, canal[p].arg>> ELSE exec[p]
        BY <3>2 DEF CreateAdmitido, TipoInv, TypeOK, SuseTypeOK
      <4>3. QED
        BY <1>2, <1>3, <4>1, <4>2 DEF EjecutaYo, MainPorAdmitir, Yo
    <3>3. QED
      BY <1>5, <3>1, <3>2
  <2>3. QED
    BY <1>2, <2>1, <2>2 DEF ConexionAcordada
<1>6. QED
  BY <1>4, <1>5 DEF Create

LEMMA ScheduleNextAcuerda ==
  ASSUME UnSoloProceso, TipoInv, Turno, NEW p \in Procs, ConexionAcordada(p), ScheduleNext(p),
         UNCHANGED hilolayVars
  PROVE  ConexionAcordada(p)'
<1>1. cli'[p] = "cede"
  BY SegunPedido, QuienPide DEF hilolayVars
<1>2. Llego(p, "SCHEDULE_NEXT") /\ ~Llego(p, "RESPUESTA")
  BY SegunPedido DEF Llego
<1>3. \A t \in Hilos : t = <<p, Tid(t)>> /\ Tid(t) \in Tids /\ t # Nulo
  BY TidDeHilo, NuloSupuesto DEF UnSoloProceso
<1>4. CASE SigueElMismo(p)
  <2>1. exec[p] \in Hilos \cup {Nulo} /\ exec' = exec
    BY <1>4 DEF SigueElMismo, locales, TipoInv, TypeOK, SuseTypeOK
  <2>2. Enviar(p, Respuesta(IF exec[p] # Nulo THEN Tid(exec[p]) ELSE -1))
    BY <1>4 DEF SigueElMismo, Responder
  <2>3. canal'[p].arg = IF exec[p] # Nulo THEN Tid(exec[p]) ELSE -1
    BY <1>3, <2>1, <2>2, Respondido
  <2>4. QED
    BY <1>1, <1>3, <2>1, <2>3 DEF ConexionAcordada
<1>5. CASE PlanificaOtro(p)
  <2>1. PICK i \in DOMAIN ready[p] :
          /\ exec' = [exec EXCEPT ![p] = ready[p][i]]
          /\ Enviar(p, Respuesta(Tid(ready[p][i]))) /\ ready[p][i] # Nulo
    BY <1>5 DEF PlanificaOtro, TieneNulo, Range, Responder
  <2>2. ready[p][i] \in Hilos /\ exec'[p] = ready[p][i]
    BY <2>1 DEF TipoInv, TypeOK, SuseTypeOK
  <2>3. canal'[p].arg = Tid(ready[p][i])
    BY <1>3, <2>1, <2>2, Respondido
  <2>4. QED
    BY <1>1, <1>3, <2>2, <2>3 DEF ConexionAcordada
<1>6. CASE PlanificaCae(p)
  BY <1>1, <1>2, <1>6 DEF PlanificaCae, Caer, ConexionAcordada, Llego
<1>7. QED
  BY <1>4, <1>5, <1>6 DEF ScheduleNext

LEMMA ServidorAcuerda ==
  ASSUME UnSoloProceso, TipoInv, Turno, EjecucionInv, NEW p \in Procs, Servidor(p)
  PROVE  ConexionAcordada(p)'
<1>1. OcupateDeEste(p) /\ UNCHANGED hilolayVars /\ UNCHANGED <<cli, actual>>
  BY DEF Servidor, hilolayVars
<1>2. ConexionAcordada(p)
  BY DEF EjecucionInv
<1>3. CASE AtenderInit(p) \/ Desconectar(p)
  <2>1. UNCHANGED <<exec, multiprog>> /\ canal'[p] = Nulo
    BY <1>3 DEF AtenderInit, Desconectar, Enviar, locales, TipoInv, TypeOK, CanalTypeOK
  <2>2. QED
    BY <1>1, <1>2, <2>1 DEF ConexionAcordada, EjecutaYo, Yo, Llego
<1>4. CASE Join(p) \/ Close(p) \/ Wait(p) \/ Signal(p)
  <2>1. cli'[p] \in {"pide", "retorna"}
    BY <1>1, <1>4, SegunPedido, QuienPide
  <2>2. QED
    BY <2>1 DEF ConexionAcordada
<1>5. QED
  BY <1>1, <1>2, <1>3, <1>4, CreateAcuerda, ScheduleNextAcuerda DEF OcupateDeEste

LEMMA ClienteAcuerda ==
  ASSUME TipoInv, Turno, EjecucionInv, NEW p \in Procs, Cliente(p)
  PROVE  ConexionAcordada(p)'
<1>1. Programa(p) /\ UNCHANGED <<exec, multiprog, pc>>
  BY DEF Cliente, suseVars, locales
<1>2. ConexionAcordada(p) /\ EnSuLugar(p)
  BY DEF EjecucionInv, Turno
<1>3. /\ cli \in [Procs -> Estados] /\ canal \in [Procs -> Mensajes \cup {Nulo}]
      /\ actual \in [Procs -> Tids \cup {0}]
  BY DEF TipoInv, TypeOK, CanalTypeOK, HilolayTypeOK
<1>4. CASE Iniciar(p)
  <2>1. cli[p] = "afuera" /\ cli'[p] = "conectado" /\ actual' = actual
    BY <1>3, <1>4 DEF Iniciar, Pasar
  <2>2. QED
    BY <1>1, <1>2, <2>1 DEF ConexionAcordada
<1>5. CASE InitInternal(p)
  <2>1. /\ cli[p] = "conectado" /\ cli'[p] = "crea" /\ actual' = actual
        /\ canal'[p] = Pedido("CREATE", 0)
    BY <1>3, <1>5 DEF InitInternal, Pasar, Enviar
  <2>2. canal'[p].arg = 0 /\ ~Llego(p, "RESPUESTA")'
    BY <2>1 DEF Pedido, Llego
  <2>3. MainPorAdmitir(p)'
    BY <1>1, <1>2, <2>1, <2>2 DEF ConexionAcordada, MainPorAdmitir
  <2>4. QED
    BY <2>1, <2>2, <2>3 DEF ConexionAcordada
<1>6. CASE HilolayCreate(p)
  <2>1. /\ cli[p] = "corriendo" /\ cli'[p] = "crea" /\ actual' = actual
        /\ canal'[p] = Pedido("CREATE", siguienteId[p])
    BY <1>3, <1>6 DEF HilolayCreate, Pedir, Pasar, Enviar
  <2>2. ~Llego(p, "RESPUESTA")'
    BY <2>1 DEF Pedido, Llego
  <2>3. EjecutaYo(p)'
    BY <1>1, <1>2, <2>1 DEF ConexionAcordada, EjecutaYo, Yo
  <2>4. QED
    BY <2>1, <2>2, <2>3 DEF ConexionAcordada
<1>7. CASE Creado(p)
  <2>1. /\ cli[p] = "crea" /\ Llego(p, "RESPUESTA") /\ cli'[p] = "corriendo" /\ actual' = actual
    BY <1>3, <1>7 DEF Creado, Pasar
  <2>2. QED
    BY <1>1, <1>2, <2>1 DEF ConexionAcordada, EjecutaYo, Yo
<1>8. CASE SwapContext(p)
  <2>1. /\ cli[p] = "cede" /\ Llego(p, "RESPUESTA") /\ cli'[p] = "corriendo"
        /\ actual'[p] = canal[p].arg /\ canal[p].arg \in 0..(siguienteId[p] - 1)
    BY <1>3, <1>8 DEF SwapContext, Pasar, Conoce
  <2>2. siguienteId[p] \in Nat /\ canal[p].arg # -1
    BY <2>1 DEF TipoInv, TypeOK, HilolayTypeOK
  <2>3. QED
    BY <1>1, <1>2, <2>1, <2>2 DEF ConexionAcordada, EjecutaYo, Yo
<1>9. CASE HilolayYield(p) \/ Ceder(p)
  <2>1. cli'[p] = "cede" /\ canal'[p] = Pedido("SCHEDULE_NEXT", SinArgumento)
    BY <1>3, <1>9 DEF HilolayYield, Ceder, Pedir, Pasar, Enviar
  <2>2. ~Llego(p, "RESPUESTA")'
    BY <2>1 DEF Pedido, Llego
  <2>3. QED
    BY <2>1, <2>2 DEF ConexionAcordada
<1>10. CASE \/ Wrap(p) \/ HilolayReturn(p) \/ Abortar(p) \/ Terminar(p)
            \/ \E tid \in Tids : HilolayJoin(p, tid)
            \/ \E s \in Nombres : HilolayWait(p, s) \/ HilolaySignal(p, s)
  <2>1. cli'[p] \in {"pide", "retorna", "abortado", "terminado"}
    BY <1>3, <1>10 DEF Wrap, HilolayReturn, HilolayJoin, HilolayWait, HilolaySignal, Pedir, Pasar,
       Abortar, Terminar
  <2>2. QED
    BY <2>1 DEF ConexionAcordada
<1>11. QED
  BY <1>1, <1>4, <1>5, <1>6, <1>7, <1>8, <1>9, <1>10 DEF Programa

(* With one process and a degree of at least one, while user code runs what  *)
(* SUSE has in Exec is the current ULT of the library.                       *)
THEOREM AcuerdoConUno == UnSoloProceso /\ Grado > 0 => (Spec => []AcuerdoDeEjecucion)
<1> SUFFICES ASSUME UnSoloProceso, Grado > 0 PROVE Spec => []AcuerdoDeEjecucion
  OBVIOUS
<1>1. Init => TipoInv /\ Turno /\ EjecucionInv
  BY TipoInvInicial, TurnoInicial, EjecucionInicial
<1>2. TipoInv /\ Turno /\ EjecucionInv /\ [Next]_vars => EjecucionInv'
  <2> SUFFICES ASSUME TipoInv, Turno, EjecucionInv, [Next]_vars PROVE EjecucionInv'
    OBVIOUS
  <2>1. CASE Next
    <3>1. PICK p \in Procs : Servidor(p) \/ Cliente(p)
      BY <2>1 DEF Next
    <3>2. ConexionAcordada(p)'
      BY <3>1, ServidorAcuerda, ClienteAcuerda
    <3>3. QED
      BY <3>2 DEF EjecucionInv, UnSoloProceso
  <2>2. CASE UNCHANGED vars
    BY <2>2 DEF vars, suseVars, hilolayVars, locales, EjecucionInv, ConexionAcordada, EjecutaYo,
       MainPorAdmitir, Yo, Llego
  <2>3. QED
    BY <2>1, <2>2
<1>3. EjecucionInv => AcuerdoDeEjecucion
  BY DEF EjecucionInv, ConexionAcordada, EjecutaYo, AcuerdoDeEjecucion, Corriendo
<1>4. QED
  BY <1>1, <1>2, <1>3, TurnoSePreserva, TipoInvSePreserva, PTL DEF Spec

-----------------------------------------------------------------------------
(* The joins.                                                                *)

(* A list that holds one of the wanted has a first one. *)
LEMMA HayPrimero ==
  ASSUME NEW S, NEW lista \in Seq(S), NEW buscados, NEW x \in Range(lista), x \in buscados
  PROVE  Primeros(lista, buscados) # {}
<1> DEFINE T == {i \in DOMAIN lista : lista[i] \in buscados}
<1>1. T # {}
  BY DEF Range
<1>2. T \subseteq Nat /\ DOMAIN lista = 1..Len(lista) /\ Len(lista) \in Nat
  OBVIOUS
<1>3. PICK i \in T : \A j \in T : <<j, i>> \notin OpToRel(<, Nat)
  <2> HIDE DEF T
  <2>1. QED
    BY <1>1, <1>2, NatLessThanWellFounded, WFMin
<1>4. \A j \in 1..(i - 1) : lista[j] \notin buscados
  <2> SUFFICES ASSUME NEW j \in 1..(i - 1), lista[j] \in buscados PROVE FALSE
    OBVIOUS
  <2>1. j \in T /\ j < i /\ j \in Nat /\ i \in Nat
    BY <1>2
  <2>2. <<j, i>> \in OpToRel(<, Nat)
    BY <2>1 DEF OpToRel
  <2>3. QED
    BY <1>3, <2>1, <2>2
<1>5. QED
  BY <1>3, <1>4 DEF Primeros

(* What list_find finds of a tid, and that it finds it if it is there. *)
LEMMA Hallar ==
  ASSUME NEW S, NEW lista \in Seq(S), NEW tid
  PROVE  /\ \A t \in En(lista, tid) : t \in Hilos /\ Tid(t) = tid
         /\ En(lista, tid) = {} => \A t \in Hilos : Tid(t) = tid => t \notin Range(lista)
<1>1. \A t \in En(lista, tid) : t \in Hilos /\ Tid(t) = tid
  BY DEF En, Primeros
<1>2. ASSUME En(lista, tid) = {}, NEW t \in Hilos, Tid(t) = tid, t \in Range(lista)
      PROVE  FALSE
  <2>1. Primeros(lista, {u \in Hilos : Tid(u) = tid}) # {}
    BY <1>2, HayPrimero
  <2>2. QED
    BY <1>2, <2>1 DEF En
<1>3. QED
  BY <1>1, <1>2

(* The thread a program joins was created by it, and the handler keeps       *)
(* between its critical sections what it found, or did not find, of it.      *)
Unido(p) == <<p, canal[p].arg>>
JoinInv ==
  \A p \in Procs :
    /\ Llego(p, "JOIN") => canal[p].arg \in 1..(siguienteId[p] - 1)
    /\ pc[p] = "join_bloquear" => objetivo[p] = Unido(p)
    /\ pc[p] = "join_blocked" => Unido(p) \notin Range(estadoNew) \cup Range(ready[p])

LEMMA JoinInvInicial == Init => JoinInv
  BY DEF Init, CanalInit, SuseInit, HilolayInit, JoinInv, Llego

LEMMA UnidoEsHilo ==
  ASSUME UnSoloProceso, TipoInv, NEW p \in Procs, Llego(p, "JOIN")
  PROVE  /\ Unido(p) \in Hilos
         /\ \A t \in Hilos : Tid(t) = canal[p].arg => t = Unido(p)
<1>1. \A t \in Hilos : t = <<p, Tid(t)>>
  BY TidDeHilo DEF UnSoloProceso
<1>2. canal[p].arg \in Tids
  BY ArgumentoDeMensaje DEF TipoInv, TypeOK, CanalTypeOK, Llego
<1>3. canal[p].arg \in 0..UltimoTid[p]
  BY <1>2 DEF Tids, UnSoloProceso
<1>4. Unido(p) \in Hilos
  BY <1>3, HiloDeProceso DEF Unido
<1>5. QED
  BY <1>1, <1>4 DEF Unido

LEMMA JoinConserva ==
  ASSUME UnSoloProceso, TipoInv, JoinInv, NEW p \in Procs, Join(p), UNCHANGED hilolayVars
  PROVE  JoinInv'
<1>1. Llego(p, "JOIN")
  BY SegunPedido
<1>2. \A q \in Procs : q = p
  BY DEF UnSoloProceso
<1>3. canal[p].arg \in 1..(siguienteId[p] - 1) /\ siguienteId' = siguienteId
  BY <1>1 DEF JoinInv, hilolayVars
<1>4. /\ Unido(p) \in Hilos /\ Tid(Unido(p)) = canal[p].arg
      /\ \A t \in Hilos : Tid(t) = canal[p].arg => t = Unido(p)
  BY <1>1, UnidoEsHilo DEF Unido, Tid
<1>5. /\ pc \in [Procs -> Puntos] /\ objetivo \in [Procs -> Hilos \cup {Nulo}]
      /\ estadoNew \in Seq(Hilos) /\ ready[p] \in Seq(Hilos \cup {Nulo})
      /\ estadoBlocked \in Seq(Hilos)
  BY DEF TipoInv, TypeOK, SuseTypeOK
<1>6. CASE JoinDespacha(p) \/ JoinDescuenta(p) \/ JoinArrastra(p) \/ JoinSaltea(p) \/ JoinVuelve(p)
  <2>1. canal' = canal /\ pc'[p] \notin {"join_bloquear", "join_blocked"}
    BY <1>5, <1>6 DEF JoinDespacha, JoinDescuenta, JoinArrastra, JoinSaltea, JoinVuelve, Sigue, Ir
  <2>2. QED
    BY <1>2, <1>3, <2>1 DEF JoinInv
<1>7. CASE JoinEncuentra(p) \/ JoinEncuentraBlocked(p)
  <2>1. canal' = canal /\ pc'[p] = "join_bloquear"
    BY <1>5, <1>7 DEF JoinEncuentra, JoinEncuentraBlocked, Sigue, Ir
  <2>2. PICK t : /\ t \in Hallados(p, canal[p].arg) \cup En(estadoBlocked, canal[p].arg)
                 /\ objetivo' = [objetivo EXCEPT ![p] = t]
    BY <1>7 DEF JoinEncuentra, JoinEncuentraBlocked
  <2>3. t \in Hilos /\ Tid(t) = canal[p].arg
    BY <1>5, <2>2, Hallar DEF Hallados
  <2>4. objetivo'[p] = Unido(p)
    BY <1>4, <1>5, <2>2, <2>3
  <2>5. QED
    BY <1>2, <1>3, <2>1, <2>4 DEF JoinInv, Unido
<1>8. CASE JoinSigueBuscando(p)
  <2>1. canal' = canal /\ pc'[p] = "join_blocked" /\ UNCHANGED <<estadoNew, ready>>
    BY <1>5, <1>8 DEF JoinSigueBuscando, Ir, listas, locales
  <2>2. En(estadoNew, canal[p].arg) = {} /\ En(ready[p], canal[p].arg) = {}
    BY <1>8 DEF JoinSigueBuscando, Hallados
  <2>3. Unido(p) \notin Range(estadoNew) /\ Unido(p) \notin Range(ready[p])
    BY <1>4, <1>5, <2>2, Hallar
  <2>4. QED
    BY <1>2, <1>3, <2>1, <2>3 DEF JoinInv, Unido
<1>9. CASE JoinNoEncuentra(p) \/ JoinBloquea(p)
  <2>1. ~Llego(p, "JOIN")' /\ pc'[p] = "libre"
    BY <1>5, <1>9, Respondido DEF JoinNoEncuentra, JoinBloquea, Responder, Ir
  <2>2. QED
    BY <1>2, <2>1 DEF JoinInv
<1>10. QED
  BY <1>6, <1>7, <1>8, <1>9 DEF Join

(* The other requests have nothing of a join in progress. *)
LEMMA SinJoin ==
  ASSUME UnSoloProceso, NEW p \in Procs, ~Llego(p, "JOIN")', pc'[p] \notin EnJoin
  PROVE  JoinInv'
  BY DEF JoinInv, UnSoloProceso, EnJoin

LEMMA ServidorJoinInv ==
  ASSUME UnSoloProceso, TipoInv, JoinInv, NEW p \in Procs, Servidor(p)
  PROVE  JoinInv'
<1>1. OcupateDeEste(p) /\ UNCHANGED hilolayVars
  BY DEF Servidor
<1>2. CASE Join(p)
  BY <1>1, <1>2, JoinConserva
<1>3. CASE AtenderInit(p) \/ Desconectar(p)
  <2>1. canal'[p] = Nulo /\ pc'[p] \notin EnJoin
    BY <1>3 DEF AtenderInit, Desconectar, Sigue, Ir, Enviar, EnJoin, TipoInv, TypeOK, CanalTypeOK,
       SuseTypeOK
  <2>2. QED
    BY <2>1, SinJoin DEF Llego
<1>4. CASE Create(p) \/ ScheduleNext(p) \/ Close(p) \/ Wait(p) \/ Signal(p)
  <2>1. EfectoEnTurno(p) /\ ~Llego(p, "JOIN")
    BY <1>4, SegunPedido, CreateEfecto, ScheduleNextEfecto, CloseEfecto, WaitYSignalEfecto DEF Llego
  <2>2. pc[p] \notin EnJoin
    BY <2>1 DEF TipoInv, Conversacion, EnJoin
  <2>3. ~Llego(p, "JOIN")' /\ pc'[p] \notin EnJoin
    <3>1. CASE Responde(p)
      BY <3>1 DEF Responde, Respuesta, EnJoin, Llego
    <3>2. CASE ~Responde(p)
      BY <2>1, <2>2, <3>2 DEF EfectoEnTurno, Avanza, EnCreate, EnClose, EnJoin, Llego
    <3>3. QED
      BY <3>1, <3>2
  <2>4. QED
    BY <2>3, SinJoin
<1>5. QED
  BY <1>1, <1>2, <1>3, <1>4 DEF OcupateDeEste

LEMMA ClienteSinJoin ==
  ASSUME TipoInv, Turno, NEW p \in Procs, Cliente(p)
  PROVE  ~Llego(p, "JOIN") /\ pc'[p] \notin EnJoin
<1>1. EfectoCliente(p) /\ pc' = pc
  BY ClienteEfecto DEF Cliente, suseVars
<1>2. Vacio(p) \/ Llego(p, "RESPUESTA")
  BY <1>1 DEF EfectoCliente, PideCreate, PideOtro, Recibe, Va
<1>3. ~Llego(p, "JOIN")
  BY <1>2 DEF Vacio, Llego
<1>4. QED
  BY <1>1, <1>3 DEF TipoInv, Conversacion, EnJoin

LEMMA ClienteJoinInv ==
  ASSUME UnSoloProceso, TipoInv, Turno, JoinInv, NEW p \in Procs, Cliente(p)
  PROVE  JoinInv'
<1>1. pc'[p] \notin EnJoin
  BY ClienteSinJoin
<1>2. canal \in [Procs -> Mensajes \cup {Nulo}]
  BY DEF TipoInv, TypeOK, CanalTypeOK
<1>3. ASSUME NEW tid \in Tids, HilolayJoin(p, tid) PROVE JoinInv'
  <2>1. /\ canal'[p] = Pedido("JOIN", tid) /\ siguienteId' = siguienteId
        /\ tid \in 1..(siguienteId[p] - 1)
    BY <1>2, <1>3 DEF HilolayJoin, Pedir, Enviar
  <2>2. QED
    BY <1>1, <2>1 DEF JoinInv, UnSoloProceso, EnJoin, Pedido
<1>4. CASE ~\E tid \in Tids : HilolayJoin(p, tid)
  <2>1. canal'[p] = Nulo \/ (canal'[p] # Nulo => canal'[p].tipo # "JOIN")
    BY <1>2, <1>4 DEF Cliente, Programa, Iniciar, InitInternal, HilolayCreate, Creado, HilolayYield,
       HilolayWait, HilolaySignal, Wrap, HilolayReturn, Ceder, SwapContext, Abortar, Terminar,
       Pedir, Enviar, Pedido, Fin
  <2>2. QED
    BY <1>1, <2>1, SinJoin DEF Llego
<1>5. QED
  BY <1>3, <1>4

(* The answer of a join that was not waiting for a thread to execute. *)
RespuestaCorrecta(p) ==
  LET u == Unido(p) IN
  Llego(p, "JOIN") /\ exec[p] # Nulo /\ canal[p]' = Respuesta(0) =>
    \/ u = exec[p] \/ u \in Range(estadoExit)
    \/ Tid(exec[p]) \in Range(tidsEsperando'[u])

LEMMA JoinResponde ==
  ASSUME UnSoloProceso, SinPerdidasInv, JoinInv, NEW p \in Procs, [Next]_vars
  PROVE  RespuestaCorrecta(p)
<1> USE DEF SinPerdidasInv
<1> SUFFICES ASSUME Llego(p, "JOIN"), exec[p] # Nulo, canal'[p] = Respuesta(0)
             PROVE  \/ Unido(p) = exec[p] \/ Unido(p) \in Range(estadoExit)
                    \/ Tid(exec[p]) \in Range(tidsEsperando'[Unido(p)])
  BY DEF RespuestaCorrecta
<1>1. canal'[p] # canal[p]
  BY DEF Llego, Respuesta
<1>2. OcupateDeEste(p)
  <2>1. ~UNCHANGED vars
    BY <1>1 DEF vars
  <2>2. PICK q \in Procs : Servidor(q) \/ Cliente(q)
    BY <2>1 DEF Next
  <2>3. q = p
    BY DEF UnSoloProceso
  <2>4. QED
    BY <2>2, <2>3, ClienteSinJoin DEF Servidor
<1>3. Join(p)
  BY <1>2, SegunPedido DEF OcupateDeEste, AtenderInit, Desconectar, Atiende, Llego
<1>4. JoinNoEncuentra(p) \/ JoinBloquea(p)
  BY <1>1, <1>3 DEF Join, JoinDespacha, JoinDescuenta, JoinArrastra, JoinSaltea, JoinVuelve,
     JoinEncuentra, JoinSigueBuscando, JoinEncuentraBlocked
<1>5. Unido(p) \in Hilos /\ Tid(Unido(p)) = canal[p].arg /\ Pid(Unido(p)) = p
  BY UnidoEsHilo DEF Unido, Tid, Pid
<1>6. CASE JoinNoEncuentra(p)
  <2>1. pc[p] = "join_blocked" /\ En(estadoBlocked, canal[p].arg) = {}
    BY <1>6 DEF JoinNoEncuentra
  <2>2. Unido(p) \notin Range(estadoNew) \cup Range(ready[p]) \cup Range(estadoBlocked)
    BY <1>5, <2>1, TiposDeListas, Hallar DEF JoinInv
  <2>3. Creada(Unido(p))
    <3>1. cli[p] = "pide" /\ ~Llego(p, "CREATE")
      BY QuienPide DEF Llego
    <3>2. canal[p].arg \in 1..(siguienteId[p] - 1) /\ siguienteId[p] \in Nat
      BY DEF JoinInv, SiguienteInv
    <3>3. QED
      BY <1>5, <3>1, <3>2 DEF Creada
  <2>4. \E q \in Procs : Unido(p) \in Lugares(q)
    BY <1>5, <2>3 DEF NadieSePierde
  <2>5. QED
    BY <2>2, <2>4 DEF Lugares, UnSoloProceso
<1>7. CASE JoinBloquea(p)
  <2>1. objetivo[p] = Unido(p)
    BY <1>7 DEF JoinBloquea, JoinInv
  <2>2. tidsEsperando \in [Hilos -> Seq(Tids)]
    BY DEF TipoInv, TypeOK, SuseTypeOK
  <2>3. tidsEsperando'[Unido(p)] = Append(tidsEsperando[Unido(p)], Tid(exec[p]))
    BY <1>5, <1>7, <2>1, <2>2 DEF JoinBloquea
  <2>4. QED
    BY <1>5, <2>2, <2>3, RangoAgregar
<1>8. QED
  BY <1>4, <1>6, <1>7

(* With one process, a join with a thread in Exec is only answered when the  *)
(* joined one has ended, is the caller itself or will wake the caller: the   *)
(* search of the handler, in three steps, never misses a live thread.        *)
THEOREM JoinConUno == UnSoloProceso => (Spec => JoinRegistrado)
<1> SUFFICES ASSUME UnSoloProceso PROVE Spec => JoinRegistrado
  OBVIOUS
<1>1. TipoInv /\ Turno /\ JoinInv /\ [Next]_vars => JoinInv'
  <2> SUFFICES ASSUME TipoInv, Turno, JoinInv, [Next]_vars PROVE JoinInv'
    OBVIOUS
  <2>1. CASE Next
    BY <2>1, ServidorJoinInv, ClienteJoinInv DEF Next
  <2>2. CASE UNCHANGED vars
    BY <2>2 DEF vars, suseVars, hilolayVars, listas, locales, enCurso, JoinInv, Unido, Llego
  <2>3. QED
    BY <2>1, <2>2
<1>2. SinPerdidasInv => TipoInv /\ Turno
  BY DEF SinPerdidasInv
<1>3. SinPerdidasInv /\ JoinInv /\ [Next]_vars => [\A p \in Procs : RespuestaCorrecta(p)]_vars
  BY JoinResponde
<1>4. (\A p \in Procs : RespuestaCorrecta(p)) =>
        \A p \in Procs :
          LET u == <<p, canal[p].arg>> IN
          Llego(p, "JOIN") /\ exec[p] # Nulo /\ canal[p]' = Respuesta(0) =>
            \/ u = exec[p] \/ u \in Range(estadoExit)
            \/ Tid(exec[p]) \in Range(tidsEsperando'[u])
  BY DEF RespuestaCorrecta, Unido
<1>5. QED
  BY <1>1, <1>2, <1>3, <1>4, JoinInvInicial, SinPerdidasInvariante, PTL DEF Spec, JoinRegistrado

-----------------------------------------------------------------------------
(* A lone process: where each thread is, who will wake it, and what the degree  *)
(* of multiprogramming counts.                                             *)

(* The free slots.                                                           *)

(* The thread of the CREATE that is attended. *)
Nueva(p) == <<p, canal[p].arg>>

(* While a slot is free nobody waits in New, but for the thread that a CREATE  *)
(* has just put there and for the one that a CLOSE is about to admit.        *)
OcioInv ==
  \A p \in Procs :
    /\ pc[p] \notin {"create", "create_admitido", "close_admitir", "close_descontar"} =>
         estadoNew = <<>> \/ multiprog <= 0
    /\ pc[p] = "create" => estadoNew = <<Nueva(p)>> \/ multiprog <= 0
    /\ pc[p] = "create_admitido" => estadoNew = <<Nueva(p)>>
    /\ pc[p] \in {"close_admitir", "close_descontar"} =>
         (estadoNew = <<>> \/ multiprog <= 1) /\ multiprog > 0
    /\ pc[p] \notin {"join_descontar", "join_arrastrar"}
    /\ multiprog >= 0

LEMMA OcioInicial == Init => OcioInv
  BY SuseSupuesto DEF Init, SuseInit, OcioInv

(* A step that leaves New and the degree alone, away from those points. *)
LEMMA OcioQuieto ==
  ASSUME UnSoloProceso, OcioInv, NEW p \in Procs, UNCHANGED <<estadoNew, multiprog>>,
         pc[p] \notin EnCreate \cup {"close_admitir", "close_descontar"},
         pc'[p] \notin EnCreate \cup {"close_admitir", "close_descontar", "join_descontar",
                                      "join_arrastrar"}
  PROVE  OcioInv'
  BY DEF OcioInv, UnSoloProceso, EnCreate

(* With one process all the threads of a list are its own. *)
LEMMA TodosPropios ==
  ASSUME UnSoloProceso, NEW p \in Procs, NEW lista \in Seq(Hilos), ~HayPropio(p, lista)
  PROVE  lista = <<>>
<1>1. \A t \in Hilos : t \in HilosDe(p)
  BY TidDeHilo DEF HilosDe, UnSoloProceso
<1>2. \A i \in 1..Len(lista) : lista[i] \in Hilos
  OBVIOUS
<1>3. Len(lista) \in Nat /\ (Len(lista) = 0 => lista = <<>>)
  OBVIOUS
<1>4. ~ 1 \in 1..Len(lista)
  BY <1>1, <1>2 DEF HayPropio
<1>5. QED
  BY <1>3, <1>4

LEMMA SacarElUnico ==
  ASSUME NEW t \in Hilos, NEW r \in Sin(<<t>>, t)
  PROVE  r = <<>>
<1>1. <<t>> \in Seq(Hilos) /\ Len(<<t>>) = 1 /\ t \in Range(<<t>>)
  BY DEF Range
<1>2. PICK i \in Primeros(<<t>>, {t}) : r = RemoveAt(<<t>>, i)
  BY <1>1 DEF Sin
<1>3. i \in 1..Len(<<t>>)
  BY <1>1, PrimerosEnLista
<1>4. RemoveAt(<<t>>, i) \in Seq(Hilos) /\ Len(RemoveAt(<<t>>, i)) = Len(<<t>>) - 1
  BY <1>1, <1>3, QuitarEnLista
<1>5. r \in Seq(Hilos) /\ Len(r) = 0
  BY <1>1, <1>2, <1>4
<1>6. QED
  BY <1>5

LEMMA CreateOcio ==
  ASSUME UnSoloProceso, TipoInv, OcioInv, NEW p \in Procs, Create(p)
  PROVE  OcioInv'
<1>1. /\ pc \in [Procs -> Puntos] /\ multiprog \in Int /\ estadoNew \in Seq(Hilos)
      /\ \A q \in Procs : q = p
  BY DEF TipoInv, TypeOK, SuseTypeOK, UnSoloProceso
<1>2. CASE AtenderCreate(p)
  <2>1. /\ estadoNew' = Append(estadoNew, Nueva(p)) /\ UNCHANGED <<multiprog, canal>>
        /\ pc[p] = "libre" /\ pc'[p] = "create"
    BY <1>1, <1>2 DEF AtenderCreate, Atiende, Ir, Nueva
  <2>2. Append(<<>>, Nueva(p)) = <<Nueva(p)>>
    OBVIOUS
  <2>3. QED
    BY <1>1, <2>1, <2>2 DEF OcioInv, Nueva
<1>3. CASE CreateHayLugar(p)
  <2>1. /\ pc[p] = "create" /\ pc'[p] = "create_admitido" /\ UNCHANGED <<estadoNew, canal>>
        /\ multiprog > 0 /\ multiprog' = multiprog - 1
    BY <1>1, <1>3 DEF CreateHayLugar, Sigue, Ir, HayLugar, listas
  <2>2. QED
    BY <1>1, <2>1 DEF OcioInv, Nueva
<1>4. CASE CreateQuedaEnNew(p)
  <2>1. pc'[p] = "libre" /\ ~(multiprog > 0) /\ UNCHANGED <<estadoNew, multiprog>>
    BY <1>1, <1>4 DEF CreateQuedaEnNew, Responder, Ir, HayLugar, listas
  <2>2. QED
    BY <1>1, <2>1 DEF OcioInv
<1>5. CASE CreateAdmitido(p)
  <2>1. /\ pc[p] = "create_admitido" /\ pc'[p] = "libre" /\ UNCHANGED multiprog
        /\ estadoNew' \in Sin(estadoNew, Nueva(p))
    BY <1>1, <1>5 DEF CreateAdmitido, Responder, Ir, Nueva
  <2>2. Nueva(p) \in Hilos
    BY <2>1, HiloPedido DEF TipoInv, Conversacion, Nueva
  <2>3. estadoNew' = <<>>
    BY <2>1, <2>2, SacarElUnico DEF OcioInv
  <2>4. QED
    BY <1>1, <2>1, <2>3 DEF OcioInv
<1>6. QED
  BY <1>2, <1>3, <1>4, <1>5 DEF Create

(* No join waits for Exec: it would need a free slot and somebody in New. *)
LEMMA NadieDespachaEnJoin ==
  ASSUME UnSoloProceso, TipoInv, OcioInv, NEW p \in Procs
  PROVE  /\ ~JoinDespacha(p) /\ ~JoinDescuenta(p) /\ ~JoinArrastra(p)
         /\ ~JoinSaltea(p) /\ ~JoinVuelve(p)
<1>1. pc[p] \notin {"join_descontar", "join_arrastrar"}
  BY DEF OcioInv
<1>2. ~JoinDescuenta(p) /\ ~JoinArrastra(p) /\ ~JoinSaltea(p) /\ ~JoinVuelve(p)
  BY <1>1 DEF JoinDescuenta, JoinArrastra, JoinSaltea, JoinVuelve, Sigue
<1>3. ASSUME JoinDespacha(p) PROVE FALSE
  <2>1. pc[p] = "libre" /\ multiprog > 0 /\ multiprog \in Int
    BY <1>3 DEF JoinDespacha, JoinEspera, Atiende, HayLugar, TipoInv, TypeOK, SuseTypeOK
  <2>2. estadoNew = <<>>
    BY <2>1 DEF OcioInv
  <2>3. PICK orden \in Ordenamientos(estadoNew) : Primeros(orden, HilosDe(p)) # {}
    BY <1>3 DEF JoinDespacha
  <2>4. orden \in Seq(Hilos) /\ Range(orden) = Range(estadoNew)
    BY TiposDeListas, OrdenamientoEnLista, RangoOrden
  <2>5. PICK i \in 1..Len(orden) : orden[i] \in Range(orden)
    BY <2>3, <2>4, PrimerosEnLista DEF Range
  <2>6. QED
    BY <2>2, <2>4, <2>5 DEF Range
<1>4. QED
  BY <1>2, <1>3

LEMMA JoinOcio ==
  ASSUME UnSoloProceso, TipoInv, OcioInv, NEW p \in Procs, Join(p)
  PROVE  OcioInv'
<1>1. \/ JoinEncuentra(p) \/ JoinSigueBuscando(p) \/ JoinEncuentraBlocked(p)
      \/ JoinNoEncuentra(p) \/ JoinBloquea(p)
  BY NadieDespachaEnJoin DEF Join
<1>2. pc \in [Procs -> Puntos]
  BY DEF TipoInv, TypeOK, SuseTypeOK
<1>3. /\ UNCHANGED <<estadoNew, multiprog>>
      /\ pc[p] \in {"libre", "join_blocked", "join_bloquear"}
      /\ pc'[p] \in {"libre", "join_blocked", "join_bloquear"}
  BY <1>1, <1>2 DEF JoinEncuentra, JoinSigueBuscando, JoinEncuentraBlocked, JoinNoEncuentra,
     JoinBloquea, JoinBusca, Atiende, Sigue, Responder, Ir, listas
<1>4. QED
  BY <1>3, OcioQuieto DEF EnCreate

LEMMA CloseOcio ==
  ASSUME UnSoloProceso, TipoInv, OcioInv, NEW p \in Procs, Close(p)
  PROVE  OcioInv'
<1>1. /\ pc \in [Procs -> Puntos] /\ multiprog \in Int /\ estadoNew \in Seq(Hilos)
      /\ \A q \in Procs : q = p
  BY DEF TipoInv, TypeOK, SuseTypeOK, UnSoloProceso
<1>2. CASE AtenderClose(p) \/ CloseNoEjecuta(p) \/ CloseDespierta(p)
  <2>1. /\ UNCHANGED <<estadoNew, multiprog>> /\ pc[p] \in {"libre", "close_despertar"}
        /\ pc'[p] \in {"libre", "close_despertar"}
    BY <1>1, <1>2 DEF AtenderClose, CloseNoEjecuta, CloseDespierta, Atiende, Responder, Ir, listas
  <2>2. QED
    BY <2>1, OcioQuieto DEF EnCreate
<1>3. CASE CloseLibera(p)
  <2>1. /\ pc[p] = "close_despertar" /\ pc'[p] = "close_admitir" /\ estadoNew' = estadoNew
        /\ multiprog' = IF multiprog < 3 THEN multiprog + 1 ELSE multiprog
    BY <1>1, <1>3 DEF CloseLibera, Sigue, Ir, GradoDevuelto, listas
  <2>2. QED
    BY <1>1, <2>1 DEF OcioInv
<1>4. CASE CloseAdmite(p)
  <2>1. pc[p] = "close_admitir" /\ pc'[p] = "close_descontar" /\ multiprog' = multiprog
    BY <1>1, <1>4 DEF CloseAdmite, Sigue, Ir
  <2>2. estadoNew # <<>>
    <3>1. PICK i \in Primeros(estadoNew, HilosDe(p)) : TRUE
      BY <1>4 DEF CloseAdmite
    <3>2. i \in 1..Len(estadoNew)
      BY <1>1, PrimerosEnLista
    <3>3. QED
      BY <3>2
  <2>3. QED
    BY <1>1, <2>1, <2>2 DEF OcioInv
<1>5. CASE CloseSinNuevos(p)
  <2>1. /\ pc[p] = "close_admitir" /\ pc'[p] = "libre" /\ UNCHANGED <<estadoNew, multiprog>>
        /\ ~HayPropio(p, estadoNew)
    BY <1>1, <1>5 DEF CloseSinNuevos, Responder, Ir, listas
  <2>2. estadoNew = <<>>
    BY <1>1, <2>1, TodosPropios
  <2>3. QED
    BY <1>1, <2>1, <2>2 DEF OcioInv
<1>6. CASE CloseDescuenta(p)
  <2>1. /\ pc[p] = "close_descontar" /\ pc'[p] = "libre" /\ estadoNew' = estadoNew
        /\ multiprog' = multiprog - 1
    BY <1>1, <1>6 DEF CloseDescuenta, Responder, Ir, listas
  <2>2. QED
    BY <1>1, <2>1 DEF OcioInv
<1>7. QED
  BY <1>2, <1>3, <1>4, <1>5, <1>6 DEF Close

LEMMA ServidorOcio ==
  ASSUME UnSoloProceso, TipoInv, OcioInv, NEW p \in Procs, Servidor(p)
  PROVE  OcioInv'
<1>1. OcupateDeEste(p)
  BY DEF Servidor
<1>2. pc \in [Procs -> Puntos]
  BY DEF TipoInv, TypeOK, SuseTypeOK
<1>3. CASE AtenderInit(p) \/ Desconectar(p) \/ SigueElMismo(p) \/ PlanificaOtro(p)
  <2>1. /\ UNCHANGED <<estadoNew, multiprog>> /\ pc[p] \in {"nuevo", "libre"}
        /\ pc'[p] \in {"libre", "cerrado"}
    BY <1>2, <1>3 DEF AtenderInit, Desconectar, SigueElMismo, PlanificaOtro, Atiende, Sigue,
       Responder, Ir, listas
  <2>2. QED
    BY <2>1, OcioQuieto DEF EnCreate
<1>4. CASE PlanificaCae(p) \/ WaitCae(p)
  BY <1>4 DEF PlanificaCae, WaitCae, Caer, listas, OcioInv, Nueva
<1>5. CASE (Wait(p) /\ ~WaitCae(p)) \/ Signal(p)
  <2>1. UNCHANGED <<estadoNew, multiprog>> /\ pc[p] = "libre" /\ pc'[p] = "libre"
    BY <1>2, <1>5 DEF Wait, WaitPasa, WaitBloquea, WaitDesconocido, Signal, SignalSube,
       SignalTraba, SignalDespierta, SignalSinPropios, SignalDesconocido, AtiendeSemaforo,
       Atiende, Responder, Ir, listas
  <2>2. QED
    BY <2>1, OcioQuieto DEF EnCreate
<1>6. QED
  BY <1>1, <1>3, <1>4, <1>5, CreateOcio, JoinOcio, CloseOcio DEF OcupateDeEste, ScheduleNext

(* A program only moves while SUSE has no request of it in hand. *)
LEMMA ClienteSinPedido ==
  ASSUME TipoInv, Turno, NEW p \in Procs, Cliente(p)
  PROVE  /\ pc[p] \notin EnCreate \cup EnJoin \cup EnClose
         /\ UNCHANGED <<suseVars, pc>>
<1>1. EfectoCliente(p) /\ UNCHANGED <<suseVars, pc>>
  BY ClienteEfecto DEF Cliente, suseVars
<1>2. Vacio(p) \/ Llego(p, "RESPUESTA")
  BY <1>1 DEF EfectoCliente, PideCreate, PideOtro, Recibe, Va
<1>3. ~Llego(p, "JOIN") /\ ~Llego(p, "CREATE") /\ ~Llego(p, "CLOSE")
  BY <1>2 DEF Vacio, Llego
<1>4. QED
  BY <1>1, <1>3 DEF TipoInv, Conversacion, EnCreate, EnJoin, EnClose

LEMMA OcioSePreserva ==
  UnSoloProceso /\ TipoInv /\ Turno /\ OcioInv /\ [Next]_vars => OcioInv'
<1> SUFFICES ASSUME UnSoloProceso, TipoInv, Turno, OcioInv, [Next]_vars PROVE OcioInv'
  OBVIOUS
<1>1. CASE UNCHANGED vars
  BY <1>1 DEF vars, suseVars, listas, OcioInv, Nueva
<1>2. CASE Next
  <2>1. PICK p \in Procs : Servidor(p) \/ Cliente(p)
    BY <1>2 DEF Next
  <2>2. CASE Cliente(p)
    <3>1. pc[p] \notin EnCreate \cup EnJoin \cup EnClose /\ UNCHANGED <<pc, estadoNew, multiprog>>
      BY <2>2, ClienteSinPedido DEF suseVars, listas
    <3>2. QED
      BY <3>1, OcioQuieto DEF EnCreate, EnJoin, EnClose
  <2>3. QED
    BY <2>1, <2>2, ServidorOcio
<1>3. QED
  BY <1>1, <1>2

(* With one process no slot is left free while a thread waits for one, for any *)
(* degree: a CREATE takes it at once and a CLOSE hands it to the first in New.  *)
THEOREM SinLugarOciosoConUno == UnSoloProceso => (Spec => []SinLugarOcioso)
<1> SUFFICES ASSUME UnSoloProceso PROVE Spec => []SinLugarOcioso
  OBVIOUS
<1>1. Init => TipoInv /\ Turno /\ OcioInv
  BY TipoInvInicial, TurnoInicial, OcioInicial
<1>2. OcioInv /\ TipoInv => SinLugarOcioso
  <2> SUFFICES ASSUME OcioInv, TipoInv, EnReposo PROVE estadoNew = <<>> \/ multiprog <= 0
    BY DEF SinLugarOcioso
  <2>1. CASE Procs = {}
    <3>1. Hilos = {}
      BY <2>1, TidDeHilo
    <3>2. estadoNew \in Seq({})
      BY <3>1 DEF TipoInv, TypeOK, SuseTypeOK
    <3>3. QED
      BY <3>2
  <2>2. CASE Procs # {}
    <3>1. PICK p \in Procs : pc[p] \in {"nuevo", "libre", "cerrado"}
      BY <2>2 DEF EnReposo
    <3>2. QED
      BY <3>1 DEF OcioInv
  <2>3. QED
    BY <2>1, <2>2
<1>3. QED
  BY <1>1, <1>2, OcioSePreserva, TurnoSePreserva, TipoInvSePreserva, PTL DEF Spec

-----------------------------------------------------------------------------
(* Lists without repetitions.                                                *)

LEMMA AgregarSinRepetir ==
  ASSUME NEW S, NEW lista \in Seq(S), IsInjective(lista), NEW x \in S, x \notin Range(lista)
  PROVE  /\ IsInjective(Append(lista, x)) /\ Range(Append(lista, x)) = Range(lista) \cup {x}
         /\ Len(Append(lista, x)) = Len(lista) + 1
<1> DEFINE n == Len(lista)
           r == Append(lista, x)
<1>1. /\ n \in Nat /\ DOMAIN lista = 1..n /\ DOMAIN r = 1..(n + 1) /\ Len(r) = n + 1
      /\ r[n + 1] = x /\ \A i \in 1..n : r[i] = lista[i]
  BY AppendProperties
<1> HIDE DEF n, r
<1>2. ASSUME NEW i \in 1..n PROVE lista[i] # x
  BY <1>1, <1>2 DEF Range
<1>3. \A i, j \in 1..(n + 1) : r[i] = r[j] => i = j
  <2> SUFFICES ASSUME NEW i \in 1..(n + 1), NEW j \in 1..(n + 1), r[i] = r[j] PROVE i = j
    OBVIOUS
  <2>1. (i \in 1..n \/ i = n + 1) /\ (j \in 1..n \/ j = n + 1)
    BY <1>1
  <2>2. CASE i \in 1..n /\ j \in 1..n
    BY <1>1, <2>2 DEF IsInjective
  <2>3. QED
    BY <1>1, <1>2, <2>1, <2>2
<1>4. IsInjective(r)
  BY <1>1, <1>3 DEF IsInjective
<1>5. QED
  BY <1>1, <1>4, RangoAgregar DEF r, n

LEMMA QuitarSinRepetir ==
  ASSUME NEW S, NEW lista \in Seq(S), IsInjective(lista), NEW i \in 1..Len(lista)
  PROVE  /\ IsInjective(RemoveAt(lista, i))
         /\ Range(RemoveAt(lista, i)) = Range(lista) \ {lista[i]}
<1> DEFINE n == Len(lista)
           r == RemoveAt(lista, i)
<1>1. n \in Nat /\ DOMAIN lista = 1..n /\ i \in 1..n
  OBVIOUS
<1>2. /\ DOMAIN r = 1..(n - 1)
      /\ \A j \in 1..(n - 1) : r[j] = IF j <= i - 1 THEN lista[j] ELSE lista[j + 1]
  BY QuitarPosicion
<1>3. /\ \A x \in Range(lista) : x = lista[i] \/ x \in Range(r)
      /\ Range(r) \subseteq Range(lista)
  BY RangoQuitar
<1> HIDE DEF n, r
<1>4. \A j, k \in 1..n : lista[j] = lista[k] => j = k
  BY <1>1 DEF IsInjective
<1>5. ASSUME NEW j \in 1..(n - 1)
      PROVE  /\ j <= i - 1 => j \in 1..n /\ r[j] = lista[j] /\ j # i
             /\ ~(j <= i - 1) => j + 1 \in 1..n /\ r[j] = lista[j + 1] /\ j + 1 # i
  BY <1>1, <1>2
<1>6. \A j, k \in 1..(n - 1) : r[j] = r[k] => j = k
  <2> SUFFICES ASSUME NEW j \in 1..(n - 1), NEW k \in 1..(n - 1), r[j] = r[k] PROVE j = k
    OBVIOUS
  <2>1. CASE j <= i - 1 /\ k <= i - 1
    BY <1>4, <1>5, <2>1
  <2>2. CASE ~(j <= i - 1) /\ ~(k <= i - 1)
    <3>1. j + 1 = k + 1
      BY <1>4, <1>5, <2>2
    <3>2. QED
      BY <1>1, <3>1
  <2>3. CASE j <= i - 1 /\ ~(k <= i - 1)
    <3>1. j = k + 1
      BY <1>4, <1>5, <2>3
    <3>2. QED
      BY <1>1, <2>3, <3>1
  <2>4. CASE ~(j <= i - 1) /\ k <= i - 1
    <3>1. k = j + 1
      BY <1>4, <1>5, <2>4
    <3>2. QED
      BY <1>1, <2>4, <3>1
  <2>5. QED
    BY <2>1, <2>2, <2>3, <2>4
<1>7. lista[i] \notin Range(r)
  <2> SUFFICES ASSUME NEW j \in 1..(n - 1), r[j] = lista[i] PROVE FALSE
    BY <1>2 DEF Range
  <2>1. QED
    BY <1>1, <1>4, <1>5
<1>8. IsInjective(r)
  BY <1>2, <1>6 DEF IsInjective
<1>9. QED
  BY <1>3, <1>7, <1>8 DEF r

LEMMA SacarSinRepetir ==
  ASSUME NEW S, NEW lista \in Seq(S), IsInjective(lista), NEW t \in Range(lista),
         NEW r \in Sin(lista, t)
  PROVE  /\ IsInjective(r) /\ Range(r) = Range(lista) \ {t}
         /\ Len(r) = Len(lista) - 1
<1>1. PICK i \in Primeros(lista, {t}) : r = RemoveAt(lista, i)
  BY DEF Sin
<1>2. i \in 1..Len(lista) /\ lista[i] = t
  BY <1>1, PrimerosEnLista
<1>3. QED
  BY <1>1, <1>2, QuitarSinRepetir, QuitarEnLista

LEMMA AvanzarSinRepetir ==
  ASSUME NEW S, NEW lista \in Seq(S), IsInjective(lista), lista # <<>>
  PROVE  /\ IsInjective(Tail(lista)) /\ Range(Tail(lista)) = Range(lista) \ {Head(lista)}
         /\ Head(lista) \in Range(lista)
<1> DEFINE n == Len(lista)
           r == Tail(lista)
<1>1. /\ n \in Nat \ {0} /\ DOMAIN lista = 1..n /\ Head(lista) = lista[1] /\ 1 \in 1..n
  OBVIOUS
<1>2. DOMAIN r = 1..(n - 1) /\ \A j \in 1..(n - 1) : r[j] = lista[j + 1]
  BY HeadTailProperties
<1> HIDE DEF n, r
<1>3. \A j, k \in 1..n : lista[j] = lista[k] => j = k
  BY <1>1 DEF IsInjective
<1>4. \A j \in 1..(n - 1) : j + 1 \in 1..n /\ j + 1 # 1
  BY <1>1
<1>5. IsInjective(r)
  <2> SUFFICES ASSUME NEW j \in 1..(n - 1), NEW k \in 1..(n - 1), r[j] = r[k] PROVE j = k
    BY <1>2 DEF IsInjective
  <2>1. j + 1 = k + 1
    BY <1>2, <1>3, <1>4
  <2>2. QED
    BY <1>1, <2>1
<1>6. Range(r) \subseteq Range(lista) \ {lista[1]}
  <2> SUFFICES ASSUME NEW j \in 1..(n - 1) PROVE r[j] \in Range(lista) /\ r[j] # lista[1]
    BY <1>2 DEF Range
  <2>1. QED
    BY <1>1, <1>2, <1>3, <1>4 DEF Range
<1>7. Range(lista) \ {lista[1]} \subseteq Range(r)
  <2> SUFFICES ASSUME NEW k \in 1..n, k # 1 PROVE lista[k] \in Range(r)
    BY <1>1 DEF Range
  <2>1. k - 1 \in 1..(n - 1) /\ (k - 1) + 1 = k
    BY <1>1
  <2>2. r[k - 1] = lista[k]
    BY <1>2, <2>1
  <2>3. QED
    BY <1>2, <2>1, <2>2 DEF Range
<1>8. QED
  BY <1>1, <1>5, <1>6, <1>7 DEF r, Range

-----------------------------------------------------------------------------
(* The place of each thread.                                                 *)

(* The thread that CLOSE has put in Exit is in Exec too until it is released. *)
EnNew      == Range(estadoNew)
EnReady(p) == Range(ready[p])
EnExec(p)  == IF pc[p] = "close_despertar" THEN {} ELSE {exec[p]} \ {Nulo}
EnBlocked  == Range(estadoBlocked)
EnExit     == Range(estadoExit)

Separados(p) ==
  /\ Nulo \notin EnReady(p)
  /\ EnNew \cap EnReady(p) = {} /\ EnNew \cap EnExec(p) = {}
  /\ EnNew \cap EnBlocked = {} /\ EnNew \cap EnExit = {}
  /\ EnReady(p) \cap EnExec(p) = {} /\ EnReady(p) \cap EnBlocked = {}
  /\ EnReady(p) \cap EnExit = {}
  /\ EnExec(p) \cap EnBlocked = {} /\ EnExec(p) \cap EnExit = {}
  /\ EnBlocked \cap EnExit = {}

SinRepetidos(p) ==
  /\ IsInjective(estadoNew) /\ IsInjective(ready[p])
  /\ IsInjective(estadoBlocked) /\ IsInjective(estadoExit)

Ubicados(p) == EnNew \cup EnReady(p) \cup EnExec(p) \cup EnBlocked \cup EnExit

LugaresInv ==
  \A p \in Procs :
    /\ Separados(p) /\ SinRepetidos(p)
    /\ \A t \in Ubicados(p) : Creada(t)
    /\ Llego(p, "CREATE") => canal[p].arg < siguienteId[p]

(* Who will wake a thread: a semaphore or a thread it joined. *)
SemaforosDe(t) == {s \in Sems : t \in Range(colaDeBloqueo[s])}
UnidosPor(t)   == {u \in Hilos : Tid(t) \in Range(tidsEsperando[u])}

DespiertaUno(t) ==
  \/ \E s \in Sems : SemaforosDe(t) = {s} /\ UnidosPor(t) = {}
  \/ \E u \in Hilos : SemaforosDe(t) = {} /\ UnidosPor(t) = {u}
NadieDespierta(t) == SemaforosDe(t) = {} /\ UnidosPor(t) = {}

DespertarInv ==
  /\ \A s \in Sems : IsInjective(colaDeBloqueo[s])
  /\ \A u \in Hilos : IsInjective(tidsEsperando[u])
  /\ \A t \in Hilos : IF t \in EnBlocked THEN DespiertaUno(t) ELSE NadieDespierta(t)
  /\ \A u \in EnExit : Cerrando(u) \/ tidsEsperando[u] = <<>>
  /\ \A p \in Procs : pc[p] = "join_bloquear" => objetivo[p] \in Hilos \ EnExit

(* The lists of the threads after a step, and the steps there are. *)
Quedan(p, nuevos, listos, corre, bloqueados, terminados) ==
  /\ EnNew' = nuevos /\ EnReady(p)' = listos /\ EnExec(p)' = corre
  /\ EnBlocked' = bloqueados /\ EnExit' = terminados

Nadie(p) == Quedan(p, EnNew, EnReady(p), EnExec(p), EnBlocked, EnExit)
Nace(p) ==
  /\ Llego(p, "CREATE") /\ pc[p] = "libre" /\ pc'[p] = "create" /\ canal'[p] = canal[p]
  /\ Quedan(p, EnNew \cup {Nueva(p)}, EnReady(p), EnExec(p), EnBlocked, EnExit)
Entra(p, t) ==
  /\ t \in EnNew
  /\ Quedan(p, EnNew \ {t}, EnReady(p) \cup {t}, EnExec(p), EnBlocked, EnExit)
Arranca(p, t) ==
  /\ t \in EnNew /\ EnExec(p) = {}
  /\ Quedan(p, EnNew \ {t}, EnReady(p), {t}, EnBlocked, EnExit)
Pasa(p, t) ==
  /\ t \in EnReady(p)
  /\ Quedan(p, EnNew, (EnReady(p) \ {t}) \cup EnExec(p), {t}, EnBlocked, EnExit)
SeBloquea(p, t) ==
  /\ EnExec(p) = {t}
  /\ Quedan(p, EnNew, EnReady(p), {}, EnBlocked \cup {t}, EnExit)
SeDespierta(p, t) ==
  /\ t \in EnBlocked
  /\ Quedan(p, EnNew, EnReady(p) \cup {t}, EnExec(p), EnBlocked \ {t}, EnExit)
Acaba(p, t) ==
  /\ EnExec(p) = {t}
  /\ Quedan(p, EnNew, EnReady(p), {}, EnBlocked, EnExit \cup {t})

EfectoLugares(p) ==
  \/ Nadie(p) \/ Nace(p)
  \/ \E t \in Hilos : \/ Entra(p, t) \/ Arranca(p, t) \/ Pasa(p, t)
                      \/ SeBloquea(p, t) \/ SeDespierta(p, t) \/ Acaba(p, t)

(* What is needed of the state before a step of the handler. *)
LugarPrevio == SinPerdidasInv /\ OcioInv /\ LugaresInv /\ DespertarInv

LEMMA LugaresInicial == Init => LugaresInv /\ DespertarInv
<1> SUFFICES ASSUME Init PROVE LugaresInv /\ DespertarInv
  OBVIOUS
<1>1. /\ estadoNew = <<>> /\ estadoBlocked = <<>> /\ estadoExit = <<>>
      /\ \A p \in Procs : ready[p] = <<>> /\ exec[p] = Nulo /\ pc[p] = "nuevo"
      /\ \A s \in Sems : colaDeBloqueo[s] = <<>>
      /\ \A u \in Hilos : tidsEsperando[u] = <<>>
      /\ \A p \in Procs : ~Llego(p, "CREATE")
  BY DEF Init, SuseInit, CanalInit, Llego
<1>2. Range(<<>>) = {} /\ IsInjective(<<>>)
  BY DEF Range, IsInjective
<1>3. LugaresInv
  BY <1>1, <1>2 DEF LugaresInv, Separados, SinRepetidos, Ubicados, EnNew, EnReady, EnExec,
     EnBlocked, EnExit
<1>4. DespertarInv
  BY <1>1, <1>2 DEF DespertarInv, NadieDespierta, SemaforosDe, UnidosPor, EnBlocked, EnExit
<1>5. QED
  BY <1>3, <1>4

(* A step that leaves the lists, Ready and Exec alone moves nobody. *)
LEMMA NadieSeMueve ==
  ASSUME NEW p \in Procs, UNCHANGED <<listas, locales>>, SinRepetidos(p),
         pc[p] # "close_despertar", pc'[p] # "close_despertar"
  PROVE  Nadie(p) /\ SinRepetidos(p)'
  BY DEF listas, locales, Nadie, Quedan, SinRepetidos, EnNew, EnReady, EnExec, EnBlocked, EnExit

LEMMA CreateLugares ==
  ASSUME LugarPrevio, NEW p \in Procs, Create(p)
  PROVE  EfectoLugares(p) /\ SinRepetidos(p)'
<1> USE DEF LugarPrevio, SinPerdidasInv
<1>1. /\ SinRepetidos(p) /\ Separados(p) /\ \A t \in Ubicados(p) : Creada(t)
      /\ canal \in [Procs -> Mensajes \cup {Nulo}] /\ pc \in [Procs -> Puntos]
  BY DEF LugaresInv, TipoInv, TypeOK, CanalTypeOK, SuseTypeOK
<1>2. Llego(p, "CREATE") /\ Nueva(p) \in Hilos
  BY SegunPedido, HiloPedido DEF Nueva
<1>3. Nueva(p) # Nulo /\ Pid(Nueva(p)) = p /\ Tid(Nueva(p)) = canal[p].arg
  BY <1>2, NuloSupuesto DEF Nueva, Pid, Tid
<1>4. CASE AtenderCreate(p)
  <2>1. /\ estadoNew' = Append(estadoNew, Nueva(p)) /\ pc[p] = "libre" /\ pc'[p] = "create"
        /\ UNCHANGED <<estadoBlocked, estadoExit, ready, exec, canal>>
    BY <1>1, <1>4 DEF AtenderCreate, Atiende, Ir, Nueva, locales
  <2>2. Nueva(p) \notin EnNew
    BY <1>1, <1>2, <1>3, <2>1 DEF Ubicados, Creada
  <2>3. EnNew' = EnNew \cup {Nueva(p)} /\ IsInjective(estadoNew)'
    BY <1>1, <1>2, <2>1, <2>2, TiposDeListas, AgregarSinRepetir DEF EnNew, SinRepetidos
  <2>4. Nace(p)
    BY <1>2, <2>1, <2>3 DEF Nace, Quedan, EnReady, EnExec, EnBlocked, EnExit
  <2>5. QED
    BY <1>1, <2>1, <2>3, <2>4 DEF EfectoLugares, SinRepetidos
<1>5. CASE CreateHayLugar(p) \/ CreateQuedaEnNew(p)
  <2>1. /\ UNCHANGED <<listas, locales>> /\ pc[p] # "close_despertar" /\ pc'[p] # "close_despertar"
    BY <1>1, <1>5 DEF CreateHayLugar, CreateQuedaEnNew, Sigue, Responder, Ir
  <2>2. QED
    BY <1>1, <2>1, NadieSeMueve DEF EfectoLugares
<1>6. CASE CreateAdmitido(p)
  <2>1. /\ pc[p] = "create_admitido" /\ pc'[p] = "libre"
        /\ estadoNew' \in Sin(estadoNew, Nueva(p)) /\ UNCHANGED <<estadoBlocked, estadoExit>>
    BY <1>1, <1>6 DEF CreateAdmitido, Responder, Ir, Nueva
  <2>2. Nueva(p) \in EnNew
    <3>1. estadoNew = <<Nueva(p)>>
      BY <2>1 DEF OcioInv
    <3>2. QED
      BY <3>1 DEF EnNew, Range
  <2>3. EnNew' = EnNew \ {Nueva(p)} /\ IsInjective(estadoNew)'
    BY <1>1, <2>1, <2>2, TiposDeListas, SacarSinRepetir DEF EnNew, SinRepetidos
  <2>4. CASE exec[p] # Nulo
    <3>1. ready'[p] = Append(ready[p], Nueva(p)) /\ exec' = exec
      BY <1>6, <2>4, TiposDeListas DEF CreateAdmitido, Nueva
    <3>2. Nueva(p) \notin EnReady(p)
      BY <1>1, <2>2 DEF Separados
    <3>3. EnReady(p)' = EnReady(p) \cup {Nueva(p)} /\ IsInjective(ready'[p])
      BY <1>1, <1>2, <3>1, <3>2, TiposDeListas, AgregarSinRepetir DEF EnReady, SinRepetidos
    <3>4. Entra(p, Nueva(p))
      BY <2>1, <2>2, <2>3, <3>1, <3>3 DEF Entra, Quedan, EnExec, EnBlocked, EnExit
    <3>5. QED
      BY <1>1, <1>2, <2>1, <2>3, <3>3, <3>4 DEF EfectoLugares, SinRepetidos
  <2>5. CASE exec[p] = Nulo
    <3>1. ready' = ready /\ exec'[p] = Nueva(p)
      BY <1>6, <2>5, TiposDeListas DEF CreateAdmitido, Nueva
    <3>2. Arranca(p, Nueva(p))
      BY <1>3, <2>1, <2>2, <2>3, <2>5, <3>1 DEF Arranca, Quedan, EnReady, EnExec, EnBlocked, EnExit
    <3>3. QED
      BY <1>1, <1>2, <2>1, <2>3, <3>1, <3>2 DEF EfectoLugares, SinRepetidos
  <2>6. QED
    BY <2>4, <2>5
<1>7. QED
  BY <1>4, <1>5, <1>6 DEF Create

(* The preempted thread takes the place in Ready of the dispatched one. *)
LEMMA ScheduleNextLugares ==
  ASSUME LugarPrevio, NEW p \in Procs, ScheduleNext(p)
  PROVE  EfectoLugares(p) /\ SinRepetidos(p)'
<1> USE DEF LugarPrevio, SinPerdidasInv
<1>1. /\ SinRepetidos(p) /\ Separados(p) /\ pc \in [Procs -> Puntos]
      /\ exec[p] \in Hilos \cup {Nulo} /\ Nulo \notin Hilos
  BY TiposDeListas DEF LugaresInv
<1>2. CASE SigueElMismo(p)
  <2>1. UNCHANGED <<listas, locales>> /\ pc[p] # "close_despertar" /\ pc'[p] # "close_despertar"
    BY <1>1, <1>2 DEF SigueElMismo, Atiende, Responder, Ir
  <2>2. QED
    BY <1>1, <2>1, NadieSeMueve DEF EfectoLugares
<1>3. CASE PlanificaOtro(p)
  <2>1. PICK i \in DOMAIN ready[p] :
          /\ exec' = [exec EXCEPT ![p] = ready[p][i]]
          /\ ready' = [ready EXCEPT ![p] = IF exec[p] = Nulo THEN RemoveAt(@, i)
                                           ELSE Append(RemoveAt(@, i), exec[p])]
    BY <1>3 DEF PlanificaOtro
  <2>2. pc[p] = "libre" /\ pc'[p] = "libre" /\ UNCHANGED listas
    BY <1>1, <1>3 DEF PlanificaOtro, Atiende, Responder, Ir
  <2> DEFINE t    == ready[p][i]
             r    == RemoveAt(ready[p], i)
  <2>3. i \in 1..Len(ready[p]) /\ t \in EnReady(p) /\ t \in Hilos
    BY <1>1, <2>1, TiposDeListas DEF EnReady, Range, Separados
  <2>4. exec'[p] = t /\ ready'[p] = IF exec[p] = Nulo THEN r ELSE Append(r, exec[p])
    BY <2>1, TiposDeListas
  <2>5. /\ r \in Seq(Hilos \cup {Nulo}) /\ IsInjective(r) /\ Range(r) = EnReady(p) \ {t}
    BY <1>1, <2>3, TiposDeListas, QuitarEnLista, QuitarSinRepetir DEF EnReady, SinRepetidos
  <2> HIDE DEF r, t
  <2>6. EnReady(p)' = (EnReady(p) \ {t}) \cup EnExec(p) /\ IsInjective(ready'[p])
    <3>1. CASE exec[p] = Nulo
      BY <2>2, <2>4, <2>5, <3>1 DEF EnReady, EnExec
    <3>2. CASE exec[p] # Nulo
      <4>1. EnExec(p) = {exec[p]} /\ exec[p] \notin Range(r) /\ exec[p] \in Hilos \cup {Nulo}
        BY <1>1, <2>2, <2>5, <3>2 DEF EnExec, Separados
      <4>2. IsInjective(Append(r, exec[p])) /\ Range(Append(r, exec[p])) = Range(r) \cup {exec[p]}
        BY <2>5, <4>1, AgregarSinRepetir
      <4>3. QED
        BY <2>4, <2>5, <3>2, <4>1, <4>2 DEF EnReady
    <3>3. QED
      BY <3>1, <3>2
  <2>7. Pasa(p, t)
    <3>1. EnExec(p)' = {t}
      BY <1>1, <2>2, <2>3, <2>4 DEF EnExec
    <3>2. QED
      BY <2>2, <2>3, <2>6, <3>1 DEF Pasa, Quedan, EnNew, EnBlocked, EnExit, listas
  <2>8. QED
    BY <1>1, <2>2, <2>3, <2>6, <2>7 DEF EfectoLugares, SinRepetidos, listas
<1>4. CASE PlanificaCae(p)
  BY <1>1, <1>4, NadieSeMueve DEF PlanificaCae, Atiende, Caer, EfectoLugares
<1>5. QED
  BY <1>2, <1>3, <1>4 DEF ScheduleNext

(* A thread leaves Exec for Blocked, in a JOIN or a WAIT. *)
LEMMA BloquearLugares ==
  ASSUME LugarPrevio, NEW p \in Procs, exec[p] # Nulo,
         pc[p] # "close_despertar", pc'[p] # "close_despertar",
         estadoBlocked' = Append(estadoBlocked, exec[p]), exec' = [exec EXCEPT ![p] = Nulo],
         UNCHANGED <<estadoNew, estadoExit, ready>>
  PROVE  SeBloquea(p, exec[p]) /\ SinRepetidos(p)'
<1> USE DEF LugarPrevio, SinPerdidasInv
<1>1. SinRepetidos(p) /\ Separados(p) /\ exec[p] \in Hilos
  BY TiposDeListas DEF LugaresInv
<1>2. EnExec(p) = {exec[p]} /\ EnExec(p)' = {}
  BY TiposDeListas DEF EnExec
<1>3. exec[p] \notin EnBlocked
  BY <1>1, <1>2 DEF Separados
<1>4. EnBlocked' = EnBlocked \cup {exec[p]} /\ IsInjective(estadoBlocked)'
  BY <1>1, <1>3, TiposDeListas, AgregarSinRepetir DEF EnBlocked, SinRepetidos
<1>5. QED
  BY <1>1, <1>2, <1>4 DEF SeBloquea, Quedan, EnNew, EnReady, EnExit, SinRepetidos

(* A thread leaves Blocked for Ready, in a CLOSE or a SIGNAL. *)
LEMMA DespertarLugares ==
  ASSUME LugarPrevio, NEW p \in Procs, NEW t \in EnBlocked,
         pc[p] = "close_despertar" <=> pc'[p] = "close_despertar",
         estadoBlocked' \in Sin(estadoBlocked, t),
         ready' = [ready EXCEPT ![p] = Append(@, t)],
         UNCHANGED <<estadoNew, estadoExit, exec>>
  PROVE  t \in Hilos /\ SeDespierta(p, t) /\ SinRepetidos(p)'
<1> USE DEF LugarPrevio, SinPerdidasInv
<1>1. SinRepetidos(p) /\ Separados(p) /\ t \in Hilos
  BY TiposDeListas DEF LugaresInv, EnBlocked, Range
<1>2. EnBlocked' = EnBlocked \ {t} /\ IsInjective(estadoBlocked)'
  BY <1>1, TiposDeListas, SacarSinRepetir DEF EnBlocked, SinRepetidos
<1>3. t \notin EnReady(p) /\ ready'[p] = Append(ready[p], t)
  BY <1>1, TiposDeListas DEF Separados
<1>4. EnReady(p)' = EnReady(p) \cup {t} /\ IsInjective(ready'[p])
  BY <1>1, <1>3, TiposDeListas, AgregarSinRepetir DEF EnReady, SinRepetidos
<1>5. EnExec(p)' = EnExec(p)
  BY DEF EnExec
<1>6. QED
  BY <1>1, <1>2, <1>4, <1>5 DEF SeDespierta, Quedan, EnNew, EnExit, SinRepetidos

LEMMA JoinLugares ==
  ASSUME UnSoloProceso, LugarPrevio, NEW p \in Procs, Join(p)
  PROVE  EfectoLugares(p) /\ SinRepetidos(p)'
<1> USE DEF LugarPrevio, SinPerdidasInv
<1>1. SinRepetidos(p) /\ pc \in [Procs -> Puntos] /\ exec[p] \in Hilos \cup {Nulo}
  BY TiposDeListas DEF LugaresInv
<1>2. CASE \/ JoinEncuentra(p) \/ JoinSigueBuscando(p) \/ JoinEncuentraBlocked(p)
           \/ JoinNoEncuentra(p)
  <2>1. UNCHANGED <<listas, locales>> /\ pc[p] # "close_despertar" /\ pc'[p] # "close_despertar"
    BY <1>1, <1>2 DEF JoinEncuentra, JoinSigueBuscando, JoinEncuentraBlocked, JoinNoEncuentra,
       JoinBusca, Atiende, Sigue, Responder, Ir
  <2>2. QED
    BY <1>1, <2>1, NadieSeMueve DEF EfectoLugares
<1>3. CASE JoinBloquea(p)
  <2>1. /\ exec[p] # Nulo /\ pc[p] = "join_bloquear" /\ pc'[p] = "libre"
        /\ estadoBlocked' = Append(estadoBlocked, exec[p]) /\ exec' = [exec EXCEPT ![p] = Nulo]
        /\ UNCHANGED <<estadoNew, estadoExit, ready>>
    BY <1>1, <1>3 DEF JoinBloquea, Responder, Ir, TipoInv, EnMarcha
  <2>2. SeBloquea(p, exec[p]) /\ SinRepetidos(p)'
    BY <2>1, BloquearLugares
  <2>3. QED
    BY <1>1, <2>1, <2>2 DEF EfectoLugares
<1>4. QED
  BY <1>2, <1>3, NadieDespachaEnJoin DEF Join

(* Who waits for a thread is Blocked, be it for its end or for its signal. *)
LEMMA EsperaBlocked ==
  ASSUME DespertarInv, NEW t \in Hilos
  PROVE  /\ \A s \in Sems : t \in Range(colaDeBloqueo[s]) => t \in EnBlocked
         /\ \A u \in Hilos : Tid(t) \in Range(tidsEsperando[u]) => t \in EnBlocked
  BY DEF DespertarInv, NadieDespierta, SemaforosDe, UnidosPor

LEMMA EsperanteEnBlocked ==
  ASSUME UnSoloProceso, TipoInv, DespertarInv, NEW p \in Procs, NEW u \in Hilos,
         tidsEsperando[u] # <<>>
  PROVE  /\ Esperante(p, u) \in EnBlocked /\ Esperante(p, u) \in Hilos
         /\ Tid(Esperante(p, u)) = Head(tidsEsperando[u])
<1>1. tidsEsperando[u] \in Seq(Tids) /\ IsInjective(tidsEsperando[u])
  BY DEF TipoInv, TypeOK, SuseTypeOK, DespertarInv
<1>2. Head(tidsEsperando[u]) \in Range(tidsEsperando[u]) /\ Head(tidsEsperando[u]) \in Tids
  BY <1>1, AvanzarSinRepetir
<1>3. Head(tidsEsperando[u]) \in 0..UltimoTid[p]
  BY <1>2 DEF Tids, UnSoloProceso
<1>4. Esperante(p, u) \in Hilos /\ Tid(Esperante(p, u)) = Head(tidsEsperando[u])
  BY <1>3, HiloDeProceso DEF Esperante, Tid
<1>5. QED
  BY <1>2, <1>4, EsperaBlocked

LEMMA CloseLugares ==
  ASSUME UnSoloProceso, LugarPrevio, NEW p \in Procs, Close(p)
  PROVE  EfectoLugares(p) /\ SinRepetidos(p)'
<1> USE DEF LugarPrevio, SinPerdidasInv
<1>1. /\ SinRepetidos(p) /\ Separados(p) /\ pc \in [Procs -> Puntos]
      /\ exec[p] \in Hilos \cup {Nulo} /\ Nulo \notin Hilos
  BY TiposDeListas DEF LugaresInv
<1>2. CASE AtenderClose(p)
  <2>1. /\ pc[p] = "libre" /\ pc'[p] = "close_despertar" /\ exec[p] # Nulo
        /\ estadoExit' = Append(estadoExit, exec[p])
        /\ UNCHANGED <<estadoNew, estadoBlocked, ready, exec>>
    BY <1>1, <1>2 DEF AtenderClose, EnEjecucion, Atiende, Ir, locales
  <2>2. EnExec(p) = {exec[p]} /\ EnExec(p)' = {}
    BY <2>1 DEF EnExec
  <2>3. exec[p] \notin EnExit
    BY <1>1, <2>2 DEF Separados
  <2>4. EnExit' = EnExit \cup {exec[p]} /\ IsInjective(estadoExit)'
    BY <1>1, <2>1, <2>3, TiposDeListas, AgregarSinRepetir DEF EnExit, SinRepetidos
  <2>5. Acaba(p, exec[p])
    BY <2>1, <2>2, <2>4 DEF Acaba, Quedan, EnNew, EnReady, EnBlocked
  <2>6. QED
    BY <1>1, <2>1, <2>4, <2>5 DEF EfectoLugares, SinRepetidos
<1>3. CASE CloseDespierta(p)
  <2> DEFINE w == Esperante(p, exec[p])
  <2>1. /\ pc[p] = "close_despertar" /\ pc' = pc /\ exec[p] \in Hilos
        /\ tidsEsperando[exec[p]] # <<>>
        /\ UNCHANGED <<estadoNew, estadoExit, exec>>
    BY <1>1, <1>3 DEF CloseDespierta, NadieEspera, TipoInv, EnMarcha
  <2>2. w \in EnBlocked
    BY <2>1, EsperanteEnBlocked
  <2>3. /\ estadoBlocked' \in Sin(estadoBlocked, w)
        /\ ready' = [ready EXCEPT ![p] = Append(@, w)]
    BY <1>3, <2>2 DEF CloseDespierta, EnBlocked
  <2>4. w \in Hilos /\ SeDespierta(p, w) /\ SinRepetidos(p)'
    <3> HIDE DEF w
    <3>1. QED
      BY <2>1, <2>2, <2>3, DespertarLugares
  <2>5. QED
    BY <2>4 DEF EfectoLugares
<1>4. CASE CloseLibera(p)
  <2>1. /\ pc[p] = "close_despertar" /\ pc'[p] = "close_admitir" /\ exec'[p] = Nulo
        /\ UNCHANGED <<estadoNew, estadoBlocked, estadoExit, ready>>
    BY <1>1, <1>4, TiposDeListas DEF CloseLibera, Sigue, Ir, listas
  <2>2. Nadie(p)
    BY <2>1 DEF Nadie, Quedan, EnNew, EnReady, EnExec, EnBlocked, EnExit
  <2>3. QED
    BY <1>1, <2>1, <2>2 DEF EfectoLugares, SinRepetidos
<1>5. CASE CloseAdmite(p)
  <2>1. PICK i \in Primeros(estadoNew, HilosDe(p)) :
          /\ estadoNew' = RemoveAt(estadoNew, i)
          /\ ready' = [ready EXCEPT ![p] = Append(@, estadoNew[i])]
    BY <1>5 DEF CloseAdmite
  <2>2. /\ pc[p] = "close_admitir" /\ pc'[p] = "close_descontar"
        /\ UNCHANGED <<estadoBlocked, estadoExit, exec>>
    BY <1>1, <1>5 DEF CloseAdmite, Sigue, Ir
  <2> DEFINE t == estadoNew[i]
  <2>3. i \in 1..Len(estadoNew) /\ t \in EnNew /\ t \in Hilos
    BY TiposDeListas, PrimerosEnLista DEF EnNew, Range
  <2>4. EnNew' = EnNew \ {t} /\ IsInjective(estadoNew)'
    BY <1>1, <2>1, <2>3, TiposDeListas, QuitarSinRepetir DEF EnNew, SinRepetidos
  <2>5. t \notin EnReady(p) /\ ready'[p] = Append(ready[p], t)
    BY <1>1, <2>1, <2>3, TiposDeListas DEF Separados
  <2> HIDE DEF t
  <2>6. EnReady(p)' = EnReady(p) \cup {t} /\ IsInjective(ready'[p])
    BY <1>1, <2>3, <2>5, TiposDeListas, AgregarSinRepetir DEF EnReady, SinRepetidos
  <2>7. Entra(p, t)
    BY <2>2, <2>3, <2>4, <2>6 DEF Entra, Quedan, EnExec, EnBlocked, EnExit
  <2>8. QED
    BY <1>1, <2>2, <2>3, <2>4, <2>6, <2>7 DEF EfectoLugares, SinRepetidos
<1>6. CASE CloseNoEjecuta(p) \/ CloseSinNuevos(p) \/ CloseDescuenta(p)
  <2>1. UNCHANGED <<listas, locales>> /\ pc[p] # "close_despertar" /\ pc'[p] # "close_despertar"
    BY <1>1, <1>6 DEF CloseNoEjecuta, CloseSinNuevos, CloseDescuenta, Atiende, Responder, Ir
  <2>2. QED
    BY <1>1, <2>1, NadieSeMueve DEF EfectoLugares
<1>7. QED
  BY <1>2, <1>3, <1>4, <1>5, <1>6 DEF Close

LEMMA SemaforoLugares ==
  ASSUME LugarPrevio, NEW p \in Procs, Wait(p) \/ Signal(p)
  PROVE  EfectoLugares(p) /\ SinRepetidos(p)'
<1> USE DEF LugarPrevio, SinPerdidasInv
<1>1. SinRepetidos(p) /\ pc \in [Procs -> Puntos] /\ exec[p] \in Hilos \cup {Nulo}
  BY TiposDeListas DEF LugaresInv
<1>2. CASE WaitBloquea(p)
  <2>1. /\ exec[p] # Nulo /\ pc[p] = "libre" /\ pc'[p] = "libre"
        /\ estadoBlocked' = Append(estadoBlocked, exec[p]) /\ exec' = [exec EXCEPT ![p] = Nulo]
        /\ UNCHANGED <<estadoNew, estadoExit, ready>>
    BY <1>1, <1>2 DEF WaitBloquea, AtiendeSemaforo, Atiende, Responder, Ir
  <2>2. SeBloquea(p, exec[p]) /\ SinRepetidos(p)'
    BY <2>1, BloquearLugares
  <2>3. QED
    BY <1>1, <2>1, <2>2 DEF EfectoLugares
<1>3. CASE SignalDespierta(p)
  <2> DEFINE s == canal[p].arg
  <2>1. PICK i \in Primeros(colaDeBloqueo[s], HilosDe(p)) :
          /\ estadoBlocked' \in Sin(estadoBlocked, colaDeBloqueo[s][i])
          /\ ready' = [ready EXCEPT ![p] = Append(@, colaDeBloqueo[s][i])]
    BY <1>3 DEF SignalDespierta
  <2>2. /\ pc[p] = "libre" /\ pc'[p] = "libre" /\ s \in Sems
        /\ UNCHANGED <<estadoNew, estadoExit, exec>>
    BY <1>1, <1>3 DEF SignalDespierta, AtiendeSemaforo, Atiende, Responder, Ir
  <2> HIDE DEF s
  <2> DEFINE t == colaDeBloqueo[s][i]
  <2>3. t \in Range(colaDeBloqueo[s]) /\ t \in Hilos
    <3>1. colaDeBloqueo[s] \in Seq(Hilos)
      BY <2>2 DEF TipoInv, TypeOK, SuseTypeOK
    <3>2. QED
      BY <3>1, PrimerosEnLista DEF Range
  <2>4. t \in EnBlocked
    BY <2>2, <2>3, EsperaBlocked
  <2> HIDE DEF t
  <2>5. SeDespierta(p, t) /\ SinRepetidos(p)'
    <3>1. estadoBlocked' \in Sin(estadoBlocked, t) /\ ready' = [ready EXCEPT ![p] = Append(@, t)]
      BY <2>1 DEF t
    <3>2. QED
      BY <2>2, <2>4, <3>1, DespertarLugares
  <2>6. QED
    BY <2>3, <2>5 DEF EfectoLugares
<1>4. CASE \/ WaitPasa(p) \/ WaitCae(p) \/ WaitDesconocido(p) \/ SignalSube(p) \/ SignalTraba(p)
           \/ SignalSinPropios(p) \/ SignalDesconocido(p)
  <2>1. UNCHANGED <<listas, locales>> /\ pc[p] # "close_despertar" /\ pc'[p] # "close_despertar"
    BY <1>1, <1>4 DEF WaitPasa, WaitCae, Caer, WaitDesconocido, SignalSube, SignalTraba,
       SignalSinPropios, SignalDesconocido, AtiendeSemaforo, Atiende, Responder, Ir
  <2>2. QED
    BY <1>1, <2>1, NadieSeMueve DEF EfectoLugares
<1>5. QED
  BY <1>2, <1>3, <1>4 DEF Wait, Signal

LEMMA ServidorLugares ==
  ASSUME UnSoloProceso, LugarPrevio, NEW p \in Procs, OcupateDeEste(p)
  PROVE  EfectoLugares(p) /\ SinRepetidos(p)'
<1>1. CASE AtenderInit(p) \/ Desconectar(p)
  <2>1. UNCHANGED <<listas, locales>> /\ pc[p] # "close_despertar" /\ pc'[p] # "close_despertar"
    BY <1>1, TiposDeListas DEF LugarPrevio, SinPerdidasInv, AtenderInit, Desconectar, Sigue, Atiende, Ir
  <2>2. QED
    BY <2>1, NadieSeMueve DEF LugarPrevio, SinPerdidasInv, LugaresInv, EfectoLugares
<1>2. QED
  BY <1>1, CreateLugares, ScheduleNextLugares, JoinLugares, CloseLugares, SemaforoLugares
  DEF OcupateDeEste

(* What SUSE was told of, it was told of for good. *)
LEMMA ServidorCreada ==
  ASSUME UnSoloProceso, LugarPrevio, NEW p \in Procs, Servidor(p)
  PROVE  /\ \A t \in Hilos : Creada(t) => Creada(t)'
         /\ Llego(p, "CREATE")' => canal'[p].arg < siguienteId'[p]
<1> USE DEF LugarPrevio, SinPerdidasInv
<1>1. OcupateDeEste(p) /\ UNCHANGED <<cli, siguienteId>>
  BY DEF Servidor, hilolayVars
<1>2. canal \in [Procs -> Mensajes \cup {Nulo}] /\ pc \in [Procs -> Puntos]
  BY DEF TipoInv, TypeOK, CanalTypeOK, SuseTypeOK
<1>3. CASE Llego(p, "CREATE")
  <2>1. Create(p)
    BY <1>1, <1>3, SegunPedido DEF OcupateDeEste, AtenderInit, Desconectar, Atiende, Llego
  <2>2. \/ canal' = canal /\ pc'[p] # "libre"
        \/ ~Llego(p, "CREATE")'
    <3>1. CASE AtenderCreate(p) \/ CreateHayLugar(p)
      BY <1>2, <3>1 DEF AtenderCreate, CreateHayLugar, Sigue, Ir
    <3>2. CASE CreateQuedaEnNew(p) \/ CreateAdmitido(p)
      BY <3>2, Respondido DEF CreateQuedaEnNew, CreateAdmitido, Responder
    <3>3. QED
      BY <2>1, <3>1, <3>2 DEF Create
  <2>3. Llego(p, "CREATE")' => canal'[p].arg < siguienteId'[p]
    BY <1>1, <2>2 DEF LugaresInv, Llego
  <2>4. ASSUME NEW t \in Hilos, Creada(t) PROVE Creada(t)'
    <3>1. Pid(t) = p
      BY TidDeHilo DEF UnSoloProceso
    <3>2. QED
      BY <1>1, <2>2, <2>4, <3>1 DEF Creada
  <2>5. QED
    BY <2>3, <2>4
<1>4. CASE ~Llego(p, "CREATE")
  <2>1. ~Llego(p, "CREATE")'
    <3>1. CASE AtenderInit(p) \/ Desconectar(p)
      BY <1>2, <3>1 DEF AtenderInit, Desconectar, Enviar, Llego
    <3>2. CASE Create(p) \/ ScheduleNext(p) \/ Join(p) \/ Close(p) \/ Wait(p) \/ Signal(p)
      <4>1. EfectoEnTurno(p)
        BY <3>2, CreateEfecto, ScheduleNextEfecto, JoinEfecto, CloseEfecto, WaitYSignalEfecto
      <4>2. CASE Responde(p)
        BY <4>2 DEF Responde, Respuesta, Llego
      <4>3. CASE ~Responde(p)
        BY <1>4, <4>1, <4>3 DEF EfectoEnTurno, Avanza, Llego
      <4>4. QED
        BY <4>2, <4>3
    <3>3. QED
      BY <1>1, <3>1, <3>2 DEF OcupateDeEste
  <2>2. ASSUME NEW t \in Hilos, Creada(t) PROVE Creada(t)'
    <3>1. Pid(t) = p
      BY TidDeHilo DEF UnSoloProceso
    <3>2. QED
      BY <1>1, <2>1, <2>2, <3>1 DEF Creada
  <2>3. QED
    BY <2>1, <2>2
<1>5. QED
  BY <1>3, <1>4

LEMMA ClienteCreada ==
  ASSUME UnSoloProceso, LugarPrevio, NEW p \in Procs, Cliente(p)
  PROVE  /\ \A t \in Hilos : Creada(t) => Creada(t)'
         /\ Llego(p, "CREATE")' => canal'[p].arg < siguienteId'[p]
<1> USE DEF LugarPrevio, SinPerdidasInv
<1>1. EfectoCliente(p)
  BY ClienteEfecto
<1>2. siguienteId[p] \in Nat \ {0} /\ (cli[p] \in {"afuera", "conectado"} => siguienteId[p] = 1)
  BY DEF SiguienteInv
<1>3. \/ ~Llego(p, "CREATE")' /\ siguienteId'[p] = siguienteId[p]
      \/ /\ Llego(p, "CREATE")' /\ canal'[p].arg = siguienteId[p]
         /\ siguienteId'[p] = siguienteId[p] + 1
      \/ /\ Llego(p, "CREATE")' /\ canal'[p].arg = 0 /\ siguienteId'[p] = 1
         /\ cli[p] = "conectado"
  BY <1>1, <1>2 DEF EfectoCliente, PideCreate, PideOtro, Recibe, Va, Llego, Vacio
<1>4. Llego(p, "CREATE")' => canal'[p].arg < siguienteId'[p]
  BY <1>2, <1>3
<1>5. ASSUME NEW t \in Hilos, Creada(t) PROVE Creada(t)'
  <2>1. Pid(t) = p /\ Tid(t) \in Nat
    BY TidDeHilo, TidsNaturales DEF UnSoloProceso
  <2>2. cli[p] \notin {"afuera", "conectado"} /\ Tid(t) < siguienteId[p]
    BY <1>5, <2>1 DEF Creada
  <2>3. cli'[p] \notin {"afuera", "conectado"}
    BY <1>1, <2>2 DEF EfectoCliente, PideCreate, PideOtro, Recibe, Va
  <2>4. Tid(t) < siguienteId'[p] /\ ~(Llego(p, "CREATE")' /\ canal'[p].arg = Tid(t))
    BY <1>2, <1>3, <2>1, <2>2
  <2>5. QED
    BY <2>1, <2>3, <2>4 DEF Creada
<1>6. QED
  BY <1>4, <1>5

LEMMA UbicadosSonHilos ==
  ASSUME TipoInv, NEW p \in Procs, Separados(p)
  PROVE  Ubicados(p) \subseteq Hilos
<1>1. EnReady(p) \subseteq Hilos
  BY TiposDeListas DEF EnReady, Range, Separados
<1>2. QED
  BY <1>1, TiposDeListas DEF Ubicados, EnNew, EnExec, EnBlocked, EnExit, Range

LEMMA LugaresSeConservan ==
  ASSUME UnSoloProceso, LugarPrevio, NEW p \in Procs, Servidor(p)
  PROVE  LugaresInv'
<1>1. OcupateDeEste(p) /\ UNCHANGED <<cli, siguienteId>>
  BY DEF Servidor, hilolayVars
<1>2. EfectoLugares(p) /\ SinRepetidos(p)'
  BY <1>1, ServidorLugares
<1>3. /\ Separados(p) /\ (\A t \in Ubicados(p) : Creada(t)) /\ TipoInv /\ Turno /\ SiguienteInv
      /\ Llego(p, "CREATE") => canal[p].arg < siguienteId[p]
  BY DEF LugarPrevio, SinPerdidasInv, LugaresInv
<1>4. Nulo \notin Hilos
  BY NuloSupuesto
<1>5. /\ \A t \in Hilos : Creada(t) => Creada(t)'
      /\ Llego(p, "CREATE")' => canal'[p].arg < siguienteId'[p]
  BY ServidorCreada
<1>6. Ubicados(p) \subseteq Hilos
  BY <1>3, UbicadosSonHilos
<1>7. CASE Nace(p)
  <2>1. PICK n \in Hilos : n = Nueva(p) /\ Pid(n) = p /\ Tid(n) = canal[p].arg
    BY <1>3, <1>7, HiloPedido DEF Nace, Nueva, Pid, Tid
  <2>2. n \notin Ubicados(p)
    BY <1>3, <1>7, <2>1 DEF Nace, Creada
  <2>3. Separados(p)' /\ Ubicados(p)' = Ubicados(p) \cup {n}
    BY <1>3, <1>4, <1>7, <2>1, <2>2 DEF Nace, Quedan, Separados, Ubicados
  <2>4. Creada(n)'
    <3>1. cli[p] = "crea" /\ canal[p].arg < siguienteId[p] /\ pc'[p] # "libre"
      BY <1>3, <1>7, QuienPide DEF Nace
    <3>2. QED
      BY <1>1, <2>1, <3>1 DEF Creada
  <2>5. \A t \in Ubicados(p)' : Creada(t)'
    <3> SUFFICES ASSUME NEW t \in Ubicados(p) \cup {n} PROVE Creada(t)'
      BY <2>3
    <3>1. CASE t = n
      BY <2>4, <3>1
    <3>2. CASE t # n
      BY <1>3, <1>5, <1>6, <3>2
    <3>3. QED
      BY <3>1, <3>2
  <2>6. QED
    BY <1>2, <1>5, <2>3, <2>5 DEF LugaresInv, UnSoloProceso
<1>8. CASE ~Nace(p)
  <2>1. Separados(p)' /\ Ubicados(p)' \subseteq Ubicados(p)
    <3>1. CASE Nadie(p)
      BY <1>3, <3>1 DEF Nadie, Quedan, Separados, Ubicados
    <3>2. ASSUME NEW t \in Hilos, Entra(p, t) PROVE Separados(p)' /\ Ubicados(p)' \subseteq Ubicados(p)
      BY <1>3, <1>4, <3>2 DEF Entra, Quedan, Separados, Ubicados
    <3>3. ASSUME NEW t \in Hilos, Arranca(p, t) PROVE Separados(p)' /\ Ubicados(p)' \subseteq Ubicados(p)
      BY <1>3, <1>4, <3>3 DEF Arranca, Quedan, Separados, Ubicados
    <3>4. ASSUME NEW t \in Hilos, Pasa(p, t) PROVE Separados(p)' /\ Ubicados(p)' \subseteq Ubicados(p)
      <4>1. Nulo \notin EnExec(p)
        BY DEF EnExec
      <4>2. QED
        BY <1>3, <1>4, <3>4, <4>1 DEF Pasa, Quedan, Separados, Ubicados
    <3>5. ASSUME NEW t \in Hilos, SeBloquea(p, t) PROVE Separados(p)' /\ Ubicados(p)' \subseteq Ubicados(p)
      BY <1>3, <1>4, <3>5 DEF SeBloquea, Quedan, Separados, Ubicados
    <3>6. ASSUME NEW t \in Hilos, SeDespierta(p, t) PROVE Separados(p)' /\ Ubicados(p)' \subseteq Ubicados(p)
      BY <1>3, <1>4, <3>6 DEF SeDespierta, Quedan, Separados, Ubicados
    <3>7. ASSUME NEW t \in Hilos, Acaba(p, t) PROVE Separados(p)' /\ Ubicados(p)' \subseteq Ubicados(p)
      BY <1>3, <1>4, <3>7 DEF Acaba, Quedan, Separados, Ubicados
    <3>8. QED
      BY <1>2, <1>8, <3>1, <3>2, <3>3, <3>4, <3>5, <3>6, <3>7 DEF EfectoLugares
  <2>2. QED
    BY <1>2, <1>3, <1>5, <1>6, <2>1 DEF LugaresInv, UnSoloProceso
<1>9. QED
  BY <1>7, <1>8


LEMMA LugaresSePreserva ==
  UnSoloProceso /\ LugarPrevio /\ [Next]_vars => LugaresInv'
<1> SUFFICES ASSUME UnSoloProceso, LugarPrevio, [Next]_vars PROVE LugaresInv'
  OBVIOUS
<1>1. CASE UNCHANGED vars
  BY <1>1 DEF vars, suseVars, hilolayVars, listas, locales, LugarPrevio, LugaresInv, Separados,
     SinRepetidos, Ubicados, EnNew, EnReady, EnExec, EnBlocked, EnExit, Creada, Llego
<1>2. ASSUME NEW p \in Procs, Cliente(p) PROVE LugaresInv'
  <2>1. UNCHANGED <<estadoNew, estadoBlocked, estadoExit, ready, exec, pc>>
    BY <1>2 DEF Cliente, suseVars, listas, locales
  <2>2. /\ Separados(p) /\ SinRepetidos(p) /\ (\A t \in Ubicados(p) : Creada(t))
        /\ Ubicados(p) \subseteq Hilos
    BY UbicadosSonHilos DEF LugarPrevio, SinPerdidasInv, LugaresInv
  <2>3. Separados(p)' /\ SinRepetidos(p)' /\ Ubicados(p)' = Ubicados(p)
    BY <2>1, <2>2 DEF Separados, SinRepetidos, Ubicados, EnNew, EnReady, EnExec, EnBlocked, EnExit
  <2>4. /\ \A t \in Hilos : Creada(t) => Creada(t)'
        /\ Llego(p, "CREATE")' => canal'[p].arg < siguienteId'[p]
    BY <1>2, ClienteCreada
  <2>5. QED
    BY <2>2, <2>3, <2>4 DEF LugaresInv, UnSoloProceso
<1>3. QED
  BY <1>1, <1>2, LugaresSeConservan DEF Next

-----------------------------------------------------------------------------
(* Who wakes whom.                                                           *)

(* The steps that block and wake nobody. *)
LEMMA DespertarQuieto ==
  ASSUME UnSoloProceso, DespertarInv, NEW p \in Procs,
         UNCHANGED <<colaDeBloqueo, tidsEsperando, estadoBlocked, estadoExit>>,
         pc[p] # "close_despertar" \/ NadieEspera(exec[p]),
         pc'[p] = "join_bloquear" => objetivo'[p] \in Hilos \ EnExit
  PROVE  DespertarInv'
<1>1. \A u \in EnExit : tidsEsperando[u] = <<>>
  BY DEF DespertarInv, Cerrando, UnSoloProceso, NadieEspera
<1>2. EnBlocked' = EnBlocked /\ EnExit' = EnExit
  BY DEF EnBlocked, EnExit
<1>3. \A t \in Hilos : SemaforosDe(t)' = SemaforosDe(t) /\ UnidosPor(t)' = UnidosPor(t)
  BY DEF SemaforosDe, UnidosPor
<1>4. QED
  BY <1>1, <1>2, <1>3 DEF DespertarInv, DespiertaUno, NadieDespierta, UnSoloProceso

(* Who is not Blocked is in no queue and waits for no end. *)
LEMMA NadieLoDespierta ==
  ASSUME UnSoloProceso, DespertarInv, LugaresInv, NEW p \in Procs, exec[p] \in Hilos, exec[p] # Nulo,
         pc[p] # "close_despertar"
  PROVE  NadieDespierta(exec[p]) /\ exec[p] \notin EnBlocked /\ \A u \in EnExit : tidsEsperando[u] = <<>>
<1>1. exec[p] \notin EnBlocked
  BY DEF LugaresInv, Separados, EnExec
<1>2. QED
  BY <1>1 DEF DespertarInv, Cerrando, UnSoloProceso

(* With one process a thread is known by its tid. *)
LEMMA TidPropio ==
  ASSUME UnSoloProceso, NEW t \in Hilos, NEW u \in Hilos, Tid(t) = Tid(u)
  PROVE  t = u
  BY TidDeHilo DEF UnSoloProceso

LEMMA JoinBloqueaDespertar ==
  ASSUME UnSoloProceso, LugarPrevio, NEW p \in Procs, JoinBloquea(p)
  PROVE  DespertarInv'
<1> USE DEF LugarPrevio, SinPerdidasInv
<1>1. PICK x \in Hilos, o \in Hilos :
      /\ x = exec[p] /\ o = objetivo[p]
      /\ pc[p] = "join_bloquear" /\ x \in Hilos /\ x # Nulo /\ o \in Hilos /\ pc'[p] = "libre"
      /\ tidsEsperando \in [Hilos -> Seq(Tids)] /\ Tid(x) \in Tids
      /\ estadoBlocked' = Append(estadoBlocked, x)
      /\ tidsEsperando' = [tidsEsperando EXCEPT ![o] = Append(@, Tid(x))]
      /\ UNCHANGED <<colaDeBloqueo, estadoExit>> /\ estadoBlocked \in Seq(Hilos)
  <2>1. pc[p] = "join_bloquear" /\ exec[p] # Nulo /\ exec[p] \in Hilos /\ objetivo[p] \in Hilos
    BY TiposDeListas DEF JoinBloquea, TipoInv, EnMarcha, DespertarInv
  <2>2. Tid(exec[p]) \in Tids
    BY <2>1, TidDeHilo
  <2>3. QED
    BY <2>1, <2>2, TiposDeListas DEF JoinBloquea, Responder, Ir, TipoInv, TypeOK, SuseTypeOK, semaforos
<1>2. o \notin EnExit
  BY <1>1 DEF DespertarInv
<1>3. NadieDespierta(x) /\ x \notin EnBlocked /\ \A u \in EnExit : tidsEsperando[u] = <<>>
  BY <1>1, NadieLoDespierta
<1>4. EnBlocked' = EnBlocked \cup {x} /\ EnExit' = EnExit
  BY <1>1, RangoAgregar DEF EnBlocked, EnExit
<1>5. tidsEsperando'[o] = Append(tidsEsperando[o], Tid(x)) /\ tidsEsperando[o] \in Seq(Tids)
  BY <1>1
<1>6. Tid(x) \notin Range(tidsEsperando[o]) /\ IsInjective(tidsEsperando[o])
  BY <1>1, <1>3 DEF DespertarInv, NadieDespierta, UnidosPor
<1>7. IsInjective(tidsEsperando'[o]) /\ Range(tidsEsperando'[o]) = Range(tidsEsperando[o]) \cup {Tid(x)}
  BY <1>1, <1>5, <1>6, AgregarSinRepetir
<1>8. \A u \in Hilos : u # o => tidsEsperando'[u] = tidsEsperando[u]
  BY <1>1
<1>9. \A t \in Hilos : SemaforosDe(t)' = SemaforosDe(t)
  BY <1>1 DEF SemaforosDe
<1>10. ASSUME NEW t \in Hilos, t # x PROVE UnidosPor(t)' = UnidosPor(t)
  BY <1>1, <1>7, <1>8, <1>10, TidPropio DEF UnidosPor
<1>11. UnidosPor(x)' = {o}
  BY <1>1, <1>3, <1>7, <1>8 DEF UnidosPor, NadieDespierta
<1>12. \A t \in Hilos : IF t \in EnBlocked' THEN DespiertaUno(t)' ELSE NadieDespierta(t)'
  BY <1>1, <1>3, <1>4, <1>9, <1>10, <1>11 DEF DespertarInv, DespiertaUno, NadieDespierta
<1>13. /\ \A s \in Sems : IsInjective(colaDeBloqueo'[s])
       /\ \A u \in Hilos : IsInjective(tidsEsperando'[u])
  BY <1>1, <1>7, <1>8 DEF DespertarInv
<1>14. \A u \in EnExit' : tidsEsperando'[u] = <<>>
  <2>1. EnExit \subseteq Hilos
    BY TiposDeListas DEF EnExit, Range
  <2>2. QED
    BY <1>2, <1>3, <1>4, <1>8, <2>1
<1>15. QED
  BY <1>1, <1>12, <1>13, <1>14 DEF DespertarInv, UnSoloProceso

LEMMA WaitBloqueaDespertar ==
  ASSUME UnSoloProceso, LugarPrevio, NEW p \in Procs, WaitBloquea(p)
  PROVE  DespertarInv'
<1> USE DEF LugarPrevio, SinPerdidasInv
<1>1. PICK x \in Hilos, s \in Sems :
      /\ x = exec[p] /\ s = canal[p].arg
      /\ pc[p] = "libre" /\ x \in Hilos /\ x # Nulo /\ s \in Sems /\ pc'[p] = "libre"
      /\ colaDeBloqueo \in [Sems -> Seq(Hilos)] /\ estadoBlocked \in Seq(Hilos)
      /\ estadoBlocked' = Append(estadoBlocked, x)
      /\ colaDeBloqueo' = [colaDeBloqueo EXCEPT ![s] = Append(@, x)]
      /\ UNCHANGED <<tidsEsperando, estadoExit>>
  BY TiposDeListas DEF WaitBloquea, AtiendeSemaforo, Atiende, Responder, Ir, TipoInv, TypeOK, SuseTypeOK
<1>2. NadieDespierta(x) /\ x \notin EnBlocked /\ \A u \in EnExit : tidsEsperando[u] = <<>>
  BY <1>1, NadieLoDespierta
<1>3. EnBlocked' = EnBlocked \cup {x} /\ EnExit' = EnExit
  BY <1>1, RangoAgregar DEF EnBlocked, EnExit
<1>4. /\ colaDeBloqueo'[s] = Append(colaDeBloqueo[s], x) /\ colaDeBloqueo[s] \in Seq(Hilos)
      /\ \A q \in Sems : q # s => colaDeBloqueo'[q] = colaDeBloqueo[q]
  BY <1>1
<1>5. x \notin Range(colaDeBloqueo[s]) /\ IsInjective(colaDeBloqueo[s])
  BY <1>1, <1>2 DEF DespertarInv, NadieDespierta, SemaforosDe
<1>6. IsInjective(colaDeBloqueo'[s]) /\ Range(colaDeBloqueo'[s]) = Range(colaDeBloqueo[s]) \cup {x}
  BY <1>1, <1>4, <1>5, AgregarSinRepetir
<1>7. \A t \in Hilos : UnidosPor(t)' = UnidosPor(t)
  BY <1>1 DEF UnidosPor
<1>8. ASSUME NEW t \in Hilos, t # x PROVE SemaforosDe(t)' = SemaforosDe(t)
  BY <1>1, <1>4, <1>6, <1>8 DEF SemaforosDe
<1>9. SemaforosDe(x)' = {s}
  BY <1>1, <1>2, <1>4, <1>6 DEF SemaforosDe, NadieDespierta
<1>10. \A t \in Hilos : IF t \in EnBlocked' THEN DespiertaUno(t)' ELSE NadieDespierta(t)'
  BY <1>1, <1>2, <1>3, <1>7, <1>8, <1>9 DEF DespertarInv, DespiertaUno, NadieDespierta
<1>11. /\ \A q \in Sems : IsInjective(colaDeBloqueo'[q])
       /\ \A u \in Hilos : IsInjective(tidsEsperando'[u])
  BY <1>1, <1>4, <1>6 DEF DespertarInv
<1>12. QED
  BY <1>1, <1>2, <1>3, <1>10, <1>11 DEF DespertarInv, UnSoloProceso

LEMMA CloseDespiertaDespertar ==
  ASSUME UnSoloProceso, LugarPrevio, NEW p \in Procs, CloseDespierta(p)
  PROVE  DespertarInv'
<1> USE DEF LugarPrevio, SinPerdidasInv
<1>1. PICK c, w : /\ c = exec[p] /\ w = Esperante(p, c)
      /\ pc[p] = "close_despertar" /\ pc' = pc /\ exec' = exec /\ c \in Hilos
      /\ tidsEsperando \in [Hilos -> Seq(Tids)] /\ estadoBlocked \in Seq(Hilos)
      /\ tidsEsperando[c] # <<>> /\ estadoBlocked' \in Sin(estadoBlocked, w)
      /\ tidsEsperando' = [tidsEsperando EXCEPT ![c] = Tail(@)]
      /\ UNCHANGED <<colaDeBloqueo, estadoExit>>
  BY TiposDeListas DEF CloseDespierta, NadieEspera, TipoInv, EnMarcha, TypeOK, SuseTypeOK, semaforos
<1>2. w \in EnBlocked /\ w \in Hilos /\ Tid(w) = Head(tidsEsperando[c])
  BY <1>1, EsperanteEnBlocked
<1>3. \A u \in EnExit : u = c \/ tidsEsperando[u] = <<>>
  BY <1>1 DEF DespertarInv, Cerrando, UnSoloProceso
<1>4. Cerrando(c)'
  BY <1>1 DEF Cerrando
<1>5. EnBlocked' = EnBlocked \ {w} /\ EnExit' = EnExit
  BY <1>1, <1>2, SacarSinRepetir DEF EnBlocked, EnExit, LugaresInv, SinRepetidos
<1>6. /\ tidsEsperando'[c] = Tail(tidsEsperando[c]) /\ tidsEsperando[c] \in Seq(Tids)
      /\ \A u \in Hilos : u # c => tidsEsperando'[u] = tidsEsperando[u]
  BY <1>1
<1>7. IsInjective(tidsEsperando[c])
  BY <1>1 DEF DespertarInv
<1>8. /\ IsInjective(tidsEsperando'[c]) /\ Tid(w) \in Range(tidsEsperando[c])
      /\ Range(tidsEsperando'[c]) = Range(tidsEsperando[c]) \ {Tid(w)}
  BY <1>1, <1>2, <1>6, <1>7, AvanzarSinRepetir
<1>9. \A t \in Hilos : SemaforosDe(t)' = SemaforosDe(t)
  BY <1>1 DEF SemaforosDe
<1>10. ASSUME NEW t \in Hilos, t # w PROVE UnidosPor(t)' = UnidosPor(t)
  <2>1. Tid(t) # Tid(w)
    BY <1>2, <1>10, TidPropio
  <2>2. \A u \in Hilos : Tid(t) \in Range(tidsEsperando'[u]) <=> Tid(t) \in Range(tidsEsperando[u])
    BY <1>6, <1>8, <2>1
  <2>3. QED
    BY <2>2 DEF UnidosPor
<1>11. UnidosPor(w) = {c} /\ SemaforosDe(w) = {}
  <2>1. c \in UnidosPor(w)
    BY <1>1, <1>8 DEF UnidosPor
  <2>2. QED
    BY <1>2, <2>1 DEF DespertarInv, DespiertaUno
<1>12. UnidosPor(w)' = {}
  BY <1>6, <1>8, <1>11 DEF UnidosPor
<1>13. \A t \in Hilos : IF t \in EnBlocked' THEN DespiertaUno(t)' ELSE NadieDespierta(t)'
  BY <1>2, <1>5, <1>9, <1>10, <1>11, <1>12 DEF DespertarInv, DespiertaUno, NadieDespierta
<1>14. /\ \A s \in Sems : IsInjective(colaDeBloqueo'[s])
       /\ \A u \in Hilos : IsInjective(tidsEsperando'[u])
  BY <1>1, <1>6, <1>8 DEF DespertarInv
<1>15. \A u \in EnExit' : Cerrando(u)' \/ tidsEsperando'[u] = <<>>
  <2>1. EnExit \subseteq Hilos
    BY TiposDeListas DEF EnExit, Range
  <2>2. QED
    BY <1>3, <1>4, <1>5, <1>6, <2>1
<1>16. QED
  BY <1>1, <1>13, <1>14, <1>15 DEF DespertarInv, UnSoloProceso

LEMMA SignalDespiertaDespertar ==
  ASSUME UnSoloProceso, LugarPrevio, NEW p \in Procs, SignalDespierta(p)
  PROVE  DespertarInv'
<1> USE DEF LugarPrevio, SinPerdidasInv
<1>1. PICK s \in Sems :
      /\ s = canal[p].arg
      /\ pc[p] = "libre" /\ pc'[p] = "libre" /\ UNCHANGED <<tidsEsperando, estadoExit>>
      /\ colaDeBloqueo \in [Sems -> Seq(Hilos)] /\ estadoBlocked \in Seq(Hilos)
  BY TiposDeListas DEF SignalDespierta, AtiendeSemaforo, Atiende, Responder, Ir, TipoInv, TypeOK, SuseTypeOK
<1>2. PICK i \in Primeros(colaDeBloqueo[s], HilosDe(p)) :
        /\ estadoBlocked' \in Sin(estadoBlocked, colaDeBloqueo[s][i])
        /\ colaDeBloqueo' = [colaDeBloqueo EXCEPT ![s] = RemoveAt(@, i)]
  BY <1>1 DEF SignalDespierta
<1>3. PICK t \in Hilos, cola \in Seq(Hilos) :
        /\ cola = colaDeBloqueo[s] /\ t = cola[i] /\ i \in 1..Len(cola)
        /\ IsInjective(cola) /\ t \in Range(cola)
  <2> DEFINE l == colaDeBloqueo[s]
  <2>1. l \in Seq(Hilos) /\ IsInjective(l)
    BY <1>1 DEF DespertarInv
  <2>2. i \in 1..Len(l)
    BY <2>1, PrimerosEnLista
  <2>3. QED
    BY <2>1, <2>2 DEF Range
<1>4. /\ colaDeBloqueo'[s] = RemoveAt(cola, i)
      /\ \A q \in Sems : q # s => colaDeBloqueo'[q] = colaDeBloqueo[q]
  BY <1>1, <1>2, <1>3
<1>5. IsInjective(colaDeBloqueo'[s]) /\ Range(colaDeBloqueo'[s]) = Range(cola) \ {t}
  BY <1>3, <1>4, QuitarSinRepetir
<1>6. estadoBlocked' \in Sin(estadoBlocked, t)
  BY <1>2, <1>3
<1>7. SemaforosDe(t) = {s} /\ UnidosPor(t) = {} /\ t \in EnBlocked
  <2>1. s \in SemaforosDe(t)
    BY <1>1, <1>3 DEF SemaforosDe
  <2>2. QED
    BY <1>3, <2>1 DEF DespertarInv, DespiertaUno, NadieDespierta
<1>8. \A u \in Hilos : u # t => (u \in Range(cola) <=> u \in Range(colaDeBloqueo'[s]))
  BY <1>5
<1>9. t \notin Range(colaDeBloqueo'[s])
  BY <1>5
<1>10. EnBlocked' = EnBlocked \ {t} /\ EnExit' = EnExit
  BY <1>1, <1>6, <1>7, SacarSinRepetir DEF EnBlocked, EnExit, LugaresInv, SinRepetidos
<1>11. \A u \in Hilos : UnidosPor(u)' = UnidosPor(u)
  BY <1>1 DEF UnidosPor
<1>12. ASSUME NEW u \in Hilos, u # t PROVE SemaforosDe(u)' = SemaforosDe(u)
  <2>1. u \in Range(cola) <=> u \in Range(colaDeBloqueo'[s])
    BY <1>8, <1>12
  <2>2. \A q \in Sems : u \in Range(colaDeBloqueo'[q]) <=> u \in Range(colaDeBloqueo[q])
    BY <1>3, <1>4, <2>1
  <2>3. QED
    BY <2>2 DEF SemaforosDe
<1>13. SemaforosDe(t)' = {}
  BY <1>4, <1>7, <1>9 DEF SemaforosDe
<1>14. \A u \in Hilos : IF u \in EnBlocked' THEN DespiertaUno(u)' ELSE NadieDespierta(u)'
  BY <1>7, <1>10, <1>11, <1>12, <1>13 DEF DespertarInv, DespiertaUno, NadieDespierta
<1>15. /\ \A q \in Sems : IsInjective(colaDeBloqueo'[q])
       /\ \A u \in Hilos : IsInjective(tidsEsperando'[u])
  BY <1>1, <1>4, <1>5 DEF DespertarInv
<1>16. \A u \in EnExit' : tidsEsperando'[u] = <<>>
  BY <1>1, <1>10 DEF DespertarInv, Cerrando, UnSoloProceso
<1>17. QED
  BY <1>1, <1>14, <1>15, <1>16 DEF DespertarInv, UnSoloProceso

LEMMA JoinDespertar ==
  ASSUME UnSoloProceso, LugarPrevio, NEW p \in Procs, Join(p)
  PROVE  DespertarInv'
<1> USE DEF LugarPrevio, SinPerdidasInv
<1>1. /\ pc \in [Procs -> Puntos] /\ objetivo \in [Procs -> Hilos \cup {Nulo}] /\ Separados(p)
      /\ estadoBlocked \in Seq(Hilos)
  BY DEF TipoInv, TypeOK, SuseTypeOK, LugaresInv
<1>2. CASE JoinEncuentra(p) \/ JoinEncuentraBlocked(p)
  <2>1. PICK t : /\ t \in Hallados(p, canal[p].arg) \cup En(estadoBlocked, canal[p].arg)
                 /\ objetivo' = [objetivo EXCEPT ![p] = t]
    BY <1>2 DEF JoinEncuentra, JoinEncuentraBlocked
  <2>2. t \in Hilos /\ t \in EnNew \cup EnReady(p) \cup EnBlocked
    BY <2>1 DEF Hallados, En, Primeros, EnNew, EnReady, EnBlocked, Range
  <2>3. objetivo'[p] \in Hilos \ EnExit
    BY <1>1, <2>1, <2>2 DEF Separados
  <2>4. /\ UNCHANGED <<colaDeBloqueo, tidsEsperando, estadoBlocked, estadoExit>>
        /\ pc[p] # "close_despertar"
    BY <1>2 DEF JoinEncuentra, JoinEncuentraBlocked, JoinBusca, Atiende, Sigue, listas, semaforos
  <2>5. QED
    BY <2>3, <2>4, DespertarQuieto
<1>3. CASE JoinSigueBuscando(p) \/ JoinNoEncuentra(p)
  <2>1. /\ UNCHANGED <<colaDeBloqueo, tidsEsperando, estadoBlocked, estadoExit>>
        /\ pc[p] # "close_despertar" /\ pc'[p] # "join_bloquear"
    BY <1>1, <1>3 DEF JoinSigueBuscando, JoinNoEncuentra, JoinBusca, Atiende, Responder, Ir, listas,
       semaforos
  <2>2. QED
    BY <2>1, DespertarQuieto
<1>4. QED
  BY <1>2, <1>3, JoinBloqueaDespertar, NadieDespachaEnJoin DEF Join

LEMMA CloseDespertar ==
  ASSUME UnSoloProceso, LugarPrevio, NEW p \in Procs, Close(p)
  PROVE  DespertarInv'
<1> USE DEF LugarPrevio, SinPerdidasInv
<1>1. pc \in [Procs -> Puntos] /\ estadoExit \in Seq(Hilos)
  BY DEF TipoInv, TypeOK, SuseTypeOK
<1>2. CASE CloseNoEjecuta(p) \/ CloseLibera(p) \/ CloseAdmite(p) \/ CloseSinNuevos(p) \/ CloseDescuenta(p)
  <2>1. /\ UNCHANGED <<colaDeBloqueo, tidsEsperando, estadoBlocked, estadoExit>>
        /\ pc[p] # "close_despertar" \/ NadieEspera(exec[p])
        /\ pc'[p] # "join_bloquear"
    BY <1>1, <1>2 DEF CloseNoEjecuta, CloseLibera, CloseAdmite, CloseSinNuevos, CloseDescuenta,
       Atiende, Sigue, Responder, Ir, listas, semaforos
  <2>2. QED
    BY <2>1, DespertarQuieto
<1>3. CASE AtenderClose(p)
  <2>1. /\ UNCHANGED <<colaDeBloqueo, tidsEsperando, estadoBlocked, exec>>
        /\ estadoExit' = Append(estadoExit, exec[p]) /\ exec[p] \in Hilos
        /\ pc[p] = "libre" /\ pc'[p] = "close_despertar"
    BY <1>1, <1>3, TiposDeListas DEF AtenderClose, EnEjecucion, Atiende, Ir, locales, semaforos
  <2>2. EnExit' = EnExit \cup {exec[p]} /\ EnBlocked' = EnBlocked
    BY <1>1, <2>1, RangoAgregar DEF EnExit, EnBlocked
  <2>3. Cerrando(exec[p])'
    BY <2>1 DEF Cerrando
  <2>4. \A u \in EnExit : tidsEsperando[u] = <<>>
    BY <2>1 DEF DespertarInv, Cerrando, UnSoloProceso
  <2>5. \A t \in Hilos : SemaforosDe(t)' = SemaforosDe(t) /\ UnidosPor(t)' = UnidosPor(t)
    BY <2>1 DEF SemaforosDe, UnidosPor
  <2>6. \A u \in EnExit' : Cerrando(u)' \/ tidsEsperando'[u] = <<>>
    <3>1. exec' = exec
      BY <2>1
    <3>2. QED
      BY <2>1, <2>2, <2>3, <2>4, <3>1
  <2>7. QED
    BY <2>1, <2>2, <2>5, <2>6 DEF DespertarInv, DespiertaUno, NadieDespierta, UnSoloProceso
<1>4. QED
  BY <1>2, <1>3, CloseDespiertaDespertar DEF Close

LEMMA ServidorDespertar ==
  ASSUME UnSoloProceso, LugarPrevio, NEW p \in Procs, OcupateDeEste(p)
  PROVE  DespertarInv'
<1> USE DEF LugarPrevio, SinPerdidasInv
<1>1. pc \in [Procs -> Puntos]
  BY DEF TipoInv, TypeOK, SuseTypeOK
<1>2. CASE AtenderInit(p) \/ Desconectar(p) \/ Create(p) \/ ScheduleNext(p)
  <2>1. /\ UNCHANGED <<colaDeBloqueo, tidsEsperando, estadoBlocked, estadoExit>>
        /\ pc[p] # "close_despertar" /\ pc'[p] # "join_bloquear"
    BY <1>1, <1>2 DEF AtenderInit, Desconectar, Create, AtenderCreate, CreateHayLugar,
       CreateQuedaEnNew, CreateAdmitido, ScheduleNext, SigueElMismo, PlanificaOtro, PlanificaCae,
       Caer, Atiende, Sigue, Responder, Ir, listas, semaforos
  <2>2. QED
    BY <2>1, DespertarQuieto
<1>3. CASE \/ WaitPasa(p) \/ WaitCae(p) \/ WaitDesconocido(p) \/ SignalSube(p) \/ SignalTraba(p)
           \/ SignalSinPropios(p) \/ SignalDesconocido(p)
  <2>1. /\ UNCHANGED <<colaDeBloqueo, tidsEsperando, estadoBlocked, estadoExit>>
        /\ pc[p] # "close_despertar" /\ pc'[p] # "join_bloquear"
    BY <1>1, <1>3 DEF WaitPasa, WaitCae, Caer, WaitDesconocido, SignalSube, SignalTraba,
       SignalSinPropios, SignalDesconocido, AtiendeSemaforo, Atiende, Responder, Ir, listas, semaforos
  <2>2. QED
    BY <2>1, DespertarQuieto
<1>4. QED
  BY <1>2, <1>3, JoinDespertar, CloseDespertar, WaitBloqueaDespertar, SignalDespiertaDespertar
  DEF OcupateDeEste, Wait, Signal

LEMMA DespertarSePreserva ==
  UnSoloProceso /\ LugarPrevio /\ [Next]_vars => DespertarInv'
<1> SUFFICES ASSUME UnSoloProceso, LugarPrevio, [Next]_vars PROVE DespertarInv'
  OBVIOUS
<1>1. CASE UNCHANGED suseVars
  BY <1>1 DEF suseVars, listas, locales, semaforos, enCurso, LugarPrevio, DespertarInv, DespiertaUno,
     NadieDespierta, SemaforosDe, UnidosPor, EnBlocked, EnExit, Cerrando
<1>2. QED
  BY <1>1, ServidorDespertar DEF Next, Servidor, Cliente, vars

LEMMA LugaresInvariante == UnSoloProceso => (Spec => []LugarPrevio)
<1> SUFFICES ASSUME UnSoloProceso PROVE Spec => []LugarPrevio
  OBVIOUS
<1>1. Init => OcioInv /\ LugaresInv /\ DespertarInv
  BY OcioInicial, LugaresInicial
<1>2. LugarPrevio /\ [Next]_vars => OcioInv' /\ LugaresInv' /\ DespertarInv'
  BY OcioSePreserva, LugaresSePreserva, DespertarSePreserva DEF LugarPrevio, SinPerdidasInv
<1>3. LugarPrevio <=> SinPerdidasInv /\ OcioInv /\ LugaresInv /\ DespertarInv
  BY DEF LugarPrevio
<1>4. QED
  BY <1>1, <1>2, <1>3, SinPerdidasInvariante, PTL DEF Spec

-----------------------------------------------------------------------------
(* What the sums of Planificador come to with one process.  A lemma cannot   *)
(* be instantiated with an operator, so that there is one for each summand.  *)

LEMMA SumaAdmitidos ==
  ASSUME NEW p, Procs \subseteq {p}, Admitidos(p) \in Int
  PROVE  MapThenSumSet(Admitidos, Procs) = IF Procs = {} THEN 0 ELSE Admitidos(p)
<1> DEFINE Elige(s) == CHOOSE x \in s : TRUE
           Es(f) == f = [s \in SUBSET Procs |->
                           IF s = {} THEN 0 ELSE Admitidos(Elige(s)) + f[s \ {Elige(s)}]]
           g == [s \in SUBSET Procs |-> IF s = {} THEN 0 ELSE Admitidos(p)]
           h == CHOOSE f : Es(f)
<1>1. \A s \in SUBSET Procs : s # {} => Elige(s) = p /\ s \ {Elige(s)} = {}
  OBVIOUS
<1>2. MapThenSumSet(Admitidos, Procs) = h[Procs]
  BY DEF MapThenSumSet, MapThenFoldSet
<1> HIDE DEF Elige
<1>3. Es(g)
  <2>1. \A s \in SUBSET Procs : s # {} => g[s] = Admitidos(Elige(s)) + g[s \ {Elige(s)}]
    BY <1>1
  <2>2. QED
    BY <2>1
<1>4. Es(h)
  <2> HIDE DEF Es
  <2>1. QED
    BY <1>3
<1>5. h[Procs] = IF Procs = {} THEN 0 ELSE Admitidos(p)
  <2> HIDE DEF h
  <2>1. h[{}] = 0
    BY <1>4
  <2>2. Procs # {} => h[Procs] = Admitidos(Elige(Procs)) + h[Procs \ {Elige(Procs)}]
    BY <1>4
  <2> HIDE DEF Es, g
  <2>3. QED
    BY <1>1, <2>1, <2>2
<1> HIDE DEF h, Es, g
<1>6. QED
  BY <1>2, <1>5

LEMMA SumaEnTransito ==
  ASSUME NEW p, Procs \subseteq {p}, EnTransito(p) \in Int
  PROVE  MapThenSumSet(EnTransito, Procs) = IF Procs = {} THEN 0 ELSE EnTransito(p)
<1> DEFINE Elige(s) == CHOOSE x \in s : TRUE
           Es(f) == f = [s \in SUBSET Procs |->
                           IF s = {} THEN 0 ELSE EnTransito(Elige(s)) + f[s \ {Elige(s)}]]
           g == [s \in SUBSET Procs |-> IF s = {} THEN 0 ELSE EnTransito(p)]
           h == CHOOSE f : Es(f)
<1>1. \A s \in SUBSET Procs : s # {} => Elige(s) = p /\ s \ {Elige(s)} = {}
  OBVIOUS
<1>2. MapThenSumSet(EnTransito, Procs) = h[Procs]
  BY DEF MapThenSumSet, MapThenFoldSet
<1> HIDE DEF Elige
<1>3. Es(g)
  <2>1. \A s \in SUBSET Procs : s # {} => g[s] = EnTransito(Elige(s)) + g[s \ {Elige(s)}]
    BY <1>1
  <2>2. QED
    BY <2>1
<1>4. Es(h)
  <2> HIDE DEF Es
  <2>1. QED
    BY <1>3
<1>5. h[Procs] = IF Procs = {} THEN 0 ELSE EnTransito(p)
  <2> HIDE DEF h
  <2>1. h[{}] = 0
    BY <1>4
  <2>2. Procs # {} => h[Procs] = EnTransito(Elige(Procs)) + h[Procs \ {Elige(Procs)}]
    BY <1>4
  <2> HIDE DEF Es, g
  <2>3. QED
    BY <1>1, <2>1, <2>2
<1> HIDE DEF h, Es, g
<1>6. QED
  BY <1>2, <1>5

LEMMA SumaApariciones ==
  ASSUME NEW p, Procs \subseteq {p}, NEW t, Veces(t, ready[p]) + Uno(exec[p] = t) \in Int
  PROVE  Apariciones(t) =
           Veces(t, estadoNew) + Veces(t, estadoBlocked) + Veces(t, estadoExit)
             + (IF Procs = {} THEN 0 ELSE Veces(t, ready[p]) + Uno(exec[p] = t))
             - Uno(Cerrando(t))
<1> DEFINE EnProceso(q) == Veces(t, ready[q]) + Uno(exec[q] = t)
           Elige(s) == CHOOSE x \in s : TRUE
           Es(f) == f = [s \in SUBSET Procs |->
                           IF s = {} THEN 0 ELSE EnProceso(Elige(s)) + f[s \ {Elige(s)}]]
           g == [s \in SUBSET Procs |-> IF s = {} THEN 0 ELSE EnProceso(p)]
           h == CHOOSE f : Es(f)
<1>1. \A s \in SUBSET Procs : s # {} => Elige(s) = p /\ s \ {Elige(s)} = {}
  OBVIOUS
<1>2. Apariciones(t) = Veces(t, estadoNew) + Veces(t, estadoBlocked) + Veces(t, estadoExit)
                         + h[Procs] - Uno(Cerrando(t))
  BY DEF Apariciones, MapThenSumSet, MapThenFoldSet
<1>0. EnProceso(p) \in Int
  OBVIOUS
<1> HIDE DEF Elige, EnProceso
<1>3. Es(g)
  <2>1. \A s \in SUBSET Procs : s # {} => g[s] = EnProceso(Elige(s)) + g[s \ {Elige(s)}]
    BY <1>0, <1>1
  <2>2. QED
    BY <2>1
<1>4. Es(h)
  <2> HIDE DEF Es
  <2>1. QED
    BY <1>3
<1>5. h[Procs] = IF Procs = {} THEN 0 ELSE EnProceso(p)
  <2> HIDE DEF h
  <2>1. h[{}] = 0
    BY <1>4
  <2>2. Procs # {} => h[Procs] = EnProceso(Elige(Procs)) + h[Procs \ {Elige(Procs)}]
    BY <1>4
  <2> HIDE DEF Es, g
  <2>3. CASE Procs = {}
    BY <2>1, <2>3
  <2>4. CASE Procs # {}
    <3>1. Elige(Procs) = p /\ Procs \ {Elige(Procs)} = {}
      BY <1>1, <2>4
    <3>2. h[Procs] = EnProceso(Elige(Procs)) + 0
      BY <2>1, <2>2, <2>4, <3>1
    <3>3. QED
      BY <1>0, <2>4, <3>1, <3>2
  <2>5. QED
    BY <2>3, <2>4
<1> HIDE DEF h, Es, g
<1>6. QED
  BY <1>2, <1>5 DEF EnProceso

LEMMA SumaDeNadie ==
  ASSUME Procs = {}
  PROVE  MapThenSumSet(Admitidos, Procs) = 0 /\ MapThenSumSet(EnTransito, Procs) = 0
<1>1. SUBSET Procs = {{}}
  OBVIOUS
<1> DEFINE Elige(s) == CHOOSE x \in s : TRUE
           EsA(f) == f = [s \in SUBSET Procs |->
                            IF s = {} THEN 0 ELSE Admitidos(Elige(s)) + f[s \ {Elige(s)}]]
           EsT(f) == f = [s \in SUBSET Procs |->
                            IF s = {} THEN 0 ELSE EnTransito(Elige(s)) + f[s \ {Elige(s)}]]
           g == [s \in SUBSET Procs |-> 0]
           hA == CHOOSE f : EsA(f)
           hT == CHOOSE f : EsT(f)
<1>2. MapThenSumSet(Admitidos, Procs) = hA[Procs] /\ MapThenSumSet(EnTransito, Procs) = hT[Procs]
  BY DEF MapThenSumSet, MapThenFoldSet
<1> HIDE DEF Elige
<1>3. EsA(g) /\ EsT(g)
  BY <1>1
<1>4. EsA(hA) /\ EsT(hT)
  <2> HIDE DEF EsA, EsT
  <2>1. QED
    BY <1>3
<1>5. hA[Procs] = 0 /\ hT[Procs] = 0
  <2> HIDE DEF hA, hT
  <2>1. QED
    BY <1>1, <1>4
<1> HIDE DEF hA, hT, EsA, EsT, g
<1>6. QED
  BY <1>2, <1>5

LEMMA VecesSinRepetir ==
  ASSUME NEW S, NEW lista \in Seq(S), IsInjective(lista), NEW t
  PROVE  Veces(t, lista) = Uno(t \in Range(lista))
<1> DEFINE T == {i \in DOMAIN lista : lista[i] = t}
<1>1. CASE t \in Range(lista)
  <2>1. PICK i \in DOMAIN lista : lista[i] = t
    BY <1>1 DEF Range
  <2>2. T = {i}
    BY <2>1 DEF IsInjective
  <2>3. QED
    BY <1>1, <2>2, FS_Singleton DEF Veces, Uno
<1>2. CASE t \notin Range(lista)
  <2>1. T = {}
    BY <1>2 DEF Range
  <2>2. QED
    BY <1>2, <2>1, FS_EmptySet DEF Veces, Uno
<1>3. QED
  BY <1>1, <1>2

(* With one process a thread is in exactly one place from its CREATE on, for   *)
(* any degree and whatever the program asks for.                              *)
THEOREM UnSoloLugarConUno == UnSoloProceso => (Spec => []UnSoloLugar)
<1> SUFFICES ASSUME UnSoloProceso PROVE Spec => []UnSoloLugar
  OBVIOUS
<1>1. LugarPrevio => UnSoloLugar
  <2> SUFFICES ASSUME LugarPrevio, NEW t \in Hilos PROVE Apariciones(t) = Uno(Creada(t))
    BY DEF UnSoloLugar
  <2> USE DEF LugarPrevio, SinPerdidasInv
  <2>1. PICK p \in Procs : p = Pid(t)
    BY TidDeHilo
  <2>2. Procs \subseteq {p} /\ Procs # {}
    BY DEF UnSoloProceso
  <2>3. Separados(p) /\ SinRepetidos(p) /\ (\A u \in Ubicados(p) : Creada(u)) /\ t # Nulo
    BY TiposDeListas DEF LugaresInv
  <2>4. /\ Veces(t, estadoNew) = Uno(t \in EnNew) /\ Veces(t, estadoBlocked) = Uno(t \in EnBlocked)
        /\ Veces(t, estadoExit) = Uno(t \in EnExit) /\ Veces(t, ready[p]) = Uno(t \in EnReady(p))
    BY <2>3, TiposDeListas, VecesSinRepetir DEF SinRepetidos, EnNew, EnBlocked, EnExit, EnReady
  <2>5. Apariciones(t) = Veces(t, estadoNew) + Veces(t, estadoBlocked) + Veces(t, estadoExit)
                           + (Veces(t, ready[p]) + Uno(exec[p] = t)) - Uno(Cerrando(t))
    <3>1. Veces(t, ready[p]) + Uno(exec[p] = t) \in Int
      BY <2>4 DEF Uno
    <3>2. QED
      BY <2>2, <3>1, SumaApariciones
  <2>6. Uno(exec[p] = t) - Uno(Cerrando(t)) = Uno(t \in EnExec(p))
    BY <2>3 DEF Cerrando, EnExec, Uno, UnSoloProceso
  <2>7. Creada(t) <=> t \in Ubicados(p)
    <3>1. ASSUME Creada(t) PROVE t \in Ubicados(p)
      <4>1. t \in Lugares(p)
        BY <2>1, <3>1 DEF NadieSePierde, UnSoloProceso
      <4>2. exec[p] = t => t \in EnExec(p) \cup EnExit
        BY <2>3 DEF EnExec, EnExit, CierraEnExit
      <4>3. QED
        BY <4>1, <4>2 DEF Lugares, Ubicados, EnNew, EnBlocked, EnExit, EnReady
    <3>2. QED
      BY <2>3, <3>1
  <2>8. Apariciones(t) = Uno(t \in EnNew) + Uno(t \in EnBlocked) + Uno(t \in EnExit)
                           + Uno(t \in EnReady(p)) + Uno(t \in EnExec(p))
    BY <2>4, <2>5, <2>6 DEF Uno
  <2>9. QED
    BY <2>3, <2>7, <2>8 DEF Separados, Ubicados, Uno
<1>2. QED
  BY <1>1, LugaresInvariante, PTL

(* With one process a Blocked thread has one who will wake it and only one:   *)
(* the semaphore in whose queue it is or the live thread it joined.           *)
THEOREM BloqueadoConUno == UnSoloProceso => (Spec => []BloqueadoConDespertador)
<1> SUFFICES ASSUME UnSoloProceso PROVE Spec => []BloqueadoConDespertador
  OBVIOUS
<1>1. LugarPrevio => BloqueadoConDespertador
  <2> SUFFICES ASSUME LugarPrevio, NEW t \in Range(estadoBlocked) PROVE Despertadores(t) = 1
    BY DEF BloqueadoConDespertador
  <2> USE DEF LugarPrevio, SinPerdidasInv
  <2>1. t \in Hilos /\ DespiertaUno(t)
    <3>1. estadoBlocked \in Seq(Hilos)
      BY DEF TipoInv, TypeOK, SuseTypeOK
    <3>2. QED
      BY <3>1 DEF DespertarInv, EnBlocked, Range
  <2> DEFINE A == {s \in Sems : t \in Range(colaDeBloqueo[s])}
             B == {u \in Hilos : /\ Pid(u) = Pid(t)
                                 /\ Tid(t) \in Range(tidsEsperando[u])
                                 /\ u \in Range(estadoExit) => Cerrando(u)}
  <2>2. A = SemaforosDe(t)
    BY DEF SemaforosDe
  <2>3. B = UnidosPor(t)
    <3> SUFFICES ASSUME NEW u \in Hilos, Tid(t) \in Range(tidsEsperando[u])
                 PROVE  Pid(u) = Pid(t) /\ (u \in Range(estadoExit) => Cerrando(u))
      BY DEF UnidosPor
    <3>1. Pid(u) = Pid(t)
      BY <2>1, TidDeHilo DEF UnSoloProceso
    <3>2. tidsEsperando[u] # <<>>
      BY DEF Range
    <3>3. QED
      BY <3>1, <3>2 DEF DespertarInv, EnExit
  <2> HIDE DEF A, B
  <2>4. Cardinality(A) + Cardinality(B) = 1
    <3>1. CASE \E s \in Sems : SemaforosDe(t) = {s} /\ UnidosPor(t) = {}
      <4>1. Cardinality(A) = 1 /\ Cardinality(B) = 0
        BY <2>2, <2>3, <3>1, FS_EmptySet, FS_Singleton
      <4>2. QED
        BY <4>1
    <3>2. CASE \E u \in Hilos : SemaforosDe(t) = {} /\ UnidosPor(t) = {u}
      <4>1. Cardinality(A) = 0 /\ Cardinality(B) = 1
        BY <2>2, <2>3, <3>2, FS_EmptySet, FS_Singleton
      <4>2. QED
        BY <4>1
    <3>3. QED
      BY <2>1, <3>1, <3>2 DEF DespiertaUno
  <2>5. QED
    BY <2>4 DEF Despertadores, A, B
<1>2. QED
  BY <1>1, LugaresInvariante, PTL

-----------------------------------------------------------------------------
(* What the degree counts: the free slots, the admitted threads, the slot in  *)
(* hand.  It is never more than the configured one, and CLOSE, which gives a *)
(* slot back only up to three, loses one when three others are free.         *)
EnUso(p)  == IF exec[p] = Nulo THEN 0 ELSE 1
Listos(p) == Len(ready[p])
Cuenta(p) == multiprog + Len(estadoBlocked) + Listos(p) + EnUso(p) + EnTransito(p)

GradoInv ==
  /\ Procs = {} => multiprog = Grado
  /\ \A p \in Procs : Cuenta(p) <= Grado /\ (Grado <= 3 => Cuenta(p) = Grado)

LEMMA GradoInicial == Init => GradoInv
  BY SuseSupuesto DEF Init, SuseInit, GradoInv, Cuenta, Listos, EnUso, Uno, EnTransito

Numeros(p) ==
  /\ multiprog \in Int /\ Len(estadoBlocked) \in Nat /\ Listos(p) \in Nat
  /\ EnUso(p) \in {0, 1} /\ EnTransito(p) \in {-1, 0, 1}

LEMMA Cuentas ==
  ASSUME TipoInv, NEW p \in Procs
  PROVE  /\ Numeros(p) /\ exec \in [Procs -> Hilos \cup {Nulo}] /\ pc \in [Procs -> Puntos]
<1>1. estadoBlocked \in Seq(Hilos) /\ ready[p] \in Seq(Hilos \cup {Nulo})
  BY TiposDeListas
<1>2. Len(estadoBlocked) \in Nat /\ Listos(p) \in Nat
  BY <1>1 DEF Listos
<1>3. EnUso(p) \in {0, 1} /\ EnTransito(p) \in {-1, 0, 1}
  BY DEF EnUso, EnTransito, Uno
<1>4. QED
  BY <1>2, <1>3 DEF Numeros, TipoInv, TypeOK, SuseTypeOK

EnTransitoDe == {"create_admitido", "join_descontar", "close_descontar"}

LEMMA DeExec ==
  ASSUME NEW p \in Procs
  PROVE  /\ exec[p] = Nulo => EnUso(p) = 0
         /\ exec[p] # Nulo => EnUso(p) = 1
         /\ exec'[p] = Nulo => EnUso(p)' = 0
         /\ exec'[p] # Nulo => EnUso(p)' = 1
  BY DEF EnUso

LEMMA DePc ==
  ASSUME NEW p \in Procs
  PROVE  /\ pc[p] = "create_admitido" => EnTransito(p) = 1
         /\ pc[p] = "close_descontar" => EnTransito(p) = -1
         /\ pc[p] \notin EnTransitoDe => EnTransito(p) = 0
         /\ pc'[p] = "create_admitido" => EnTransito(p)' = 1
         /\ pc'[p] = "close_descontar" => EnTransito(p)' = -1
         /\ pc'[p] \notin EnTransitoDe => EnTransito(p)' = 0
<1>1. /\ pc[p] = "create_admitido" => EnTransito(p) = 1
      /\ pc[p] = "close_descontar" => EnTransito(p) = -1
      /\ pc[p] \notin EnTransitoDe => EnTransito(p) = 0
  BY DEF EnTransito, EnTransitoDe, Uno
<1>2. /\ pc'[p] = "create_admitido" => EnTransito(p)' = 1
      /\ pc'[p] = "close_descontar" => EnTransito(p)' = -1
      /\ pc'[p] \notin EnTransitoDe => EnTransito(p)' = 0
  BY DEF EnTransito, EnTransitoDe, Uno
<1>3. QED
  BY <1>1, <1>2

(* The steps that touch nothing of what is counted. *)
LEMMA CuentaQuieta ==
  ASSUME TipoInv, NEW p \in Procs, UNCHANGED <<multiprog, estadoBlocked, ready, exec>>,
         pc[p] \notin EnTransitoDe, pc'[p] \notin EnTransitoDe
  PROVE  Cuenta(p)' = Cuenta(p)
<1>1. /\ EnTransito(p) = 0 /\ EnTransito(p)' = 0 /\ EnUso(p)' = EnUso(p)
      /\ Listos(p)' = Listos(p)
  BY DePc DEF EnUso, Listos
<1>2. QED
  BY <1>1 DEF Cuenta

(* A thread leaves Exec for Blocked, or Blocked for Ready. *)
LEMMA CuentaAlBloquear ==
  ASSUME TipoInv, NEW p \in Procs, exec[p] # Nulo, exec'[p] = Nulo,
         estadoBlocked' = Append(estadoBlocked, exec[p]), UNCHANGED <<multiprog, ready>>,
         pc[p] \notin EnTransitoDe, pc'[p] \notin EnTransitoDe
  PROVE  Cuenta(p)' = Cuenta(p)
<1>1. Len(estadoBlocked') = Len(estadoBlocked) + 1
  BY TiposDeListas
<1>2. /\ EnUso(p) = 1 /\ EnUso(p)' = 0 /\ EnTransito(p) = 0 /\ EnTransito(p)' = 0
      /\ Listos(p)' = Listos(p)
  BY DeExec, DePc DEF Listos
<1>3. QED
  BY <1>1, <1>2, Cuentas DEF Numeros, Cuenta

LEMMA CuentaAlDespertar ==
  ASSUME LugarPrevio, NEW p \in Procs, NEW t \in EnBlocked,
         estadoBlocked' \in Sin(estadoBlocked, t), ready'[p] = Append(ready[p], t),
         UNCHANGED <<multiprog, exec>>, pc[p] \notin EnTransitoDe, pc'[p] \notin EnTransitoDe
  PROVE  Cuenta(p)' = Cuenta(p)
<1> USE DEF LugarPrevio, SinPerdidasInv
<1>1. Len(estadoBlocked') = Len(estadoBlocked) - 1
  BY TiposDeListas, SacarSinRepetir DEF EnBlocked, LugaresInv, SinRepetidos
<1>2. Listos(p)' = Listos(p) + 1
  <2>1. t \in Hilos /\ ready[p] \in Seq(Hilos \cup {Nulo})
    BY TiposDeListas DEF EnBlocked, Range
  <2>2. QED
    BY <2>1 DEF Listos
<1>3. EnUso(p)' = EnUso(p) /\ EnTransito(p) = 0 /\ EnTransito(p)' = 0
  BY DePc DEF EnUso
<1>4. QED
  BY <1>1, <1>2, <1>3, Cuentas DEF Numeros, Cuenta

LEMMA CreateCuenta ==
  ASSUME LugarPrevio, NEW p \in Procs, Create(p)
  PROVE  Cuenta(p)' = Cuenta(p)
<1> USE DEF LugarPrevio, SinPerdidasInv
<1>1. Numeros(p) /\ exec \in [Procs -> Hilos \cup {Nulo}] /\ pc \in [Procs -> Puntos]
  BY Cuentas
<1>2. CASE AtenderCreate(p) \/ CreateQuedaEnNew(p)
  <2>1. /\ UNCHANGED <<multiprog, estadoBlocked, ready, exec>>
        /\ pc[p] \notin EnTransitoDe /\ pc'[p] \notin EnTransitoDe
    BY <1>1, <1>2 DEF AtenderCreate, CreateQuedaEnNew, Atiende, Responder, Ir, EnTransitoDe,
       listas, locales
  <2>2. QED
    BY <2>1, CuentaQuieta
<1>3. CASE CreateHayLugar(p)
  <2>1. /\ UNCHANGED <<estadoBlocked, ready, exec>> /\ multiprog' = multiprog - 1
        /\ pc[p] = "create" /\ pc'[p] = "create_admitido"
    BY <1>1, <1>3 DEF CreateHayLugar, Sigue, Ir, listas, locales
  <2>2. /\ EnTransito(p) = 0 /\ EnTransito(p)' = 1 /\ EnUso(p)' = EnUso(p)
        /\ Listos(p)' = Listos(p)
    BY <2>1, DePc DEF EnTransitoDe, EnUso, Listos
  <2>3. QED
    BY <1>1, <2>1, <2>2 DEF Numeros, Cuenta
<1>4. CASE CreateAdmitido(p)
  <2>1. /\ UNCHANGED <<estadoBlocked, multiprog>>
        /\ pc[p] = "create_admitido" /\ pc'[p] = "libre"
    BY <1>1, <1>4 DEF CreateAdmitido, Responder, Ir
  <2>2. Nueva(p) \in Hilos /\ Nueva(p) # Nulo
    BY <1>4, SegunPedido, HiloPedido, NuloSupuesto DEF Create, Nueva
  <2>3. CASE exec[p] # Nulo
    <3>1. ready'[p] = Append(ready[p], Nueva(p)) /\ exec' = exec
      BY <1>4, <2>3, TiposDeListas DEF CreateAdmitido, Nueva
    <3>2. ready[p] \in Seq(Hilos \cup {Nulo})
      BY TiposDeListas
    <3>3. Listos(p)' = Listos(p) + 1
      BY <2>2, <3>1, <3>2 DEF Listos
    <3>4. EnTransito(p) = 1 /\ EnTransito(p)' = 0 /\ EnUso(p)' = EnUso(p)
      BY <2>1, <3>1, DePc DEF EnTransitoDe, EnUso
    <3>5. QED
      BY <1>1, <2>1, <3>3, <3>4 DEF Numeros, Cuenta
  <2>4. CASE exec[p] = Nulo
    <3>1. ready' = ready /\ exec'[p] = Nueva(p)
      BY <1>4, <2>4, TiposDeListas DEF CreateAdmitido, Nueva
    <3>2. /\ EnTransito(p) = 1 /\ EnTransito(p)' = 0 /\ EnUso(p) = 0 /\ EnUso(p)' = 1
          /\ Listos(p)' = Listos(p)
      BY <2>1, <2>2, <2>4, <3>1, DePc, DeExec DEF EnTransitoDe, Listos
    <3>3. QED
      BY <1>1, <2>1, <3>1, <3>2 DEF Numeros, Cuenta
  <2>5. QED
    BY <2>3, <2>4
<1>5. QED
  BY <1>2, <1>3, <1>4 DEF Create

LEMMA PlanificaOtroCuenta ==
  ASSUME LugarPrevio, NEW p \in Procs, PlanificaOtro(p)
  PROVE  Cuenta(p)' = Cuenta(p)
<1> USE DEF LugarPrevio, SinPerdidasInv
<1>1. Numeros(p) /\ pc \in [Procs -> Puntos] /\ ready[p] \in Seq(Hilos \cup {Nulo}) /\ Nulo \notin EnReady(p)
  BY Cuentas, TiposDeListas DEF LugaresInv, Separados
<1>2. /\ UNCHANGED <<multiprog, estadoBlocked>> /\ pc[p] = "libre" /\ pc'[p] = "libre"
  BY <1>1 DEF PlanificaOtro, Atiende, Responder, Ir, listas
<1>3. PICK i \in DOMAIN ready[p], t \in Hilos, r \in Seq(Hilos \cup {Nulo}) :
        /\ t = ready[p][i] /\ exec'[p] = t /\ r = RemoveAt(ready[p], i)
        /\ ready'[p] = IF exec[p] = Nulo THEN r ELSE Append(r, exec[p])
        /\ Len(r) = Len(ready[p]) - 1
  <2>1. PICK i \in DOMAIN ready[p] :
          /\ exec' = [exec EXCEPT ![p] = ready[p][i]]
          /\ ready' = [ready EXCEPT ![p] = IF exec[p] = Nulo THEN RemoveAt(@, i)
                                           ELSE Append(RemoveAt(@, i), exec[p])]
    BY DEF PlanificaOtro
  <2>2. i \in 1..Len(ready[p]) /\ ready[p][i] \in Hilos
    BY <1>1, <2>1 DEF EnReady, Range
  <2>3. RemoveAt(ready[p], i) \in Seq(Hilos \cup {Nulo}) /\ Len(RemoveAt(ready[p], i)) = Len(ready[p]) - 1
    BY <1>1, <2>2, QuitarEnLista
  <2>4. QED
    BY <2>1, <2>2, <2>3, TiposDeListas
<1>4. t # Nulo /\ exec[p] \in Hilos \cup {Nulo}
  BY TiposDeListas
<1>5. Listos(p)' + 1 = Listos(p) + EnUso(p) /\ Listos(p)' \in Int
  <2>1. Len(r) \in Nat /\ Len(r) + 1 = Listos(p)
    BY <1>1, <1>3 DEF Listos
  <2>2. CASE exec[p] = Nulo
    <3>1. Listos(p)' = Len(r) /\ EnUso(p) = 0
      BY <1>3, <2>2, DeExec DEF Listos
    <3>2. QED
      BY <2>1, <3>1
  <2>3. CASE exec[p] # Nulo
    <3>1. Listos(p)' = Len(r) + 1 /\ EnUso(p) = 1
      BY <1>3, <1>4, <2>3, DeExec DEF Listos
    <3>2. QED
      BY <2>1, <3>1
  <2>4. QED
    BY <2>2, <2>3
<1>6. EnUso(p)' = 1 /\ EnTransito(p) = 0 /\ EnTransito(p)' = 0
  BY <1>2, <1>3, <1>4, DeExec, DePc DEF EnTransitoDe
<1>7. QED
  BY <1>1, <1>2, <1>5, <1>6 DEF Numeros, Cuenta

LEMMA JoinCuenta ==
  ASSUME UnSoloProceso, LugarPrevio, NEW p \in Procs, Join(p)
  PROVE  Cuenta(p)' = Cuenta(p)
<1> USE DEF LugarPrevio, SinPerdidasInv
<1>1. Numeros(p) /\ exec \in [Procs -> Hilos \cup {Nulo}] /\ pc \in [Procs -> Puntos]
  BY Cuentas
<1>2. CASE JoinEncuentra(p) \/ JoinSigueBuscando(p) \/ JoinEncuentraBlocked(p) \/ JoinNoEncuentra(p)
  <2>1. /\ UNCHANGED <<multiprog, estadoBlocked, ready, exec>>
        /\ pc[p] \notin EnTransitoDe /\ pc'[p] \notin EnTransitoDe
    BY <1>1, <1>2 DEF JoinEncuentra, JoinSigueBuscando, JoinEncuentraBlocked,
       JoinNoEncuentra, JoinBusca, Atiende, Sigue, Responder, Ir, EnTransitoDe, listas, locales
  <2>2. QED
    BY <2>1, CuentaQuieta
<1>3. CASE JoinBloquea(p)
  <2>1. /\ exec[p] # Nulo /\ exec'[p] = Nulo /\ estadoBlocked' = Append(estadoBlocked, exec[p])
        /\ UNCHANGED <<multiprog, ready>> /\ pc[p] = "join_bloquear" /\ pc'[p] = "libre"
    BY <1>1, <1>3 DEF JoinBloquea, Responder, Ir, TipoInv, EnMarcha
  <2>2. QED
    BY <2>1, CuentaAlBloquear DEF EnTransitoDe
<1>4. QED
  BY <1>2, <1>3, NadieDespachaEnJoin DEF Join

(* Only the slot that a CLOSE gives back may be lost. *)
DevuelveDeMas(p) ==
  Cuenta(p)' = Cuenta(p) - 1 /\ multiprog >= 3 /\ exec[p] # Nulo /\ pc[p] = "close_despertar"

LEMMA CloseCuenta ==
  ASSUME UnSoloProceso, LugarPrevio, NEW p \in Procs, Close(p)
  PROVE  Cuenta(p)' = Cuenta(p) \/ DevuelveDeMas(p)
<1> USE DEF LugarPrevio, SinPerdidasInv
<1>1. Numeros(p) /\ exec \in [Procs -> Hilos \cup {Nulo}] /\ pc \in [Procs -> Puntos]
  BY Cuentas
<1>2. CASE AtenderClose(p) \/ CloseNoEjecuta(p) \/ CloseSinNuevos(p)
  <2>1. /\ UNCHANGED <<multiprog, estadoBlocked, ready, exec>>
        /\ pc[p] \notin EnTransitoDe /\ pc'[p] \notin EnTransitoDe
    BY <1>1, <1>2 DEF AtenderClose, CloseNoEjecuta, CloseSinNuevos, Atiende,
       Responder, Ir, EnTransitoDe, listas, locales
  <2>2. QED
    BY <2>1, CuentaQuieta
<1>3. CASE CloseDespierta(p)
  <2>1. /\ pc[p] = "close_despertar" /\ pc' = pc /\ exec[p] \in Hilos /\ tidsEsperando[exec[p]] # <<>>
        /\ UNCHANGED <<multiprog, exec>>
    BY <1>1, <1>3 DEF CloseDespierta, NadieEspera, TipoInv, EnMarcha
  <2>2. PICK w \in EnBlocked : w = Esperante(p, exec[p])
    BY <2>1, EsperanteEnBlocked
  <2>3. estadoBlocked' \in Sin(estadoBlocked, w) /\ ready'[p] = Append(ready[p], w)
    BY <1>3, <2>2, TiposDeListas DEF CloseDespierta, EnBlocked
  <2>4. QED
    BY <2>1, <2>3, CuentaAlDespertar DEF EnTransitoDe
<1>4. CASE CloseLibera(p)
  <2>1. /\ pc[p] = "close_despertar" /\ pc'[p] = "close_admitir" /\ exec[p] # Nulo /\ exec'[p] = Nulo
        /\ multiprog' = IF multiprog < 3 THEN multiprog + 1 ELSE multiprog
        /\ UNCHANGED <<estadoBlocked, ready>>
    BY <1>1, <1>4 DEF CloseLibera, Sigue, Ir, GradoDevuelto, listas, TipoInv, EnMarcha
  <2>2. /\ EnUso(p) = 1 /\ EnUso(p)' = 0 /\ EnTransito(p) = 0 /\ EnTransito(p)' = 0
        /\ Listos(p)' = Listos(p)
    BY <2>1, DeExec, DePc DEF EnTransitoDe, Listos
  <2>3. CASE multiprog < 3
    BY <1>1, <2>1, <2>2, <2>3 DEF Numeros, Cuenta
  <2>4. CASE ~(multiprog < 3)
    <3>1. Cuenta(p)' = Cuenta(p) - 1 /\ multiprog >= 3
      BY <1>1, <2>1, <2>2, <2>4 DEF Numeros, Cuenta
    <3>2. QED
      BY <2>1, <3>1 DEF DevuelveDeMas
  <2>5. QED
    BY <2>3, <2>4
<1>5. CASE CloseAdmite(p)
  <2>1. PICK i \in Primeros(estadoNew, HilosDe(p)) : ready' = [ready EXCEPT ![p] = Append(@, estadoNew[i])]
    BY <1>5 DEF CloseAdmite
  <2>2. estadoNew[i] \in Hilos /\ ready[p] \in Seq(Hilos \cup {Nulo})
    BY TiposDeListas, PrimerosEnLista
  <2>3. Listos(p)' = Listos(p) + 1
    BY <2>1, <2>2, TiposDeListas DEF Listos
  <2>4. /\ UNCHANGED <<multiprog, estadoBlocked, exec>>
        /\ pc[p] = "close_admitir" /\ pc'[p] = "close_descontar"
    BY <1>1, <1>5 DEF CloseAdmite, Sigue, Ir
  <2>5. EnTransito(p) = 0 /\ EnTransito(p)' = -1 /\ EnUso(p)' = EnUso(p)
    BY <2>4, DePc DEF EnTransitoDe, EnUso
  <2>6. QED
    BY <1>1, <2>3, <2>4, <2>5 DEF Numeros, Cuenta
<1>6. CASE CloseDescuenta(p)
  <2>1. /\ UNCHANGED <<estadoBlocked, ready, exec>> /\ multiprog' = multiprog - 1
        /\ pc[p] = "close_descontar" /\ pc'[p] = "libre"
    BY <1>1, <1>6 DEF CloseDescuenta, Responder, Ir, listas, locales
  <2>2. /\ EnTransito(p) = -1 /\ EnTransito(p)' = 0 /\ EnUso(p)' = EnUso(p)
        /\ Listos(p)' = Listos(p)
    BY <2>1, DePc DEF EnTransitoDe, EnUso, Listos
  <2>3. QED
    BY <1>1, <2>1, <2>2 DEF Numeros, Cuenta
<1>7. QED
  BY <1>2, <1>3, <1>4, <1>5, <1>6 DEF Close

LEMMA SemaforoCuenta ==
  ASSUME LugarPrevio, NEW p \in Procs, Wait(p) \/ Signal(p)
  PROVE  Cuenta(p)' = Cuenta(p)
<1> USE DEF LugarPrevio, SinPerdidasInv
<1>1. Numeros(p) /\ exec \in [Procs -> Hilos \cup {Nulo}] /\ pc \in [Procs -> Puntos]
  BY Cuentas
<1>2. CASE WaitBloquea(p)
  <2>1. /\ exec[p] # Nulo /\ exec'[p] = Nulo /\ estadoBlocked' = Append(estadoBlocked, exec[p])
        /\ UNCHANGED <<multiprog, ready>> /\ pc[p] = "libre" /\ pc'[p] = "libre"
    BY <1>1, <1>2 DEF WaitBloquea, AtiendeSemaforo, Atiende, Responder, Ir
  <2>2. QED
    BY <2>1, CuentaAlBloquear DEF EnTransitoDe
<1>3. CASE SignalDespierta(p)
  <2>1. PICK s \in Sems : s = canal[p].arg
    BY <1>3 DEF SignalDespierta
  <2>2. PICK i \in Primeros(colaDeBloqueo[s], HilosDe(p)) :
          /\ estadoBlocked' \in Sin(estadoBlocked, colaDeBloqueo[s][i])
          /\ ready' = [ready EXCEPT ![p] = Append(@, colaDeBloqueo[s][i])]
    BY <1>3, <2>1 DEF SignalDespierta
  <2>3. PICK t \in EnBlocked : t = colaDeBloqueo[s][i]
    <3>1. colaDeBloqueo[s] \in Seq(Hilos)
      BY DEF TipoInv, TypeOK, SuseTypeOK
    <3>2. colaDeBloqueo[s][i] \in Range(colaDeBloqueo[s]) /\ colaDeBloqueo[s][i] \in Hilos
      BY <3>1, PrimerosEnLista DEF Range
    <3>3. QED
      BY <3>2, EsperaBlocked
  <2>4. estadoBlocked' \in Sin(estadoBlocked, t) /\ ready'[p] = Append(ready[p], t)
    BY <2>2, <2>3, TiposDeListas
  <2>5. UNCHANGED <<multiprog, exec>> /\ pc[p] = "libre" /\ pc'[p] = "libre"
    BY <1>1, <1>3 DEF SignalDespierta, AtiendeSemaforo, Atiende, Responder, Ir
  <2>6. QED
    BY <2>4, <2>5, CuentaAlDespertar DEF EnTransitoDe
<1>4. CASE \/ WaitPasa(p) \/ WaitCae(p) \/ WaitDesconocido(p) \/ SignalSube(p) \/ SignalTraba(p)
           \/ SignalSinPropios(p) \/ SignalDesconocido(p)
  <2>1. /\ UNCHANGED <<multiprog, estadoBlocked, ready, exec>>
        /\ pc[p] \notin EnTransitoDe /\ pc'[p] \notin EnTransitoDe
    BY <1>1, <1>4 DEF WaitPasa, WaitCae, Caer, WaitDesconocido, SignalSube, SignalTraba,
       SignalSinPropios, SignalDesconocido, AtiendeSemaforo, Atiende, Responder, Ir, EnTransitoDe,
       listas, locales
  <2>2. QED
    BY <2>1, CuentaQuieta
<1>5. QED
  BY <1>2, <1>3, <1>4 DEF Wait, Signal

LEMMA GradoSePreserva ==
  UnSoloProceso /\ LugarPrevio /\ GradoInv /\ [Next]_vars => GradoInv'
<1> SUFFICES ASSUME UnSoloProceso, LugarPrevio, GradoInv, [Next]_vars PROVE GradoInv'
  OBVIOUS
<1> USE DEF LugarPrevio, SinPerdidasInv
<1>1. CASE UNCHANGED suseVars
  BY <1>1 DEF suseVars, listas, locales, GradoInv, Cuenta, Listos, EnUso, EnTransito
<1>2. ASSUME NEW p \in Procs, OcupateDeEste(p) PROVE GradoInv'
  <2>1. Numeros(p) /\ multiprog >= 0 /\ Cuenta(p) \in Int /\ Grado \in Nat /\ pc \in [Procs -> Puntos]
    BY Cuentas, SuseSupuesto DEF OcioInv, Numeros, Cuenta
  <2>2. Cuenta(p)' = Cuenta(p) \/ DevuelveDeMas(p)
    <3>1. CASE AtenderInit(p) \/ Desconectar(p) \/ SigueElMismo(p) \/ PlanificaCae(p)
      <4>1. /\ UNCHANGED <<multiprog, estadoBlocked, ready, exec>>
            /\ pc[p] \notin EnTransitoDe /\ pc'[p] \notin EnTransitoDe
        BY <2>1, <3>1 DEF AtenderInit, Desconectar, SigueElMismo, PlanificaCae, Caer,
           Atiende, Sigue, Responder, Ir, EnTransitoDe, listas, locales
      <4>2. QED
        BY <4>1, CuentaQuieta
    <3>2. QED
      BY <1>2, <3>1, CreateCuenta, PlanificaOtroCuenta, JoinCuenta, CloseCuenta, SemaforoCuenta
      DEF OcupateDeEste, ScheduleNext
  <2>3. DevuelveDeMas(p) => Cuenta(p) >= 4
    BY <2>1, DeExec, DePc DEF DevuelveDeMas, Numeros, Cuenta, EnTransitoDe
  <2>4. Cuenta(p)' <= Grado /\ (Grado <= 3 => Cuenta(p)' = Grado)
    BY <2>1, <2>2, <2>3 DEF GradoInv, DevuelveDeMas
  <2>5. QED
    BY <1>2, <2>4 DEF GradoInv, UnSoloProceso
<1>3. QED
  BY <1>1, <1>2 DEF Next, Servidor, Cliente, vars

LEMMA GradoInvariante == UnSoloProceso => (Spec => [](LugarPrevio /\ GradoInv))
<1> SUFFICES ASSUME UnSoloProceso PROVE Spec => [](LugarPrevio /\ GradoInv)
  OBVIOUS
<1>1. LugarPrevio /\ GradoInv /\ [Next]_vars => GradoInv'
  BY GradoSePreserva
<1>2. QED
  BY <1>1, GradoInicial, LugaresInvariante, PTL DEF Spec

(* With one process no slot is lost or created, while the degree is at most the *)
(* three up to which CLOSE gives slots back.                                    *)
THEOREM ConservacionConUno ==
  UnSoloProceso /\ Grado <= 3 => (Spec => []ConservacionDelGrado)
<1> SUFFICES ASSUME UnSoloProceso, Grado <= 3 PROVE Spec => []ConservacionDelGrado
  OBVIOUS
<1>1. LugarPrevio /\ GradoInv => ConservacionDelGrado
  <2> SUFFICES ASSUME LugarPrevio, GradoInv PROVE ConservacionDelGrado
    OBVIOUS
  <2> USE DEF LugarPrevio, SinPerdidasInv
  <2>1. CASE Procs = {}
    <3>1. Hilos = {}
      BY <2>1, TidDeHilo
    <3>2. Len(estadoBlocked) = 0
      <4>1. estadoBlocked \in Seq({})
        BY <3>1 DEF TipoInv, TypeOK, SuseTypeOK
      <4>2. QED
        BY <4>1
    <3>3. MapThenSumSet(Admitidos, Procs) = 0 /\ MapThenSumSet(EnTransito, Procs) = 0
      BY <2>1, SumaDeNadie
    <3>4. QED
      BY <2>1, <3>2, <3>3, SuseSupuesto DEF GradoInv, ConservacionDelGrado, TotalAdmitidos
  <2>2. ASSUME NEW p \in Procs PROVE ConservacionDelGrado
    <3>1. Numeros(p) /\ Procs \subseteq {p} /\ Procs # {} /\ Grado \in Nat
      BY Cuentas, SuseSupuesto DEF UnSoloProceso
    <3>2. Admitidos(p) = Listos(p) + EnUso(p)
      <4>1. Veces(Nulo, ready[p]) = 0
        BY TiposDeListas, VecesSinRepetir DEF LugaresInv, Separados, SinRepetidos, EnReady, Uno
      <4>2. Admitidos(p) = (Listos(p) - Veces(Nulo, ready[p])) + EnUso(p)
        BY DEF Admitidos, Listos, EnUso, Uno
      <4>3. Listos(p) \in Int /\ EnUso(p) \in Int
        BY <3>1 DEF Numeros
      <4>4. QED
        BY ONLY <4>1, <4>2, <4>3
    <3>3. Admitidos(p) \in Int /\ EnTransito(p) \in Int
      BY <3>1, <3>2 DEF Numeros
    <3>4. TotalAdmitidos = Len(estadoBlocked) + Admitidos(p)
      BY <3>1, <3>3, SumaAdmitidos DEF TotalAdmitidos
    <3>5. MapThenSumSet(EnTransito, Procs) = EnTransito(p)
      BY <3>1, <3>3, SumaEnTransito
    <3>6. multiprog + (Len(estadoBlocked) + Admitidos(p)) + EnTransito(p) = Grado
      <4>1. Cuenta(p) = Grado
        BY DEF GradoInv
      <4>2. /\ multiprog \in Int /\ Len(estadoBlocked) \in Int /\ Listos(p) \in Int
            /\ EnUso(p) \in Int /\ EnTransito(p) \in Int
        BY <3>1 DEF Numeros
      <4>3. Cuenta(p) = multiprog + Len(estadoBlocked) + Listos(p) + EnUso(p) + EnTransito(p)
        BY DEF Cuenta
      <4>4. QED
        BY ONLY <4>1, <4>2, <4>3, <3>2
    <3>7. QED
      BY <3>4, <3>5, <3>6 DEF ConservacionDelGrado
  <2>3. QED
    BY <2>1, <2>2
<1>2. QED
  BY <1>1, GradoInvariante, PTL
-----------------------------------------------------------------------------
(* The five-state diagram.                                                   *)

(* The state of a thread, from the lists it is in. *)
Estado(t, nuevos, listos, corre, bloqueados, terminados) ==
  CASE t \in terminados -> "exit"
    [] t \in bloqueados -> "blocked"
    [] t \in corre      -> "exec"
    [] t \in listos     -> "ready"
    [] t \in nuevos     -> "new"
    [] OTHER            -> "inexistente"

LEMMA EstadoPorLugar ==
  ASSUME UnSoloProceso, NEW p \in Procs, NEW t \in Hilos
  PROVE  /\ EstadoDe(t) = Estado(t, EnNew, EnReady(p), EnExec(p), EnBlocked, EnExit)
         /\ EstadoDe(t)' = Estado(t, EnNew', EnReady(p)', EnExec(p)', EnBlocked', EnExit')
<1>1. Pid(t) = p /\ t # Nulo
  BY TidDeHilo, NuloSupuesto DEF UnSoloProceso
<1>2. exec[p] = t /\ ~Cerrando(t) <=> t \in EnExec(p)
  BY <1>1 DEF EnExec, Cerrando, UnSoloProceso
<1>3. exec'[p] = t /\ ~Cerrando(t)' <=> t \in EnExec(p)'
  BY <1>1 DEF EnExec, Cerrando, UnSoloProceso
<1>4. EstadoDe(t) = Estado(t, EnNew, EnReady(p), EnExec(p), EnBlocked, EnExit)
  BY <1>1, <1>2 DEF EstadoDe, Estado, EnNew, EnReady, EnBlocked, EnExit
<1>5. EstadoDe(t)' = Estado(t, EnNew', EnReady(p)', EnExec(p)', EnBlocked', EnExit')
  BY <1>1, <1>3 DEF EstadoDe, Estado, EnNew, EnReady, EnBlocked, EnExit
<1>6. QED
  BY <1>4, <1>5

(* A list has no more threads than places. *)
LEMMA RangoAcotado ==
  ASSUME NEW S, NEW lista \in Seq(S)
  PROVE  /\ IsFiniteSet(Range(lista)) /\ Cardinality(Range(lista)) \in Nat
         /\ Cardinality(Range(lista)) <= Len(lista)
<1> DEFINE n == Len(lista)
           R == Range(lista)
<1>1. n \in Nat /\ DOMAIN lista = 1..n /\ lista \in [1..n -> R]
  BY DEF Range
<1>2. lista \in Surjection(1..n, R)
  BY <1>1 DEF Range, Surjection
<1> HIDE DEF n, R
<1>3. IsFiniteSet(1..n) /\ Cardinality(1..n) = n
  BY <1>1, FS_Interval
<1>4. IsFiniteSet(R) /\ Cardinality(R) <= n
  BY <1>2, <1>3, FS_Surjection
<1>5. QED
  BY <1>4, FS_CardinalityType DEF n, R

LEMMA UnionAcotada ==
  ASSUME NEW A, NEW B, NEW a \in Int, NEW b \in Int,
         IsFiniteSet(A), IsFiniteSet(B), Cardinality(A) <= a, Cardinality(B) <= b
  PROVE  IsFiniteSet(A \cup B) /\ Cardinality(A \cup B) <= a + b
<1>1. /\ IsFiniteSet(A \cup B)
      /\ Cardinality(A \cup B) = Cardinality(A) + Cardinality(B) - Cardinality(A \cap B)
  BY FS_Union
<1>2. Cardinality(A) \in Nat /\ Cardinality(B) \in Nat /\ Cardinality(A \cap B) \in Nat
  BY FS_CardinalityType, FS_Intersection
<1>3. QED
  BY <1>1, <1>2

(* The admitted threads of the diagram are no more than the slots in use. *)
LEMMA AdmitidosAcotados ==
  ASSUME UnSoloProceso, TipoInv, NEW p \in Procs
  PROVE  /\ Cardinality(Diagrama!Admitidos) \in Int
         /\ Cardinality(Diagrama!Admitidos) <= Len(estadoBlocked) + Listos(p) + EnUso(p)
<1>1. Numeros(p)
  BY Cuentas
<1>2. Diagrama!Admitidos \subseteq (EnBlocked \cup EnReady(p)) \cup EnExec(p)
  <2> SUFFICES ASSUME NEW t \in Hilos, EstadoDe(t) \in {"ready", "exec", "blocked"}
               PROVE  t \in (EnBlocked \cup EnReady(p)) \cup EnExec(p)
    BY DEF Diagrama!Admitidos
  <2>1. EstadoDe(t) = Estado(t, EnNew, EnReady(p), EnExec(p), EnBlocked, EnExit)
    BY EstadoPorLugar
  <2>2. QED
    BY <2>1 DEF Estado
<1>3. IsFiniteSet(EnBlocked) /\ Cardinality(EnBlocked) <= Len(estadoBlocked)
  BY TiposDeListas, RangoAcotado DEF EnBlocked
<1>4. IsFiniteSet(EnReady(p)) /\ Cardinality(EnReady(p)) <= Listos(p)
  BY TiposDeListas, RangoAcotado DEF EnReady, Listos
<1>5. IsFiniteSet(EnExec(p)) /\ Cardinality(EnExec(p)) <= EnUso(p)
  <2>1. EnExec(p) = {} \/ (EnExec(p) = {exec[p]} /\ exec[p] # Nulo)
    BY DEF EnExec
  <2>2. QED
    <3>1. CASE EnExec(p) = {}
      BY <3>1, FS_EmptySet DEF EnUso
    <3>2. CASE EnExec(p) = {exec[p]} /\ exec[p] # Nulo
      <4>1. IsFiniteSet(EnExec(p)) /\ Cardinality(EnExec(p)) = 1
        BY <3>2, FS_Singleton
      <4>2. EnUso(p) = 1
        BY <3>2 DEF EnUso
      <4>3. QED
        BY <4>1, <4>2
    <3>3. QED
      BY <2>1, <3>1, <3>2
<1> DEFINE lb == Len(estadoBlocked)
           lr == Listos(p)
           lx == EnUso(p)
<1>6. lb \in Int /\ lr \in Int /\ lx \in Int
  BY <1>1 DEF Numeros
<1>7. Cardinality(EnBlocked) <= lb /\ Cardinality(EnReady(p)) <= lr /\ Cardinality(EnExec(p)) <= lx
  BY <1>3, <1>4, <1>5
<1> HIDE DEF lb, lr, lx
<1>8. IsFiniteSet(EnBlocked \cup EnReady(p)) /\ Cardinality(EnBlocked \cup EnReady(p)) <= lb + lr
  BY <1>3, <1>4, <1>6, <1>7, UnionAcotada
<1>9. /\ IsFiniteSet((EnBlocked \cup EnReady(p)) \cup EnExec(p))
      /\ Cardinality((EnBlocked \cup EnReady(p)) \cup EnExec(p)) <= lb + lr + lx
  <2> DEFINE M == EnBlocked \cup EnReady(p)
             lm == lb + lr
  <2>1. IsFiniteSet(M) /\ Cardinality(M) <= lm /\ lm \in Int
    BY <1>6, <1>8
  <2> HIDE DEF M, lm
  <2>2. IsFiniteSet(M \cup EnExec(p)) /\ Cardinality(M \cup EnExec(p)) <= lm + lx
    BY <1>5, <1>6, <1>7, <2>1, UnionAcotada
  <2>3. QED
    BY <2>2 DEF M, lm
<1>10. /\ IsFiniteSet(Diagrama!Admitidos)
       /\ Cardinality(Diagrama!Admitidos) <= Cardinality((EnBlocked \cup EnReady(p)) \cup EnExec(p))
  BY <1>2, <1>9, FS_Subset
<1>11. /\ Cardinality(Diagrama!Admitidos) \in Int
       /\ Cardinality((EnBlocked \cup EnReady(p)) \cup EnExec(p)) \in Int
  BY <1>9, <1>10, FS_CardinalityType
<1>12. Cardinality(Diagrama!Admitidos) <= lb + lr + lx
  BY <1>6, <1>9, <1>10, <1>11
<1>13. QED
  BY <1>11, <1>12 DEF lb, lr, lx

(* A thread only leaves New at two points, both with a slot taken for it. *)
LEMMA SaleDeNew ==
  ASSUME UnSoloProceso, LugarPrevio, NEW p \in Procs, OcupateDeEste(p),
         NEW t \in EnNew, t \notin EnNew'
  PROVE  pc[p] \in {"create_admitido", "close_admitir"}
<1> USE DEF LugarPrevio, SinPerdidasInv
<1>1. estadoNew' # estadoNew /\ \A u : estadoNew' # Append(estadoNew, u)
  <2>1. ASSUME NEW u, estadoNew' = Append(estadoNew, u) PROVE FALSE
    BY <2>1, TiposDeListas, RangoAgregar DEF EnNew
  <2>2. QED
    BY <2>1 DEF EnNew
<1>2. ~Wait(p) /\ ~Signal(p) /\ ~ScheduleNext(p) /\ ~AtenderInit(p) /\ ~Desconectar(p)
  BY <1>1 DEF Wait, WaitPasa, WaitBloquea, WaitDesconocido, WaitCae, Signal, SignalSube,
     SignalTraba, SignalDespierta, SignalSinPropios, SignalDesconocido, ScheduleNext,
     SigueElMismo, PlanificaOtro, PlanificaCae, AtenderInit, Desconectar, Caer, listas
<1>3. ~Join(p)
  BY <1>1, NadieDespachaEnJoin DEF Join, JoinEncuentra, JoinSigueBuscando,
     JoinEncuentraBlocked, JoinNoEncuentra, JoinBloquea, listas
<1>4. Create(p) => pc[p] = "create_admitido"
  BY <1>1 DEF Create, AtenderCreate, CreateHayLugar, CreateQuedaEnNew, CreateAdmitido, Sigue, listas
<1>5. Close(p) => pc[p] = "close_admitir"
  BY <1>1 DEF Close, AtenderClose, CloseNoEjecuta, CloseDespierta, CloseLibera, CloseAdmite,
     CloseSinNuevos, CloseDescuenta, Sigue, listas
<1>6. QED
  BY <1>2, <1>3, <1>4, <1>5 DEF OcupateDeEste

LEMMA HayLugarParaEntrar ==
  ASSUME UnSoloProceso, LugarPrevio, GradoInv, NEW p \in Procs, OcupateDeEste(p),
         NEW t \in EnNew, t \notin EnNew'
  PROVE  Cardinality(Diagrama!Admitidos) < Grado
<1> USE DEF LugarPrevio, SinPerdidasInv
<1>1. Numeros(p) /\ Grado \in Int /\ Cuenta(p) <= Grado
  BY Cuentas, SuseSupuesto DEF GradoInv
<1>2. multiprog + EnTransito(p) >= 1
  <2>1. pc[p] \in {"create_admitido", "close_admitir"}
    BY SaleDeNew
  <2>2. multiprog \in Int
    BY <1>1 DEF Numeros
  <2>3. CASE pc[p] = "create_admitido"
    <3>1. EnTransito(p) = 1
      BY <2>3 DEF EnTransito, Uno
    <3>2. QED
      BY <2>2, <3>1 DEF OcioInv
  <2>4. CASE pc[p] = "close_admitir"
    <3>1. EnTransito(p) = 0
      <4>1. pc[p] # "create_admitido" /\ pc[p] \notin {"join_descontar", "close_descontar"}
        BY <2>4
      <4>2. QED
        BY <4>1 DEF EnTransito, Uno
    <3>2. QED
      BY <2>2, <2>4, <3>1 DEF OcioInv
  <2>5. QED
    BY <2>1, <2>3, <2>4
<1>3. /\ Cardinality(Diagrama!Admitidos) \in Int
      /\ Cardinality(Diagrama!Admitidos) <= Len(estadoBlocked) + Listos(p) + EnUso(p)
  BY AdmitidosAcotados
<1>4. /\ multiprog \in Int /\ Len(estadoBlocked) \in Int /\ Listos(p) \in Int
      /\ EnUso(p) \in Int /\ EnTransito(p) \in Int
  BY <1>1 DEF Numeros
<1>5. Cuenta(p) = multiprog + Len(estadoBlocked) + Listos(p) + EnUso(p) + EnTransito(p)
  BY DEF Cuenta
<1>6. QED
  BY ONLY <1>1, <1>2, <1>3, <1>4, <1>5

LEMMA MismoCardinal == ASSUME NEW S PROVE Diagrama!Cardinality(S) = Cardinality(S)
  BY DEF Cardinality, Diagrama!Cardinality

(* A step of the handler takes a thread along an arrow, or none. *)
LEMMA PasoDelDiagrama ==
  ASSUME UnSoloProceso, LugarPrevio, LugaresInv', GradoInv, NEW p \in Procs, OcupateDeEste(p)
  PROVE  \/ \A u \in Hilos : EstadoDe(u)' = EstadoDe(u)
         \/ Diagrama!Next
<1>1. EfectoLugares(p) /\ Separados(p) /\ Separados(p)' /\ TipoInv
  BY ServidorLugares DEF LugarPrevio, SinPerdidasInv, LugaresInv
<1>2. \A u \in Hilos :
        /\ EstadoDe(u) = Estado(u, EnNew, EnReady(p), EnExec(p), EnBlocked, EnExit)
        /\ EstadoDe(u)' = Estado(u, EnNew', EnReady(p)', EnExec(p)', EnBlocked', EnExit')
  BY EstadoPorLugar
<1>3. Ubicados(p) \subseteq Hilos /\ \A u \in Hilos : Pid(u) = p
  BY <1>1, UbicadosSonHilos, TidDeHilo DEF UnSoloProceso
<1>4. CASE Nadie(p)
  BY <1>2, <1>4 DEF Nadie, Quedan
<1>5. CASE Nace(p)
  <2>1. PICK n \in Hilos : n = Nueva(p) /\ n \notin Ubicados(p)
    <3>1. Nueva(p) \in Hilos /\ Pid(Nueva(p)) = p /\ Tid(Nueva(p)) = canal[p].arg
      BY <1>1, <1>5, HiloPedido DEF Nace, Nueva, Pid, Tid
    <3>2. ~Creada(Nueva(p))
      BY <1>5, <3>1 DEF Nace, Creada
    <3>3. QED
      BY <3>1, <3>2 DEF LugarPrevio, LugaresInv
  <2>2. EstadoDe(n) = "inexistente"
    BY <1>2, <2>1 DEF Estado, Ubicados
  <2>3. \A u \in Hilos : EstadoDe(u)' = IF u = n THEN "new" ELSE EstadoDe(u)
    BY <1>1, <1>2, <1>5, <2>1 DEF Nace, Quedan, Estado, Ubicados, Separados
  <2>4. Diagrama!Crear(n)
    BY <2>2, <2>3 DEF Diagrama!Crear
  <2>5. QED
    BY <2>4 DEF Diagrama!Next
<1>6. ASSUME NEW t \in Hilos, Entra(p, t) PROVE Diagrama!Admitir(t)
  <2>1. EstadoDe(t) = "new" /\ \A u \in Hilos : EstadoDe(u)' = IF u = t THEN "ready" ELSE EstadoDe(u)
    BY <1>1, <1>2, <1>6 DEF Entra, Quedan, Estado, Separados
  <2>2. Cardinality(Diagrama!Admitidos) < Grado
    BY <1>6, HayLugarParaEntrar DEF Entra, Quedan
  <2>3. QED
    BY <2>1, <2>2, MismoCardinal DEF Diagrama!Admitir
<1>7. ASSUME NEW t \in Hilos, Arranca(p, t) PROVE Diagrama!Admitir(t)
  <2>1. EstadoDe(t) = "new" /\ \A u \in Hilos : EstadoDe(u)' = IF u = t THEN "exec" ELSE EstadoDe(u)
    BY <1>1, <1>2, <1>7 DEF Arranca, Quedan, Estado, Separados
  <2>2. Cardinality(Diagrama!Admitidos) < Grado
    BY <1>7, HayLugarParaEntrar DEF Arranca, Quedan
  <2>3. \A u \in Hilos : EstadoDe(u) # "exec"
    BY <1>2, <1>7 DEF Arranca, Estado
  <2>4. Diagrama!Ejecuta(p) = {}
    BY <2>3 DEF Diagrama!Ejecuta
  <2>5. QED
    BY <1>3, <2>1, <2>2, <2>4, MismoCardinal DEF Diagrama!Admitir
<1>8. ASSUME NEW t \in Hilos, Pasa(p, t) PROVE Diagrama!Despachar(t)
  <2>1. \A u \in Hilos : EstadoDe(u) = "exec" <=> u \in EnExec(p)
    BY <1>1, <1>2 DEF Estado, Separados
  <2>2. Diagrama!Ejecuta(p) = EnExec(p)
    BY <1>3, <2>1 DEF Diagrama!Ejecuta, Ubicados
  <2>3. EstadoDe(t) = "ready"
    BY <1>1, <1>2, <1>8 DEF Pasa, Estado, Separados
  <2>4. \A u \in Hilos : EstadoDe(u)' = IF u = t THEN "exec"
                                        ELSE IF u \in EnExec(p) THEN "ready" ELSE EstadoDe(u)
    BY <1>1, <1>2, <1>8 DEF Pasa, Quedan, Estado, Separados
  <2>5. QED
    BY <1>3, <2>2, <2>3, <2>4 DEF Diagrama!Despachar
<1>9. ASSUME NEW t \in Hilos, SeBloquea(p, t) PROVE Diagrama!Bloquear(t)
  <2>1. EstadoDe(t) = "exec" /\ \A u \in Hilos : EstadoDe(u)' = IF u = t THEN "blocked" ELSE EstadoDe(u)
    BY <1>1, <1>2, <1>9 DEF SeBloquea, Quedan, Estado, Separados
  <2>2. QED
    BY <2>1 DEF Diagrama!Bloquear
<1>10. ASSUME NEW t \in Hilos, SeDespierta(p, t) PROVE Diagrama!Desbloquear(t)
  <2>1. EstadoDe(t) = "blocked" /\ \A u \in Hilos : EstadoDe(u)' = IF u = t THEN "ready" ELSE EstadoDe(u)
    BY <1>1, <1>2, <1>10 DEF SeDespierta, Quedan, Estado, Separados
  <2>2. QED
    BY <2>1 DEF Diagrama!Desbloquear
<1>11. ASSUME NEW t \in Hilos, Acaba(p, t) PROVE Diagrama!Terminar(t)
  <2>1. EstadoDe(t) = "exec" /\ \A u \in Hilos : EstadoDe(u)' = IF u = t THEN "exit" ELSE EstadoDe(u)
    BY <1>1, <1>2, <1>11 DEF Acaba, Quedan, Estado, Separados
  <2>2. QED
    BY <2>1 DEF Diagrama!Terminar
<1>12. QED
  BY <1>1, <1>4, <1>5, <1>6, <1>7, <1>8, <1>9, <1>10, <1>11 DEF EfectoLugares, Diagrama!Next

(* With one process the handlers implement the five-state diagram, for any    *)
(* degree: a thread only moves along its arrows, and enters Ready or Exec for *)
(* the first time only while fewer threads than the degree are admitted.      *)
THEOREM DiagramaConUno == UnSoloProceso => (Spec => SigueElDiagrama)
<1> SUFFICES ASSUME UnSoloProceso PROVE Spec => SigueElDiagrama
  OBVIOUS
<1>1. Init => Diagrama!Init
  <2> SUFFICES ASSUME Init, NEW t \in Hilos PROVE EstadoDe(t) = "inexistente"
    BY DEF Diagrama!Init
  <2>1. /\ estadoNew = <<>> /\ estadoBlocked = <<>> /\ estadoExit = <<>> /\ t # Nulo
        /\ \A p \in Procs : ready[p] = <<>> /\ exec[p] = Nulo
    BY NuloSupuesto DEF Init, SuseInit
  <2>2. Range(<<>>) = {} /\ Pid(t) \in Procs
    BY TidDeHilo DEF Range
  <2>3. QED
    BY <2>1, <2>2 DEF EstadoDe
<1>2. LugarPrevio /\ GradoInv /\ (LugarPrevio /\ GradoInv)' /\ [Next]_vars
        => [Diagrama!Next]_([t \in Hilos |-> EstadoDe(t)])
  <2> SUFFICES ASSUME LugarPrevio, GradoInv, LugarPrevio', [Next]_vars
               PROVE  Diagrama!Next \/ \A u \in Hilos : EstadoDe(u)' = EstadoDe(u)
    OBVIOUS
  <2>1. CASE UNCHANGED vars
    BY <2>1 DEF vars, suseVars, listas, locales, EstadoDe, Cerrando
  <2>2. ASSUME NEW p \in Procs, Cliente(p) PROVE \A u \in Hilos : EstadoDe(u)' = EstadoDe(u)
    BY <2>2 DEF Cliente, suseVars, listas, locales, EstadoDe, Cerrando
  <2>3. ASSUME NEW p \in Procs, Servidor(p)
        PROVE  Diagrama!Next \/ \A u \in Hilos : EstadoDe(u)' = EstadoDe(u)
    BY <2>3, PasoDelDiagrama DEF Servidor, LugarPrevio
  <2>4. QED
    BY <2>1, <2>2, <2>3 DEF Next
<1>3. QED
  BY <1>1, <1>2, GradoInvariante, PTL DEF Spec, SigueElDiagrama, Diagrama!Spec
=============================================================================
