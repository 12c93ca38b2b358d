------------------------------- MODULE Hilolay -------------------------------
(***************************************************************************)
(* Hilolay, the user-level thread library of the client processes          *)
(* (planificador/Hilolay/hilolay).  A process has one kernel thread: the   *)
(* running ULT calls the library, the library asks SUSE and, after a join, *)
(* a wait, a signal or the end of a ULT, yields to the ULT SUSE answers.   *)
(*                                                                         *)
(* The programs are arbitrary: the running ULT may make any call at any    *)
(* time.  Only the semaphores of Cerrojos are used with discipline, the    *)
(* signal by the ULT that did the wait.                                    *)
(***************************************************************************)
EXTENDS Canal

CONSTANTS
  Usa,       \* the semaphore names each process opens
  Cerrojos   \* the semaphores the programs use as locks

ASSUME HilolaySupuesto ==
  /\ Usa \in [Procs -> SUBSET Nombres]
  /\ Cerrojos \subseteq Sems

VARIABLES
  cli,          \* what the process is doing
  actual,       \* current_ult
  siguienteId,  \* NEXT_ID
  tomados       \* the locks each ULT has waited for and not signalled since

hilolayVars == <<cli, actual, siguienteId, tomados>>

HilolayInit ==
  /\ cli = [p \in Procs |-> "afuera"]
  /\ actual = [p \in Procs |-> 0]
  /\ siguienteId = [p \in Procs |-> 1]
  /\ tomados = [t \in Hilos |-> {}]

Corriendo(p) == cli[p] = "corriendo"
Yo(p) == <<p, actual[p]>>

Pasar(p, desde, hasta) == cli[p] = desde /\ cli' = [cli EXCEPT ![p] = hasta]
Pedir(p, op, arg, espera) ==
  /\ Pasar(p, "corriendo", espera)
  /\ Enviar(p, Pedido(op, arg))

-----------------------------------------------------------------------------
(* hilolay_init connects and sends INIT, which has no reply; init_internal   *)
(* then creates the main thread with tid 0.                                  *)
Iniciar(p) ==
  /\ Pasar(p, "afuera", "conectado")
  /\ Enviar(p, Pedido("INIT", SinArgumento))
  /\ UNCHANGED <<actual, siguienteId, tomados>>

InitInternal(p) ==
  /\ Pasar(p, "conectado", "crea")
  /\ Vacio(p)
  /\ Enviar(p, Pedido("CREATE", 0))
  /\ UNCHANGED <<actual, siguienteId, tomados>>

HilolayCreate(p) ==
  /\ siguienteId[p] <= UltimoTid[p]
  /\ Pedir(p, "CREATE", siguienteId[p], "crea")
  /\ siguienteId' = [siguienteId EXCEPT ![p] = @ + 1]
  /\ UNCHANGED <<actual, tomados>>

Creado(p) ==
  /\ Pasar(p, "crea", "corriendo")
  /\ Llego(p, "RESPUESTA")
  /\ Enviar(p, Nulo)
  /\ UNCHANGED <<actual, siguienteId, tomados>>

HilolayYield(p) ==
  /\ Pedir(p, "SCHEDULE_NEXT", SinArgumento, "cede")
  /\ UNCHANGED <<actual, siguienteId, tomados>>

(* A program can only join the threads it created. *)
HilolayJoin(p, tid) ==
  /\ tid \in 1..(siguienteId[p] - 1)
  /\ Pedir(p, "JOIN", tid, "pide")
  /\ UNCHANGED <<actual, siguienteId, tomados>>

HilolayWait(p, s) ==
  /\ s \in Usa[p]
  /\ s \in Cerrojos => s \notin tomados[Yo(p)]
  /\ Pedir(p, "WAIT", s, "pide")
  /\ tomados' = [tomados EXCEPT ![Yo(p)] = @ \cup ({s} \cap Cerrojos)]
  /\ UNCHANGED <<actual, siguienteId>>

HilolaySignal(p, s) ==
  /\ s \in Usa[p]
  /\ s \in Cerrojos => s \in tomados[Yo(p)]
  /\ Pedir(p, "SIGNAL", s, "pide")
  /\ tomados' = [tomados EXCEPT ![Yo(p)] = @ \ {s}]
  /\ UNCHANGED <<actual, siguienteId>>

(* The routine of a ULT returns: wrap closes it and yields. *)
Wrap(p) ==
  /\ actual[p] # 0
  /\ Pedir(p, "CLOSE", actual[p], "pide")
  /\ UNCHANGED <<actual, siguienteId, tomados>>

(* hilolay_return in main closes it; the process ends after the reply. *)
HilolayReturn(p) ==
  /\ actual[p] = 0
  /\ Pedir(p, "CLOSE", 0, "retorna")
  /\ UNCHANGED <<actual, siguienteId, tomados>>

-----------------------------------------------------------------------------
(* The reply of a join, a wait, a signal or a close: the library yields. *)
Ceder_NoCede(p) ==
  /\ Pasar(p, "pide", "corriendo")
  /\ Llego(p, "RESPUESTA")
  /\ Enviar(p, Nulo)
  /\ UNCHANGED <<actual, siguienteId, tomados>>
Ceder(p) ==
  /\ Pasar(p, "pide", "cede")
  /\ Llego(p, "RESPUESTA")
  /\ Enviar(p, Pedido("SCHEDULE_NEXT", SinArgumento))
  /\ UNCHANGED <<actual, siguienteId, tomados>>

(* get_next_tid: some ULT of the process has the id answered. *)
Conoce_Negativos(p, tid) == tid < siguienteId[p]
Conoce(p, tid) == tid \in 0..(siguienteId[p] - 1)

(* swap_context to the ULT answered ... *)
SwapContext(p) ==
  /\ Pasar(p, "cede", "corriendo")
  /\ Llego(p, "RESPUESTA")
  /\ Conoce(p, canal[p].arg)
  /\ actual' = [actual EXCEPT ![p] = canal[p].arg]
  /\ Enviar(p, Nulo)
  /\ UNCHANGED <<siguienteId, tomados>>

(* ... which is NULL when no ULT of the process has the id, as with -1: the  *)
(* process dies of a segmentation fault.                                     *)
Abortar(p) ==
  /\ Pasar(p, "cede", "abortado")
  /\ Llego(p, "RESPUESTA")
  /\ ~Conoce(p, canal[p].arg)
  /\ Enviar(p, Fin)
  /\ UNCHANGED <<actual, siguienteId, tomados>>

Terminar(p) ==
  /\ Pasar(p, "retorna", "terminado")
  /\ Llego(p, "RESPUESTA")
  /\ Enviar(p, Fin)
  /\ UNCHANGED <<actual, siguienteId, tomados>>

Programa(p) ==
  \/ Iniciar(p) \/ InitInternal(p)
  \/ HilolayCreate(p) \/ Creado(p)
  \/ HilolayYield(p) \/ Wrap(p) \/ HilolayReturn(p)
  \/ \E tid \in Tids : HilolayJoin(p, tid)
  \/ \E s \in Nombres : HilolayWait(p, s) \/ HilolaySignal(p, s)
  \/ Ceder(p) \/ SwapContext(p) \/ Abortar(p) \/ Terminar(p)

Estados == {"afuera", "conectado", "corriendo", "crea", "pide", "cede",
            "retorna", "terminado", "abortado"}

(* The library's variables have the types of their declarations. *)
HilolayTypeOK ==
  /\ cli \in [Procs -> Estados]
  /\ actual \in [Procs -> Tids \cup {0}]
  /\ siguienteId \in [Procs -> Nat]
  /\ tomados \in [Hilos -> SUBSET Cerrojos]
=============================================================================
