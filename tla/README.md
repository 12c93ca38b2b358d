# A TLA+ verification of SOcorro

SOcorro is a course project in C: three servers and their client libraries.

| Subsystem | Server | Clients | What it does |
|---|---|---|---|
| planificador | SUSE, `planificador/suse/src/suse.c` | Hilolay, `planificador/Hilolay/hilolay` | schedules user-level threads (ULTs) of several processes, with a degree of multiprogramming and named semaphores |
| memoria | MUSE, `memoria/muse/src/muse.c` | libmuse, `memoria/libmuse/src/libmuse.c` | a shared paged memory with heap segments, swap, clock replacement and mapped files |
| filesystem | SAC, `filesystem/sac-server/src/sac-server.c` | sac-cli (FUSE), `filesystem/sac-cli/src/sac-cli.c`, through `libreriaComun` | a file system of 1024 nodes over a disk file |

Every server runs one POSIX thread per connection; the threads share global lists
and arrays protected by `sem_t` mutexes, and each connection is a blocking
request/reply protocol.  All paths in this document are relative to `src/`.

This project models the planificador (section 3), the filesystem with the socket of its
client (section 4), and the memoria: its pages, its heaps and its mapped files (section 5).

## 1. Inventory

### 1.1 SUSE and Hilolay

**State of SUSE** (`suse.h`).  Shared: the lists `estadoNew`, `estadoBlocked`,
`estadoExit` (`mut_new`, `mut_blocked`, `mut_exit`), the free degree of
multiprogramming `configuracion->MAX_MULTIPROG` (`mut_multiprogramacion`) and the
semaphores, each with a value, a maximum, a queue of blocked threads and
`mut_proteccion`.  Local to the thread of each client, `ocupateDeEste`
(`suse.c:187-588`): `colaDeReady`, `exec` and `mut_miSemaforo`.

**Operations.**  INIT, CREATE, SCHEDULE_NEXT, JOIN, CLOSE, WAIT, SIGNAL, and the
end of the connection.

**State of Hilolay** (`hilolay_internal.c`): the ULT table, `current_ult`, `NEXT_ID`.
Operations: `hilolay_init`, `create`, `yield`, `join`, `wait`, `signal`, `return`, and
`wrap`, around the routine of every ULT.  After a join, a wait, a signal or a close the
library asks for SCHEDULE_NEXT and swaps to the ULT of the tid it is given.

**Interaction.**  A request is sent and its reply awaited with `MSG_WAITALL`, so a
connection holds one message at most; INIT has no reply.

**What is hard.**  The handlers of several processes interleave between their
critical sections; the lists and semaphores are shared but several operations filter
by process and others do not; a request changes in several critical sections what
belongs together (a slot and the thread that holds it, a thread and the list it is in);
each branch of SIGNAL releases its mutex on its own; the handler's own semaphore is
taken by one request and released by another.

**What makes it correct.**  A thread is always in one place; the free slots and the
admitted threads add up to the degree; a blocked thread has exactly one waker; what
runs in the client is what SUSE has in Exec; a semaphore counts; every request is
answered; nothing dereferences NULL.

### 1.2 MUSE and libmuse

**State.**  Page frames `{ocupado, bit_uso, bit_modificado}` and swap slots (bit
arrays under one mutex), the clock hand `posicion_puntero_clock`, the remaining room
`lugar_disponible`, the table of programs with their segments (heap segments with
`heap_metadata {size, is_free}`, 5 bytes, or mapped files) and the table of shared mappings
`tabla_de_mapeo` with a reference count.

**Operations** (`ocupate_de_este`, `muse.c:1697-1895`): `muse_init`, `muse_alloc` (five
branches), `muse_free` (coalescing, page release), `muse_get`, `muse_cpy`, `muse_map`,
`muse_sync`, `muse_unmap`, `muse_close`.  Reading or writing a page may run the
modified clock (`ejecutar_clock_modificado`), which moves a victim to swap.

**What is hard.**  Victims that belong to another program or to a segment not yet
published; the check of the free room and its use in different critical sections;
allocations that fail half-way; two names (path and size) for one mapping; resources
returned by some exits and not by others.

**What makes it correct.**  No frame or swap slot is used twice; a page is found where
its table says; the metadata of a segment tile it; `lugar_disponible` is what is free;
a mapping lives exactly while someone has it mapped.

### 1.3 SAC, libreriaComun and sac-cli

**State.**  The bitmap of blocks (a copy in memory), the table of 1024 nodes (mapped
from the disk), `diccionario_de_path` from paths to nodes; semaphores `s_bitarray`,
`s_diccionario`, `s_tabla_de_nodos`.  The client has one socket.

**Operations.**  mknod, mkdir, unlink, rmdir, open, read, write, truncate, rename,
getattr, readdir, utimens; formatting and loading the disk.

**What is hard.**  A node is chosen under a lock and marked used after it; two maps of
one truth (dictionary and table, bitmap and block pointers); a write that runs out
of blocks; a restart that loads a bitmap never written back; the FUSE threads that
share a socket without a mutex and replies whose length is not what is read.

**What makes it correct.**  No two paths share a node and no two nodes a block; the
dictionary agrees with the table; used blocks are exactly the referenced ones, also
after a restart; a FUSE call gets its own reply.

## 2. Plan

| # | Modules | About | Proved |
|---|---|---|---|
| 1 | `Canal`, `Suse`, `Hilolay`, `Planificador`; abstract: `CincoEstados`, `SemaforoContador` | the whole of the planificador | types, semaphores and their refinement, the handler's semaphore, no thread lost, no NULL followed; with one process every safety property of the runs and both refinements |
| 2 | `SacDisco`, `SacAtencion`, `SacArbol`, `SacDatos`, `Sac`; abstract: `ArbolDeRutas`, `ArchivosDeBytes` | the requests of SAC by concurrent handlers, the blocks, the restart | with one mount and no restart, types, every property of the blocks, that the table and the dictionary hold the same tree, the refinement of `ArbolDeRutas` by the requests on the tree and, without RENAME, that of `ArchivosDeBytes` |
| 3 | `SacMensajes`, `SacSocket` | the messages of libreriaComun and the calls of FUSE over one socket | with one thread of FUSE, that requests and replies are read as they were written, for every size |
| 4 | `MuseMarcos`, `Muse`; abstract: `MemoriaDePaginas` | frames, swap, modified clock, the pages of every request | with one program every safety property of the run and the refinement |
| 5 | `MuseSegmentos`, `MuseHeap`, `MuseMapeo`, `MuseProgramas`; abstract: `Asignador`, `ArchivosMapeados` | heaps and mappings of several programs, the room they share and their mutexes | the mutexes of the handlers; with careful programs the types, the places of the segments, the counts of the mappings and the room |

What would come next: the heaps as an allocator (`ImplementaAsignador`) and the mappings as shared files
(`ImplementaMapeos`), from the invariants of section 5.6.

The instances are small: two programs or processes, two or three frames, pages so short that
metadata cross their borders.  Every run ends within three minutes.  The project keeps to a dozen runs
and some forty checked properties, so a run of a new module takes the place of an older one that
asks less; disagreements that are only written down (sections 3.4, 4.4, 5.4, 5.5) are examples of
what gave place.

## 3. The planificador

### 3.1 Modules

| Module | What |
|---|---|
| `Canal` | the connection: a slot per process, the messages, the constants both ends share |
| `Suse` | the server: one action per critical section of `ocupateDeEste` |
| `Hilolay` | the library and an arbitrary program over it |
| `Planificador` | their composition, and every property |
| `CincoEstados` | abstract: the five-state diagram with a degree of multiprogramming |
| `SemaforoContador` | abstract: a bounded counting semaphore with a queue in order of arrival |
| `MCPlanificador` | the instances for TLC |
| `PlanificadorProofs` | the theorems for any processes; of a lone one, its semaphores, Exec, joins, lists, degree and diagram |

**Atomicity.**  The list, semaphore and degree each have a mutex, and what happens on
them between two handlers' critical sections can interleave; the variables `ready`,
`exec` and `miSemaforo` are local to a handler.  So an action is one critical section
and the local steps that follow it up to the next, and `pc` says where a handler is:
CREATE has three actions in sequence (add to New; test and take the degree; move to
Ready or Exec), CLOSE up to five, JOIN up to four and, when it waits for Exec, one per
thread of New that `moverTCBaReady` visits.  WAIT and SIGNAL hold `mut_proteccion`
throughout and are one action each.

The tests of the degree outside its mutex (`suse.c:329,336`) are separate from the
decrement, as in the code.  `list_sort` and `list_iterate` over New without `mut_new`
(`suse.c:337,346`) are atomic, respectively one action per element: the broken links
a real race could leave are not modelled, so the runs only show what goes wrong with
intact lists.

**Data.**  A tcb is the pair of its pid and tid; a semaphore name is a model value; the
estimations of SJF are left out and any Ready thread may be the smallest, which covers
every possible history of times.  A closure over a list that holds a NULL kills the
server (`caido`): only the sort of SCHEDULE_NEXT (`PlanificaCae`) and a WAIT with
nobody in Exec (`WaitCae`) are modelled as deaths, and `PunterosValidos` checks that
the other places never see one.

**Programs.**  Any ULT that runs may make any call at any time.  Only the semaphores of
`Cerrojos` are used with discipline (signal by whoever waited); a join names a thread
the process created, since a `hilolay_t` is filled by `hilolay_create`.

**Bounds.**  `UltimoTid` (threads per process; in the code `MAX_ULTS`, 5000), `TopeLocal`
(`mut_miSemaforo` is not counted above 2: it is never decremented more than once
between two increments, so a higher value behaves as 2).

### 3.2 Runs

| Run | Instance | Shows |
|---|---|---|
| `un_proceso` | one process, 4 threads, degree 3, a lock A (1/1) and a counting semaphore B (0/2); 144,006 states | a lone process finds SUSE correct: the degree is conserved and never wasted, no thread is lost or duplicated, joins register, SUSE refines `CincoEstados` and every semaphore `SemaforoContador` |
| `dos_aislados` | two processes (2 and 1 threads), each with its lock and one with an unknown name too, degree 3: no tid of one can be joined by the other, the degree never fills; fair; 16,196 states | the interleavings of the handlers only move threads along the diagram, and every request is answered (so SUSE does not die) |
| `dos_procesos` | two processes of 2 threads sharing a semaphore, degree 2; 137,601 states | what survives any interference: the bounds of the semaphores, the handler's semaphore, where NULL is dereferenced, and that no thread is lost |

Four threads (main and three more) with degree 3 is `correrPrueba2` of
`pruebitaSuse/src/pruebita.c`: the last create stays in New.  Two processes are enough
for every interference, since all of them are between a handler and one other.
`CHECK_DEADLOCK FALSE`: the system stops when its programs end, when SUSE dies, or when
the programs deadlock among themselves.

**Fairness.**  `SpecJusta` assumes that the kernel runs the handler threads (weak
fairness of `Servidor(p)`, whose steps are enabled until taken).  Nothing is assumed of
the programs, which may loop or stop; so no property says that a thread ever runs.

### 3.3 Properties

*Degree.*  `ConservacionDelGrado`: free slots, admitted threads and slots in transit add up
to the configured degree.  `SinLugarOcioso`: with every handler at rest, no slot is free
while a thread is in New.

*Threads.*  `UnSoloLugar`: a thread is in exactly one place from its creation.
`NadieSePierde`, whoever shares SUSE: it is in some place.
`BloqueadoConDespertador`: a blocked thread is in one semaphore's queue, or in the list
of one live thread, not both.  `AcuerdoDeEjecucion`: the ULT that runs is Exec.
`JoinRegistrado`: a join is only answered when the joined thread ended or the caller is
registered with it.  `PunterosValidos`: NULL.

*Semaphores.*  `SemaforoCuadra`, `ValorAcotado`, `LocalLibre`.

*Liveness.*  `PedidoAtendido`: no handler stops in the middle of a request, on a mutex or dead.

*Refinement.*  `SigueElDiagrama`, `EsSemaforo`.

The properties that `dos_procesos` leaves out (`ConservacionDelGrado`, `UnSoloLugar`,
`AcuerdoDeEjecucion`, `BloqueadoConDespertador`, `SemaforoCuadra`,
`PedidoAtendido`) are false of two processes that share semaphores or tids, all as a
consequence of what section 3.4 tells: a JOIN answered by a foreign thread leaves the caller
registered where its close will not find it, and a wait by a process whose main thread
is still in New dereferences NULL.

### 3.4 What the code does otherwise

No run states these; they were met while modelling, and the counterexamples are found by
widening the instances as told.

* CLOSE releases its slot and then admits a thread of New without testing the degree again; the
  CREATE of another process in between takes the slot too, and more threads are admitted than
  the degree (`suse.c:425-437`; two processes over a degree of 2, and `SigueElDiagrama` fails).
* SIGNAL at the maximum keeps `mut_proteccion` and the next WAIT on that semaphore is never answered
  (`suse.c:546`; a process that signals without having waited, and `PedidoAtendido` fails).

Also: CLOSE only admits threads of its own
process, and the released slot stays free while those of another wait in New
(`suse.c:432-437`; `SinLugarOcioso` is false of two processes); JOIN looks for the tid in
lists that hold the threads of all processes (`suse.c:351-353`); SIGNAL adds the unit but
wakes only threads of its process (`suse.c:557-563`; `SemaforoCuadra` is false of two
that share a semaphore); the slot is given back only below the constant 3
(`suse.c:422`), so `MAX_MULTIPROG=15` of `Debug/plani.config` loses slots; a disconnection releases nothing; the first estimation of a thread put in Exec by CREATE
or JOIN reads `tiempoDeInicio` uninitialised.

### 3.5 Proofs

Checked by TLAPS, for any number of processes, threads, semaphores, any maxima and any
degree; they assume only the `ASSUME`s of `Canal`, `Suse` and `Hilolay` (constants well
typed, initial values not over the maxima, NULL is no thread and no message).

* `TipoCorrecto` (`PlanificadorProofs`): `Spec => []TypeOK`.  The types are not inductive.  That
  the tcb of a CREATE is a thread, for instance, needs that the request is still in the
  connection when the handler, two critical sections later, moves it to Ready; and that
  CLOSE has an Exec to wake the waiters of.  `TipoInv` adds `Conversacion` (the two ends
  take turns: the library is silent while a request is pending and a handler in the middle
  of a request has that request before it) and `EnMarcha` (what the first step of a
  request found is still there for the next ones).  One lemma per request proves the types and
  one the turns, with a step per action; `ClienteTipoInv` does the library.
* `LocalSiempreLibre`: `Spec => []LocalLibre`.  `LocalInv`: the handler's semaphore
  is taken only between the reply of a SIGNAL and the SCHEDULE_NEXT of the yield that follows,
  when no WAIT and no SIGNAL can be pending.  A crossing of library and server that neither file shows alone.
* `ValorSiempreAcotado`: `Spec => []ValorAcotado`, from `PasoDeSemaforo`, which reduces any step of
  the system to one of six changes of a semaphore (`Cambio`).
* `SemaforoCuadraConUno` and `SemaforoImplementado`: with one process
  (`UnSoloProceso`), the value counts the queue, and every step of the system is a step of
  `SemaforoContador` or leaves it alone.  The hypothesis is needed: a SIGNAL wakes
  only threads of its process.  The key is `DespertarAlPrimero`: when every queued thread is of
  the signalling process, the first of the process is the first of the queue.
* `NuncaSePierde`: `Spec => []NadieSePierde`, for any processes that share SUSE: a thread
  whose CREATE was taken is in some list or in some Exec.  With two processes it may be in two places
  (so `UnSoloLugar` is false of them), but in none it never is.  It needs `Turno`, whose message is
  on each connection at each step of both ends, since a thread exists for SUSE from the
  moment its request is taken; and `CierraEnExit`, for a CLOSE empties Exec two sections after the
  thread was put in Exit.  The lemmas `RangoAgregar`, `RangoQuitar`, `RangoSin` and `RangoOrden` say
  what the operations on lists keep.
* `PunterosSiempreValidos`: `Spec => []PunterosValidos`.  Two invariants: `NuloInv`, a NULL gets in
  Ready by a CLOSE, whose program can only yield next, so that SCHEDULE_NEXT is the first to meet
  it; and `PropioInv`, a process that runs code of a ULT has a thread in Exec or else one of its
  own in New, for whatever its last dispatch answered and whoever takes threads from New meanwhile
  (`NewDeOtros`).
* `AcuerdoConUno`: `Spec => []AcuerdoDeEjecucion` with one process and a degree of at
  least one.  `EjecucionInv` follows each connection: a program that has not yet sent the CREATE of its main
  thread has nobody in Exec, its CREATE admits the main thread, and a yield is answered with what
  Exec then holds.  Both hypotheses are needed: with two processes `AcuerdoDeEjecucion` is false, and
  with a degree of zero the main thread stays in New and runs.
* `JoinConUno`: `Spec => JoinRegistrado` with one process.  `JoinInv` keeps what the
  search has ruled out in each of its sections; that the thread is then in none of the lists contradicts
  `NadieSePierde`, unless it ended.

* `SinLugarOciosoConUno`, `UnSoloLugarConUno`, `BloqueadoConUno`, `ConservacionConUno` and
  `DiagramaConUno`: what one process finds, each with an invariant of its own on top of
  the previous ones.
    - `OcioInv`: what each section of CREATE and CLOSE leaves in New for the next.  A CREATE finds New empty or
      no slot, so that the thread it takes from New is its own; a CLOSE admits at most one.  It follows that
      the JOIN that dispatches (`JoinDespacha`) never runs: there is no thread in New and a slot for it
      at once (`NadieDespachaEnJoin`).
    - `LugaresInv`: New, Ready, Exec, Blocked and Exit are disjoint and without repetitions, and whoever is in
      them was created.  `EfectoLugares` reduces each of the thirty actions to one of eight moves of a
      thread (`Nace`, `Entra`, `Arranca`, `Pasa`, ...), and what follows is proved of the moves.  Exec
      counts as empty while its thread is in Exit and CLOSE has not yet released it (`EnExec`).
    - `DespertarInv`: a blocked thread is in the queue of one semaphore or in the list of one thread, and nobody else is
      in any; a thread in Exit has nobody registered, unless its CLOSE is waking them.  It needs
      that the thread a JOIN found has not ended when the JOIN registers with it.
    - `GradoInv`: the slots (`Cuenta`) are never more than the degree, and are equal to it while the degree is at
      most three, which is the hypothesis of `ConservacionConUno`: CLOSE gives a slot back only below three.
    - `DiagramaConUno` has no hypothesis on the degree.  Each move of `EfectoLugares` is an arrow of the
      diagram; that the degree is not exceeded when a thread leaves New needs `GradoInv` and that the
      two sections that take a thread from New hold a slot for it (`SaleDeNew`), with the bound of the
      admitted threads by the lengths of the lists (`AdmitidosAcotados`).

  `UnSoloProceso` is needed by all: section 3.3 says which of them are false of two.

Only model-checked: the liveness property (out of the prover's reach), and `SigueElDiagrama` of two processes
that share nothing (`dos_aislados`), whose threads compete for the slots and would need these
invariants per process.

### 3.6 Not modelled

The values of the SJF estimations (and so starvation, which the algorithm permits), the
metrics threads, packing of messages, memory management of the library
(`hilolay_sem_open` allocates one byte too few), and races on the links of `estadoNew`.

## 4. SAC

### 4.1 Modules

| Module | What |
|---|---|
| `SacDisco` | the nodes and blocks (the disk), the dictionary and the bitmap (the memory); formatting and loading |
| `SacAtencion` | the handler of a client, and the requests that change nothing but a date: GETATTR, UTIMES, READ |
| `SacArbol` | OPEN, MKNOD, MKDIR, RMDIR, READDIR, RENAME |
| `SacDatos` | WRITE, TRUNCATE, UNLINK |
| `Sac` | server and clients, the restart, and every property |
| `ArbolDeRutas` | abstract: a set of paths with requests served at once |
| `ArchivosDeBytes` | abstract: a row of bytes per path |
| `SacMensajes` | the messages of libreriaComun: what is packed, how long each says it is, what is unpacked |
| `SacSocket` | the calls of FUSE to sac-cli and the thread of the server, send by send and recv by recv |
| `MCSac`, `MCSacSocket` | the instances for TLC |
| `SacDatosProofs`, `SacArchivosProofs` | the theorems about the blocks, and about the files and the tree of one mount |
| `SacSocketProofs` | the theorems about what is read from a socket of one thread |

**Atomicity.**  `s_diccionario` and `s_bitarray` protect the memory and nothing protects
the disk.  An action is a section of a semaphore or a write to the disk between two
sections, and `pc` says where each handler is: MKNOD is `CrearAusente`, `ElegirNodo`,
`MarcarNodo`, `BuscarPadre`, `NombrarNodo`, `ApadrinarNodo`.  `dame_el_nodo_de` is two
sections.  UNLINK holds `s_diccionario` while it wipes the file (`mutexDicc`), and
everything that needs the dictionary waits for it.  `s_tabla_de_nodos` is only held
while the table is scanned; the scan and the put of `dame_el_primer_nodo_libre` are one
action, since no other creator can scan meanwhile and a node freed meanwhile could as
well be freed after.

**Data.**  A path is a sequence of names and a name a sequence of letters, because RENAME
compares prefixes of strings.  A block is `Celdas` cells, numbers of blocks when a node
points to it and bytes otherwise.  The dates, the header, and the sockets are left out.
`dictionary_*` of the commons is external: a map whose `get` gives NULL, which is node
0, for what is not there; `dictionary_iterator` meets in any order the keys there were,
and may meet the ones put since.

**Clients.**  `Permite` is the kernel: before a request it looks the path up, and does not
ask to create what is there, to write a directory, nor to move a directory into itself.
A mount makes one request at a time.  Two mounts see each other only through the server,
so what one saw may be gone when its request is served; then UTIMES, READ, WRITE and
TRUNCATE dereference -1 and the server dies (`NodoInvalido`).  CHMOD never reaches the
server.  The kernel takes O_CREAT and O_EXCL out of an open; the requests that carry them
are those `serialiazar_open` can make and `_open` serves.

**Undefined behaviour.**  `_truncate` to a larger size reaches the end of a function that
returns an int: `NoTruncar` takes any of the three branches of its caller, and for the
third the client gets no answer and asks for nothing more (`colgado`).

**The restart.**  `Levantar` keeps the disk, rebuilds the dictionary from it, and takes the
bitmap that was written when it was formatted, which is the only one ever written.

**The socket** (`SacSocket`).  A direction of the socket is a row of bytes, and a step a send of a message or a recv
with `MSG_WAITALL` of as many bytes as the code asks for.  Of the bytes only those of the integers that give lengths
have a value; each one remembers which call it is of and as which field it was written.  What a request
does is in the other modules: here the reply is any that its case of `atender_cliente` may send,
each error as long as that case makes it.  The four requests that use a missing node may end
the server (`Morir`).  The module takes any number of threads of FUSE; sac-cli is right only
with one (section 4.4).

### 4.2 Runs

| Run | Instance | Shows |
|---|---|---|
| `sac_un_montaje` | one mount, five nodes, two names, paths of up to three names after renames, restarts between requests; 252,862 states | dictionary and table agree, and SAC implements `ArbolDeRutas` |
| `sac_archivos` | one mount, two files of up to two blocks of two bytes, four blocks; 385,063 states | bitmap and pointers agree, a free block is clean, SAC implements `ArchivosDeBytes` |
| `sac_dos_montajes` | two mounts that write a file each and both use a third and a directory; 436,358 states | a path is never left leading to a free node or one that has another path (`RutasVivas`); while they compete for blocks, no request changes what a file it is not about holds (`ContenidoAjeno`) |
| `sac_socket` | one thread of FUSE, all twelve operations, a path and a buffer of a few bytes, directories of up to two names; fair; 131 states | requests arrive whole, calls read their own replies, and those with errors of one length return |
| `sac_reinicio_bitmap` | one mount that writes two files, with restarts | the finding below |

The bounds: in `sac_archivos` both files do not fit, so the disk
fills at each of the two takes of a write; a block of two cells has an aligned and an
unaligned offset, and writes that end inside, at and past its end.  The socket with one thread
holds one request or one reply, so that the states of `sac_socket` are few; a path, a buffer and a header differ in length,
so that a field read with the length of another is noticed.  Five nodes leave the
table full with a directory, its contents and a sibling.  `TopeDirectorio` keeps
directories out of the last nodes, which a restart does not load
(section 4.4); in the code there are 1,022 others.  `TopeTamanio` bounds
`tamanio_de_archivo`, which grows with every write.  Each file has one writer: two
clients on one file at once can make a write follow the pointer 0 into the header of the
disk, and that is out of the model.  `sac_dos_montajes` has one remover and one writer
of each file, since two removals free the root (section 4.4).  `CHECK_DEADLOCK FALSE`: a client may be left without answer and the
server may die.

**Fairness.**  `SocketJusta`: the thread of FUSE and the one of the server run while they have bytes to read or something to do (weak
fairness of each).  The kernel may ask for nothing.

### 4.3 Properties

All the invariants of agreement are of states where nothing is being served (`Reposo`).

*Tree.*  `Encuentra`: the path a used node has in the table leads to it.  `RutasVivas`: a
path of the dictionary leads to a used node that has it in the table, through directories
in use.  `ImplementaArbol`: to one client, each request has its whole effect or is refused
because it cannot be served, and restarts change nothing; the tree while a request is
served is the one before it (`antes`).

*Socket.*  `PedidoEntero`: what the server takes for a request is what one call packed, field by field, and
nothing of it is left.  `RespuestaPropia`: a call reads only bytes of its own reply, each field as it
was written, and leaves none.  `LlamadaTermina`: it returns, unless the server dies.

*Data.*  `BloquesSinCompartir`, `BitmapExacto`, `LibresEnCero`: ownership of blocks.
`ContenidoAjeno`: a file only changes while a request on it is served.
`ImplementaArchivos`: a write changes its bytes and no others, and removed and truncated
files are empty, also when their path is created again.  A READ is answered (`leido`) the bytes that the file holds from the start of a
block to its end, or the first of a block of zeros, whatever blocks were taken, freed and taken again before: the abstract
file is what the writes made of it, and knows no blocks.  Of a READ from the middle of a block nothing is promised, since
the code copies from another block (section 4.4); the kernel asks in pages, of the size of a block, unless FUSE is
mounted with direct_io.

`RutasVivas` and `ContenidoAjeno` are checked where two mounts race, `Encuentra` and the four properties of the bitmap and
the blocks where one mount fills the table or the disk.  `sac_dos_montajes` does not check `Encuentra`: two creations of the same file can leave a
node used and out of the dictionary: a node is chosen under a semaphore and marked after it.

### 4.4 Findings

1. `sac_reinicio_bitmap`: the bitmap is never written back, and after a restart a write takes
   the blocks of another file (`ContenidoAjeno`).

Also met and not stated as runs.  `main` of sac-cli says of `fuse_main` "delegar to do en varios threads" (`sac-cli.c:520-522`), and with two threads of
FUSE replies cross: one reads the reply of the other, since the socket has no mutex (`sac-cli.c:82`;
with two `Hilos` `RespuestaPropia` and `LlamadaTermina` fail).  An error of READDIR, of TRUNCATE or of one
case of RENAME is one integer where the call reads two, and the call waits for ever; the
stream is not left out of step by it, since no other call is made.  Two creations at once of different files get the same node,
since `dame_el_primer_nodo_libre` releases its semaphore before the node is marked (line 417;
`RutasVivas` is then false); `limpiar_nodo` frees a block before it clears it, and the bytes
another client writes in between are wiped (line 1074; `ContenidoAjeno`); a read from the
middle of a block returns the start of another, since `_bloq+byte` advances blocks and not bytes (line 954); renaming `/a` renames `/ab` in the dictionary
(`sac-server.c:750`); the loser of two RMDIR of one directory frees node 0, the root
(line 162); the load looks for fathers in the blocks 0 to 1023, and a directory with a
late node is further on (line 228); `tamanio_de_archivo` grows with what is written over
(line 1007); a crash in the middle of a creation leaves a used node; `_truncate` to a
smaller size gives back every block; MKDIR over an existing path answers a success; the
bitmap covers an eighth of the disk; `_open` ignores O_TRUNC; the death and the missing
answer described above.

### 4.5 Proofs

`SacDatosProofs` proves, for any nodes, pointers, cells, blocks and requests, under the `ASSUME` of `SacDisco` and
`Hipotesis`: `BloquesSinCompartirConUno`, `BitmapExactoConUno`, `LibresEnCeroConUno`,
`ContenidoAjenoConUno` and `SacTiposConUno`, each of the form `Hipotesis => (Spec => []P)` for the property of that name
(`SacTypeOK` the last, and `ContenidoAjeno` an action property).  `Hipotesis` is

* `UnMontaje`: one connection, and no restart.  With a restart `ContenidoAjeno` is false (`sac_reinicio_bitmap`); with two mounts
  the blocks that the UNLINK of one clears after freeing them may be the other's by then (section 4.4), which
  `sac_dos_montajes` leaves out, as only an empty file is removed there.
* `FormatoBien`: the disk the server is started on has nodes of their types, files without blocks and blocks of zeros, and the paths its
  table gives are paths.  The last is a hypothesis because `Caminos` climbs from father to father, and gives no
  path to a used node whose fathers do not lead to the root.
* `PedidosBien`: requests are of paths, nobody creates or renames the root, and writes start at an offset the pointers of
  a node reach: `_write` does not look, and `IndicePIS` of a larger offset is past the pointers.

The instance of `sac_archivos` satisfies all of them, and `BloquesInv` was model-checked there before it was proved.

**The argument.**  The properties are of states at rest and say nothing of what a handler has half done.  `BloquesInv` does:

* `Apuntes`, `Distintos`, `Limpios`: in every state, pointers are zero or blocks of data, two places that hold the same block
  are the same place, and a block no place refers to is all zeros.  A place is a pointer of a node or a cell of the block that it points to
  (`En`), so that to write a number in a block of pointers, or to clear one, changes places of one node only, which
  `Distintos` is needed for.
* `Marcas`: a block is marked exactly if some place refers to it, except between the two steps of taking it (`Entra`: marked and
  not yet pointed to) and of giving it back (`Sale`: not marked and still pointed to).
* `Toma`: the block a write has taken is of no place, and the pointer it is for is still zero.  With a second mount that writes the same file it would not be.
* `Recorre`: the loops of UNLINK and TRUNCATE (`limpiar_nodo`, `desasignar_bloques`) have left nothing behind the cursor,
  the place at the cursor is not zero, and what desasignar_bloques frees is already clean.  The cursor goes to the
  least later position in use (`ProximoBloque`), so that when there is none the node has no blocks.

One lemma per action of `SacDatos`, over lemmas for what several of them change: a pointer or a cell of a block of pointers (`CambiaPuntero`,
`CambiaCelda`), the mark of a block, the cursor.  The requests on the tree touch neither blocks nor pointers (`NodosSinBloques`, `ArbolSinBloques`).  `ContenidoAjeno` follows from what a step may touch (`SoloDe`): the places of one node and the
blocks they refer to.

`SacArchivosProofs` proves `ImplementaArchivosConUno`: `Hipotesis /\ SinRenombres => (Spec => ImplementaArchivos)`.
`SinRenombres` says that the requests of the mount are all but RENAME: `ArchivosDeBytes` has no such request, since what a path holds is then
moved to another, and `ImplementaArchivos` would be false.  The instance of `sac_archivos` satisfies it.  `BloquesInv` says of each
byte which block it is in; `ArchivosInv` adds what leads from a path to its node:

* `UnaRuta`: no two paths lead to one node, so that what is written through one is not seen through another.
* `EnUso`: no path leads to a free node, but while MKNOD, MKDIR or OPEN is between entering the path and marking the node
  (`marcar`).  Hence the node those choose, which is free, is of no path yet.
* `SoloArchivos`: only files have blocks, so that a path that has just been created holds nothing.
* `Atiende`: a handler is only at points of the request it serves (`Sirven`); what the kernel saw before a write, a truncation or a removal
  (the path is there, and is of a file) is still so while it is served, and the node the handler keeps from one section to the next
  is still that of its path.  With a second mount that removes the file it would not be.

In the first state `UnaRuta` holds because the dictionary is made of paths that `Caminos` gives to one node each (`DiccionarioDeNodos`).
The mapping is `Guardado`: what the blocks of its node hold, byte by byte, or zeros.  The steps are then of four kinds.  Those that touch neither
pointers nor blocks are stutters (`PasoQuieto`) or answers (`RespuestaQuieta`).  Taking a block, pointing to it and filling a new block
of pointers change no byte, since a block without owner is all zeros (`GuardadoIgual`).  A write of bytes changes those of one block, through
the only place that refers to it, and is the step in which it is answered.  Clearing a block of data is a `Vaciar` of the
bytes of that block and of that path (`Tramo`, `VaciaBloque`); when the cursor has no place left the file holds nothing,
and then UNLINK and a TRUNCATE to zero are answered.  The requests on the tree change no path that
holds something.  A READ changes nothing, and what it is answered is compared with the abstract file (`LeerFiel`): the block that the
node points to at that offset is the one in which `Guardado` finds those bytes (`LecturaDeBloque`), a hole is a block of
zeros, and the node that the handler found when it took the request is still that of the path.

**The tree**, also in `SacArchivosProofs`: `EncuentraConUno` and `RutasVivasConUno`, of the form
`Hipotesis /\ NombresBien /\ FormatoArbolado => (Spec => []P)`.  The table and the dictionary hold one tree twice, and every
creation, removal and rename changes both in several writes.  The hypotheses are

* `NombresBien`: no name is the slash, and when there are RENAMEs no name begins another, for renaming `/a` renames `/ab` in the
  dictionary (section 4.4) and both properties are then false.  The names are those that requests bring and those of the
  first disk (`LosNombres`), of any length.
* `FormatoArbolado`: on the disk the server is started on the nodes in use are a tree, each in a directory whose block
  is below the number of nodes, which are those `levantar_diccionario` looks for.  A disk just formatted is one (`RecienFormateado`).

The argument has three parts:

* What `dame_mi_path_entero_global` finds.  `Arbolado(F, t)` says that `F` are the paths of the nodes in use of a table: they
  are all different, the root has the empty one, and that of every other is its name after that of a directory.
  `Ancestros` and `RutaCorta`: what is before a path are paths of directories, and it is shorter than the nodes are, by the pigeonhole
  principle, so that climbing `Nodos` fathers is enough.  `CaminoDe`: for a used node `Caminos` gives what `F` does.
* What each write does to a tree: a node that is born under a directory (`NaceArbol`), a node without
  children that dies (`MuereArbol`), and a node that goes with all that is under it to another directory, which is no descendant of its own
  (`MudaArbol`); and that `EmpiezaCon` and `Reemplazar`, over names none of which begins another, are a prefix of paths and its
  substitution (`EmpiezaEs`, `ReemplazarEs`).
* The invariant, `ArbolInv`.  When nothing is half done the dictionary has exactly the paths of the tree (`Plantado`).
  While a node is born (`Naciendo`) they are those of the tree without it, and its path is that of no other; while one is moved
  (`Mudando`) there is already a table that it will become, every node of the dictionary is under its old path or
  under the new one, and those still under the old are those the iterator has to visit.  And what the kernel saw before it made the request
  is still so while it is served (`Vio`, `Sabe`): the father is a directory, the directory to remove has no entries.  With a
  second mount that would not be.

The same invariant, with the paths read from the dictionary instead of an `\E F`, was model-checked before it was proved, on one mount with
five nodes and paths of two names (3,061,802 states).

**The tree as one**: `ImplementaArbolConUno`,
`Hipotesis /\ NombresBien /\ SoloArbol /\ Formato.tabla = TablaVacia => (Spec => ImplementaArbol)`.  To the invariants above it adds two
hypotheses: the disk has just been formatted, for the abstract tree starts with the root alone, and no request is a WRITE or a TRUNCATE
(`SoloArbol`), which may be refused for want of blocks where the tree would not.  `ArbolDeRutas` is seen through
`IF Reposo THEN Arbol ELSE antes`: the tree there was before the request until it is answered.  So every step but the last is a
stutter, and the last has to show the whole effect at once.  `EspejoInv` says how far the request has got: the dictionary and the table have the
tree there was (before a creation is chosen a node, in all of a removal); they have it and one path more (`Brota`); or each
key is a path of it, at its old place or where it goes, no two for the same (`Viaja`), under the conditions of the abstract RENAME
(`Parte`).  The steps that answer are then compared with `Puede` and `Resultado`:

* An error is only answered when the tree refuses: the table is full exactly when the tree has as many paths as there are nodes
  (`NoSobra`, `Sobra`), since each path has a node of its own; a directory that shows an entry has a path under it (`EntradaEsHijo`) and
  one without entries has none, at any depth (`SinDescendientes`).
* What is answered `ok` leaves the tree that the abstract request gives.  For RENAME (`MudarEspejo`), with no key left under the
  old path, the keys are the paths of the tree there was, each moved, and no two were moved to one (`TrasladaInyectiva`, which
  needs that the destination was not there before).

**The socket** (`SacSocketProofs`), for every size of a path, of a buffer and of a name, and every number of names in a
directory.  `PedidosEnteros`: `SocketSpec => []PedidoEntero`; `RespuestasPropias`: `SocketSpec => []RespuestaPropia`.
Both assume one thread (`Hilos = {h}`): sac-cli is right only with one, and two threads may read each other's replies
(section 4.4).  The proofs have two halves:

* The messages.  `Empacar`, `Bytes` and `Deserializar` are recursive functions, one step per field; that such a function
  exists is proved by its first index without a value (`HayPrimero`), and what it holds after each field in the
  same way.  `LoEscritoSeLee`: if a deserializer takes, in order, the fields of a list with the sizes they were written
  with, or with the integer written just before (`Calza`), then each piece it takes is all of one field and no byte is
  left.  `PedidoBien` and `UnCuerpo` show for each operation that its serializer and its deserializer are such a pair, and
  that the size sent is that of the bytes: TAM as the whole message for most, as the path alone for `serializar_path`.
* The conversation.  `SocketInv` says where the call is: in no place (`EnReposo`); in four stages, between the bytes in
  the socket and what the server has of them (`Pidiendo`); or answered, with what was read, what remains to be read and
  what is in the socket written as one row for each kind of reply (`Leyendo`).  It holds until the server dies.  There is
  a lemma for each step of either end (`LeeLaOp` ... `SeResponde`; `LlamaBien`, `LeeBien`, `VuelveBien`).  The replies
  that are too short for their caller (of READDIR, RENAME and TRUNCATE) are states in which it waits for a field and the
  socket is empty: it never takes a byte that is not its own.

`SocketInv` was model-checked on the instance of `sac_socket` before it was proved.

**Not proved.**  Everything with two mounts or with restarts, and over the socket with two threads, is model-checked.
`LlamadaTermina` is a liveness property.

### 4.6 Not modelled

The dates, the attributes as `stat` gets them, the header and the memory of the client; `_read` never answers
an error and CHMOD never reaches the server.

## 5. MUSE

### 5.1 Modules

| Module | What |
|---|---|
| `MuseMarcos` | frames, slots, clock, and every request as it takes, touches and gives back pages |
| `Muse` | the properties of the pages |
| `MemoriaDePaginas` | abstract: pages that hold what was last copied to them |
| `MuseSegmentos` | the segments of the programs, the room left, the mutexes, and what the requests share |
| `MuseHeap` | alloc, free and cpy on the segments of heap, over their lists of metadata |
| `MuseMapeo` | map, unmap, sync, get and cpy on mapped files, and close |
| `MuseProgramas` | the programs with heaps and mappings, and their properties |
| `Asignador` | abstract: blocks apart from each other |
| `ArchivosMapeados` | abstract: files that all who map them see alike |
| `MCMuse`, `MCMuseSegmentos` | the instances for TLC |
| `MuseMarcosProofs`, `MuseReservaProofs`, `MuseProgramasProofs`, `MuseLugarProofs` | the theorems |

MUSE is modelled twice, at two levels that meet in a page.  `MuseMarcos` has the frames, and which
pages of a segment a request needs is left open; `MuseSegmentos` and those that extend it have the layout of the segments, and a page is
there or was never loaded.  The two share no state: what the first takes for granted (any page of
a segment, any tail of it) includes what the second does.

**State of the pages.**  `bitMarco` and `ranuras` are the two bit arrays, `puntero` the clock's hand, `upcm`
and `swap` what is in the frames and slots, `pagina` the fields of each page, `tabla` the
segments of each program with their lists of pages, `lugar` is `lugar_disponible`.

**Atomicity of the pages.**  An action is a section of `mutex_bitarray` or of
`mutex_tabla_de_programas`, or a piece of the handler that touches a page, the memory or the
swap.  Bringing a page from swap is `TraerDeSwap`, then the steps of `asignar_marco_nuevo`,
`Traida`, `Pegar`, `Usar`; an eviction is `Buscar`, `BuscarPagina`, `ElegirRanura`, `CopiarASwap`,
`Desalojar`.  The fields of one page are assigned in one action.  `loc.vuelta` and `loc.luego`
say where the two procedures that several requests call go back to.

**Data of the pages.**  A page holds one value.  A request on a segment of heap (an allocation that
fits, a free, what an allocation does after it made its pages) touches any pages of the
segment and drops any tail of them, in any order (`metadatos`), and get and cpy take one page.
A page with neither frame nor slot is of a mapping: in this level mappings are private, of a
page, each of a file of its own.

**State of the segments.**  `tabla` has, of each segment of heap, its base, its size, how many pages it has
and how many it dropped (`liberadas`), and the list of `heap_lista` with the address, the room, the mark
and the index that the code keeps in each; of each mapping, the file and the list of its pages.
`mapeos` is `tabla_de_mapeo` with its counts, `hojas` the pages of each list, `archivo` the files.
`dado` is not of MUSE: it is what each program was given, and whether MUSE still has what the program copied
there.

**Atomicity of the segments.**  The segments of a program are touched by its handler alone.  The handlers share the
room, the table of mappings, the pages of the mappings and two mutexes.  On the heap, an action is a test
or a change of `lugar_disponible` under its mutex with the work on the handler's own segment that follows; muse_free gives
room back once for each pair of metadata it merges, so each is an action (`Juntar`), and the indices are
put right by the last (`Renumerar`).  On mappings, an action is a section of a mutex, or what is done
with one page.  `mutexProgramas` and `mutexMapeo` are held from an action to another only where
the code takes one within the other: `bajar_mapeo` and `muse_close`.

**Data of the segments.**  Addresses and sizes are numbers; differences that the code keeps in a `uint32_t` wrap at
`Palabra` (`SinSigno`).  Whether the metadata overwrite a block is found cell by cell (`Pisados`); the contents of the
heap are the state of each block: new, written by its program, or lost.  The pages of a mapping
hold their bytes: those of the file, the one value a program copies, zeros of the padding, or
`basura` when the code has not written them.

**Careful programs.**  `Cuidadosos` are the programs that ask only for what MUSE serves well.  The rules they follow
(`AllocServido`, `FreeServido`, `AccesoServido`, `Choca`, `SeTraban`) are as weak as we found: section 5.5
tells what happens without each one.  They are how these modules state the conditions under which MUSE
is correct, and the runs check that with them it is.  Beside the rules, the programs of the model are all of a kind:
every file has one length, which every map of it asks for, and only a block that was given is freed (5.5).

**Bounds.**  `PagsMax` and `SegsMax`, pages and segments a program has at once; a page is made only when one of the `PagsMax` names is free
(`SinUsar`).  `Altas` are the
allocations that need pages: `segmento` when the last segment is not of heap, `extension` of one
with pages, `rearmado` of one that muse_free left without any.  `Listas`, lists of pages of
mappings at once; `LiberadasMax`, pages a segment has and has dropped, which otherwise grow for ever;
`Trozos` and `Valores`, what programs read and copy.

### 5.2 Runs

| Run | Instance | Shows |
|---|---|---|
| `muse_paginas` | one program, two frames, one slot, two values, allocations of one and two pages, mappings; 1,195,652 states | no frame or slot has two owners, none is lost and NULL is not met with memory and swap full, and MUSE implements `MemoriaDePaginas` |
| `muse_heap` | two careful programs, four pages of 8 bytes, metadata of 2; one allocates blocks of 3 and of 11 and maps a file, the other blocks of 6; 649,184 states | segments are split, merged, emptied, given pages again and extended; the room is exact enough and MUSE implements `Asignador` |
| `muse_mapeo` | two careful programs map a file of 3 bytes in pages of 2, and read, copy, sync, unmap and close, also the same file twice; fair; 159,909 states | the count of each entry is that of its users, MUSE implements `ArchivosMapeados`, every request is answered |
| `muse_candados` | the same with programs that are not careful; fair; stops at the finding | the finding of 5.4 |

With two frames the clock has a choice, and a page just brought or just made can be the next
victim.  With one slot a page comes back only into
the frame of the page that takes its slot, and the room fills exactly.  What fails when the
first allocation is larger than the frames, or an extension is of `Marcos` + 2 pages or more, is out of
the instance and told in section 5.4.  In `muse_heap` a page holds a block of 3 with its metadata and
those after it, a block of 11 takes two pages, and both cross borders at every offset as blocks are
given back and taken; four pages are one less than what both programs can ask for at once.  In `muse_mapeo` the file ends in the
middle of its second page; the pieces are all of it, its end across the border, and a cell of
the first page; there is room for three mappings, so that close and map alternate until the room that nobody
gives back runs out.  Two programs are enough for the mutexes, of which there are two.
`CHECK_DEADLOCK FALSE`: the programs end, and the room that close and
unmap do not give back runs out.

**Fairness.**  `ProgramasJusta`: each handler's thread runs (weak fairness of `Atender(p)`).  Programs may ask for nothing and
may die.  Weak fairness is enough for the mutexes: room is not given back, so that a program
maps a bounded number of times, and others take a mutex for ever only if they make
requests for ever.  No fairness is assumed in the other runs and no liveness stated.

### 5.3 Properties

*Pages.*  `UnDueno`: no two pages share a frame or a slot, also while a page is on the move.
`SinPerdidas`: between requests the occupied bits are those of the pages.  `SinNulos`: the
clock always finds a frame and the victim a slot, which is what `lugar_disponible` is for.
`ImplementaPaginas`: through evictions and returns, a get answers what was last copied.

*Heaps.*  `LugarCierto`: what is left and what the programs have fits in memory and swap.
`SegmentosDisjuntos`: the segments of a program do not overlap, though they shrink and grow.
`ImplementaAsignador`: a block that is given is apart from those the program has; it keeps what is copied to it until
it is given back; and no metadata is ever written over it.

*Mappings.*  `CuentaExacta`: the count of an entry is the number of segments with its pages, less those of the
handlers that have discounted theirs and not dropped it yet, and no segment has pages of an entry
that is gone.  `ImplementaMapeos`: who maps a file sees what the others that have it mapped see; a copy is
seen by all; the file changes only by a sync, and only to what was seen.
`PedidoRespondido`: no handler waits for ever.

### 5.4 Findings

1. `muse_candados`: the unmap of one program holds `mutex_tabla_de_mapeo` and waits for
   `mutex_tabla_de_programas` (`muse.c:1591,1596`); the close of another, the other way round
   (`muse.c:1631,2587`).  Both stop, and after them every request of every program.

Met of the pages and not stated as runs: with two programs the clock takes a frame of a page that is not in the table
yet, or that another handler has not stored, and hands it over as it is (`muse.c:871`;
`UnDueno` and `SinNulos` are false of two programs, also because `asignar_marco_nuevo` is
not under a mutex); one program alone loses a page the same
way when its first segment is larger than the frames, since the segment is listed after its
pages are made (`muse.c:331`; with `Altas` of a segment of `Marcos` + 1 pages `UnDueno` fails); the slots
given to the pages past `Marcos` + 1 are not marked and are given again (`muse.c:300`; with extensions of
`Marcos` + 2 pages `UnDueno` fails); `muse_close` and `muse_unmap` do not give back `lugar_disponible`; the
answer of `muse_cpy` is an uninitialised variable (`muse.c:1812`).

Two things of the pages are left out because one program with those `Altas` cannot meet them.  A page that is neither in a frame nor
in a slot, nor of a mapping, has no step in `ObtenerPunter`: the code logs it and dereferences NULL (`muse.c:822-828`).  And
`Leer` reads the frame that the handler was given, where the code takes it again from the page
(`muse.c:1160`), which another handler's clock could have emptied.

### 5.5 What careful programs avoid

Each rule was dropped and the runs then fail as told.

*Allocations* (`AllocServido`, `FreeServido`).

* The hole found must have room for the block and for the metadata after it; another segment's hole may be what
  passed the test.  Otherwise the hole left has a negative size, huge as a `uint32_t`, and the next block
  overlaps one in use.
* The index kept in the metadata of the hole must be right.  A split in the middle of a segment does not
  renumber those after it (`muse.c:422`), and the next insertion or removal by index is in the
  wrong place: blocks overlap, or free takes out the metadata of a block in use.
* The metadata after the block, when they do not cross pages, are written at the offset of
  the first in their page (`muse.c:408`): over what a program copied, or past the end of the frame.
* A segment emptied by free gets a page again without counting it out of `paginas_liberadas`
  (`muse.c:733`).  Then the segment may grow over the one behind, a block may end past the size of the segment, or
  the segment is left with pages and no size when there is room for the first page only.  `paginas_liberadas` grows
  without bound.  When another program takes the room in between, the rearmed segment is found by neither test.
* Pages taken back that leave no room for the last metadata: a page of free cells is counted where there are none.
* An extension must need at least a cell more than the hole at the end: alloc, free and alloc of
  a small block asks for -1 bytes, 2^32 / page size pages, whose bytes are 0 modulo 2^32, and there is room for
  them.  An extension refused for lack of room leaves the last metadata marked as used
  (`muse.c:508`), and the next smaller request does the same.

The metadata before an extension are written a page after where they are; that alone does no harm.

No program of the model, careful or not, frees what is not a block it was given.  A second free of a block that is
a hole in the list is accepted and marks it free again (`muse.c:1016-1024`), while one of a hole
that was joined to the one before is refused, for its address is of no metadata.

*Mappings* (`AccesoServido`, `Choca`).

* The programs in `Repiten` may map a file again before they unmap it, and unmap it as many times (`muse.c:1556`): `muse_mapeo` has both of its
  programs there.  The `muse_unmap` of one of the two segments takes out the first with that path
  (`muse.c:1599`), which may be the other; a program of the model goes on with the one that is left.  A file has one
  length in the model; maps of a path with different lengths have an entry each (`muse.c:1479`) and are left out.
* Two first maps of a file at once publish two entries (`muse.c:1424`), and the programs do not share it.
* A get, a cpy or a sync of a page that another handler is loading takes what the frame had before
  (`muse.c:1223`), and sync writes it to the file.
* The first access must be to the whole file.  Otherwise the load reads past the end of its buffer, or from the start of
  the file what is at its end, and fills with zeros; a sync writes that.
* A cpy up to the end of a mapping of whole pages looks at the page after the last (`muse.c`, `final` of the
  cpy), which is NULL.
* A sync of one while another copies writes part of the copy (`muse.c:1533`).
* A map while another closes its last mapping: `destroy_mapeo` discounts outside of the mutex.
* A private mapping is counted and joined by a shared one of the same file (`muse.c:1575`); programs map a file one way.

*Mutexes* (`SeTraban`): the finding above.

### 5.6 Proofs

For every value of the constants, under the `ASSUME` of `MuseMarcos` for those of pages, of `MuseSegmentos` or
none for the others:

* `UnDuenoConUno` (`MuseMarcosProofs`): `UnSoloPrograma /\ AltasCortas => (MuseSpec => []UnDueno)`.  With one
  program, for any frames, slots and pages, no frame or slot is of two pages, whatever the clock evicts
  and whatever the program allocates, frees, maps, reads and closes.  The two hypotheses are those of
  section 5.4: with a second program, with a new segment of several pages when the frames left are not enough for all of them, or
  with an extension of `Marcos` + 2 pages, it is false.  `UnDueno` is not inductive: it says nothing of the frame the handler has
  taken and not yet given to a page.  `MarcosInv` adds that
    - each page is in an occupied frame or in a marked slot of its own, also pages nobody uses any more (`EnSuLugar`);
    - every page in a frame is in the tables, in the list of pages being made or the one the handler is at, so that the
      clock finds whom to evict (`Anotadas`);
    - at each point of the handler, what it holds: the frame it was given is occupied and of no page,
      the slot it found is of no page and not marked until the copy, the page it makes has neither (`Manejador`).

  One lemma per action, and one each for the changes they share: of a page, of the marks of the
  clock, of the local variables, of the tables.
* `SinNulosConUno`, `SinPerdidasConUno`, `TiposConUno` (`MuseReservaProofs`): `[]SinNulos`, `[]SinPerdidas` and
  `[]MuseTypeOK`, under the same two hypotheses.  What is inductive is `ReservaInv`, which adds to `MarcosInv`
    - `BitsJustos`: every bit marked has its page, or the handler that has just marked it or is to give it to one; and
      a page in the swap is one the program has, so that a slot is never left behind by a page that is gone;
    - `Cuenta`: the pages that the program has and those it has paid for and not made yet, or is to give back,
      fit in what is taken of `lugar_disponible`, which is between zero and `Marcos + Ranuras`.  It needs that no page is
      in two segments nor twice in one (`SinRepetidas`);
    - `Reloj`: what each of the four searches of the clock leaves for the next.  After the second no frame is in use, and
      if the third fails all are modified, so that the fourth cannot fail;
    - `Traen`: what the handler carries at each point is what the page held.

  That the clock finds a frame is `Reloj`.  That the victim finds a slot is a count (`HayRanura`): were all slots
  marked, the frames all occupied and a page more to place, the program would have more pages
  than `Cuenta` allows.  `Cuenta` is an inequality, for close and unmap do not give back the room: that
  loses room, never a page.
* `ImplementaPaginasConUno` (`MuseReservaProofs`): `MuseSpec => ImplementaPaginas`, under the same hypotheses.  The mapping is
  `Contenido`: a page holds what its frame does, or its slot, or its file, or what the handler carries.  The proof is
  by cases of `MuseNext`: the steps of the clock, the swap and the metadata are stutters (`BusquedaNoSeVe`,
  `TraerNoSeVe`, `QuietasNoSeVen`, `AjenaNoSeVe`), since a copy to the swap and back moves what
  was there; the beginning of a request, the listing of pages, map, get, cpy, free, unmap and close are the actions of
  `MemoriaDePaginas` (`ListarEsCrear`, `EscribirEsEscribir`, ...).

* `CandadosSiempreDeSuDueno` (`MuseProgramasProofs`): `ProgramasSpec => []CandadosDeSuDueno`.  A handler has a mutex
  exactly while it is at a point of the section that takes it, careful or not: no path of the nine requests leaves a mutex behind or gives back
  another's.  So only `bajar_mapeo` and `muse_close` can make another wait with a mutex taken.  One lemma per family of actions; each says
  which points it goes between and what it does to the mutexes.
* `CuentaExactaConCuidado` (`MuseProgramasProofs`): `TodosCuidadosos /\ UnModo /\ SinRepetir => (ProgramasSpec => []CuentaExacta)`, for any number of
  programs, files, lengths, sizes and lists.  `TodosCuidadosos`: all the programs are careful (5.5 tells what fails
  otherwise).  `UnModo`: two programs that use one file both map it shared, for a private mapping has an entry of its own under the
  same path, and `bajar_mapeo` and `destroy_mapeo` find the first (5.5).  `CuentaExacta` looks at one moment; it lasts because of
  what every handler keeps from one section to the next, which `CuentaInv` says:
    - `UnaEntrada`, `ConEntrada`: a file has one entry, an entry one list, and who maps a file has both.  So the search by path
      of one function and the search by list of another find the same entry (`SeEncuentra`).
    - `Cuentan`: the count is that of the *programs* with the list (`Quienes`), less those between counting themselves out and
      dropping the segment (`YaDescontados`).  No program has a file twice (`SinDobles`, from the hypothesis `SinRepetir`; with programs that do,
      `CuentaExacta` is model-checked), so programs are as many as segments (`UnaReferencia`, by a bijection).
    - `AlMapear`: while a program is between asking for a file and its mapping, it does not have it, no other asks for it and
      none that has it closes; and when it is about to publish, the file has no entry.  `AlDesmapear`: while one unmaps,
      nobody that maps something closes.  `AlCerrar`: who is to drop an entry finds it at zero.
    - `AlAsignar`: the segment that an alloc or a free goes on with is of heap, so that no step of
      `MuseHeap` touches a mapping (`DeUnHeap`, `HeapNoMapea`).

  `SinMolestar` is what a step must not take from the others and `Otros` that they keep it; `UnaCuenta` is the step that counts one
  in or out, `QuitaEntrada` the one that drops an entry, `SeVa` both ways to leave.  There is one lemma per action of
  the programs.  TLC checked `CuentaInv` on the instance of `muse_mapeo` and on one with two files and blocks (7,753,566 states).
* `SegmentosApartadosSiempre` (`MuseProgramasProofs`): `ProgramasSpec => [](\A p \in Cuidadosos : SegmentosApartados(p))`, without any
  hypothesis: the segments of a careful program are in order and none reaches the next, whatever the programs
  that are not careful ask for at the same time.  `SegmentosDisjuntosConCuidado` is the same for all programs when all are careful:
  `TodosCuidadosos => (ProgramasSpec => []SegmentosDisjuntos)`.  That each segment ends before the next begins is not inductive, for a
  segment grows again over the pages it gave back.  `SegInv` says of each careful program that
    - `Ordenada`: each segment ends before the next one's base *counting the pages it may take back* (`Hasta`).
      What `muse_free` moves from `paginas` to `paginas_liberadas` moves no end, and only the last segment ever gets a later one;
    - `VaciosAlFinal`, in `AlPedir` and `AlRevisar`: a segment with no metadata left is the last, so that the one the extension takes is
      the one after which nothing is.  `UltimoAlDia`: the index of its last metadata is right, or the extension
      would change another hole;
    - `Momento`: what each handler relies on from one section to the next.  When `muse_alloc` decides to take pages back (`AlReservar`)
      there are as many given back; when it decides to extend (`AlAmpliar`), the last has metadata to grow; while `muse_free` joins holes
      (`AlJuntar`), the index of each that it still has to join is its place in the list; a map about to
      publish (`AlPublicar`) has computed a base after all the others, and nothing of its program has grown since.

  What the programs share are the lists of pages of a mapping, and those of a mapping that is published never grow (`NoCrece`), so a step of one
  program moves no end of another's.  Most of the proof is what each change that `MuseHeap` makes to a segment
  do to its pages, its pages given back and its metadata.  TLC checked `SegInv` on the instances of `muse_heap` and `muse_mapeo` and on
  a larger one of each (7.7 million states each).
* `LugarCiertoConCuidado` (`MuseLugarProofs`): `TodosCuidadosos => (ProgramasSpec => []LugarCierto)`, for any number of programs,
  files, lists, sizes and pages.  What is left, the pages of the heaps and the pages of the mapped lists fit in what there
  is.  It is an inequality because `muse_unmap` and `muse_close` drop pages without giving back their room.  It is not inductive: `muse_map` takes
  the room in one section and publishes its pages in a later one.  `LugarInv` adds the pages that each handler between
  the two has set apart (`Apartadas`, at the points `Mapeando`), and rests on `SegInv`, without which a segment
  might take pages back that it never gave.  The sums are cardinalities of sets of pages
  (`Tiras`: of each thing, so many), so that a step which changes one segment or one list changes one
  strip.  `PasoLugar` is what a handler does to them, so many pages for heaps and so many for lists, and
  each action says how many: for `muse_alloc` that it takes as much room as it adds pages, and for `muse_free` that the pages it gives
  back leave the segment.  TLC checked `LugarInv` on the instances of `muse_heap` and `muse_mapeo`.
* `TiposConCuidado` (`MuseLugarProofs`): `TodosCuidadosos /\ UnModo /\ SinRepetir => (ProgramasSpec => []SegmentosTypeOK)`.  The sizes, pages and
  directions that the code subtracts from never go below zero: those of segments by `SegInv`, the room by `LugarInv`, and
  the count of a mapping by `CuentaInv`, for the programs that `bajar_mapeo` has counted out still have the segment
  (`CuentaNatural`).

The refinements `ImplementaAsignador` and `ImplementaMapeos` are model-checked:
the promises kept by `Asignador` are of blocks found by searches over the lists of metadata, and those of
`ArchivosMapeados` are of bytes in the pages of each list.  Liveness is out of the prover's reach.

### 5.7 Not modelled

The metrics and the log; the copy of more than one value at a time; get of a heap, which changes
only where its pages are (`MuseMarcos`) and answers what cpy left; the packing of messages by libmuse, which makes one call
at a time.
