# Verification of the Trabajo Práctico de Sistemas Operativos

The program (`tp-2025-2c-main/`) is a distributed query engine in C: a **Master** plans
queries, **Workers** execute them, a **Storage** keeps versioned files in blocks, and each
**Query Control** submits one query and prints its results. This directory models it in TLA+,
model-checks it with TLC on small instances and proves with TLAPS, for every value of the
constants, what matters most of the Master's queues, of its dialogue with the Workers, of the Storage and of a Worker's memory.

Contents: [1 Inventory](#1-inventory) · [2 Modules and the code](#2-modules-and-the-code) ·
[3 Runs](#3-runs) · [4 Disagreements found](#4-disagreements-found) · [5 Proofs](#5-proofs) ·
[6 Abstractions and limits](#6-abstractions-and-limits) · [7 Plan](#7-plan)

## 1 Inventory

| Component (source) | State | Operations | Talks to |
|---|---|---|---|
| Master, planner (`master/src/planificacion.c`, `master.c`, `main.c`) | queues `colaNew`, `colaDesalojo`, `colaExit`, lists `listaReady`, `listaExecute`, `listaWorker`, three semaphores, a mutex for each queue | threads `ready` and `exitStatus`, `atenderQuery` per Query Control, `atenderWorker` per Worker, an aging thread per query; eviction, exit, both disconnections | Workers and Query Controls by packets; its threads by queues, semaphores and unprotected fields of shared objects |
| Objects (`utils/src/utils/estructuras.c`) | `t_query`, `t_query_master`, `t_worker` | create, free, join the aging thread | used by all the threads of the Master |
| Sockets and packets (`paquetes.c`, `servidor.c`, `cliente.c`, `serializacion.c`) | one stream per connection | send (its result is ignored), receive (NULL when the peer left), close | all processes |
| Worker, listener and interpreter (`worker/src/ejecucion.c`, `worker.c`, `main.c`) | `queryActual`, `sem_query`, the eviction flag, program counter | take a packet; execute a line; answer, report an error, confirm an eviction | Master; its own memory |
| Worker, memory (`worker/src/memoria.c`) | page tables, frames, bitmap, replacement list, clock pointer | READ, WRITE, FLUSH, eviction of a page by LRU or CLOCK-M, flush of everything when the query is evicted | Storage, block by block; through it, the memory of the Worker that goes on with the query |
| Storage (`storage/src/*.c`) | directories, `metadata.config`, hard links, bitmap, physical blocks, hash index, a mutex for each file:tag | CREATE, TRUNCATE, TAG, COMMIT, WRITE, READ, DELETE; start on a new disk or on an existing one | one thread per Worker; the disk is shared and outlives the process |
| Query Control (`query_control/src/`) | its socket | submit, print, stop on FIN_QUERY | Master |
| Configuration, logs, command lines | values read once | – | not modelled: the values that matter are CONSTANTS |

`worker/memoria.c`, outside `worker/src/`, is an earlier copy of the memory that the Makefile does not
build; it is not modelled.

What is hard in it, and what makes each part correct:

* **Master.** Five kinds of threads work on the same objects under many small mutexes. A query
  moves between queues in two sections, a priority or `codAccion` is written without the mutex
  of the list that holds it, a Worker found in one section is used in another, and a query is
  freed by a thread of its own. Correct means: each accepted query is in exactly one place, no
  queue is popped empty, no freed query is used, at most one Worker runs a query, an evicted
  query resumes where it stopped, and each query is finished once and eventually.
* **Packets.** A reply does not name its query. A dead peer shows only as a failed receive, or
  as a SIGPIPE that nobody handles. Correct means that each reply is applied to the query it is
  about and that no thread waits for a reply nobody will send.
* **Worker.** The eviction flag is set by one thread and taken by another between two lines.
* **Memory.** Two replacement algorithms share pages, tables, a bitmap and a list. Correct
  means that these agree when a load or an eviction ends, that a READ answers what the Storage
  holds, that what is flushed, or written before the query leaves for another Worker, gets to
  the Storage, and that the search of a victim ends.
* **Storage.** File:tags share physical blocks by hard links, a WRITE copies a shared block, a
  COMMIT deduplicates by hash; only the file:tag of the request is locked. Correct means that
  bitmap, links, metadata and index agree, and that sharing shows in no contents. The process
  can be started again on the disk it left (FRESH_START=FALSE) and repairs nothing: what an
  interrupted operation left halfway must not spread to the other file:tags.

`PROJECT.json` lists each of these hazards at its line with the properties aimed at it.

## 2 Modules and the code

```
Canales ── Master ──┐
   └─ Interprete ───┴── Sistema ── MCSistema          Sistema implements CicloDeVida
                           └─ Sistema_proofs ── Lugares_proofs ── Dialogo_proofs
                              (with Listas_proofs)
Storage ── MCStorage        Storage implements ArbolDeArchivos
   └─ Storage_proofs ── Enlaces_proofs ── Arbol_proofs
Memoria ── Desalojo ── MCMemoria    Memoria uses ArbolDeArchivos as its Storage
              └─ Memoria_proofs (with Listas_proofs)
```

**`Canales`** – the connections. `aWorker` and `aMaster` are the bytes on their way as a
sequence of packets; `socketWorker` and `socketQC` are what `send` and `recv` can notice: open,
closed, or reset after a packet reached a closed end. `avisos` counts the FIN_QUERY packets of
each Query Control. The program counter and the code of a packet are kept; the id of the query
in a reply is kept only for the properties, and no action of the Master reads it.

**`Master`** – `colas` and `sem` are the five queues and three semaphores; `qm` holds the
fields of each `t_query_master` and of its `t_query`, with `liberada` for what was freed;
`listaWorker` and `idQuery` are the `t_worker` objects; `hilo` holds a label and the locals of
every thread. There is one action for each mutex section or unprotected access, named after
what the code does there: `ReadyEspera`, `ReadySaca`, `ReadyPublica` (`ready`), `TomaReady` to
`PoneFin` (`atenderWorker`, `enviarExit`, `manejarDesconexionWorker`), `Verifica…` and
`Desalojo…` (`verificarDesalojo`, `enviarDesalojo`), `Aging…` (`aging`), `ExitLibera`
and `ExitCierra` (`exitStatus`), `ConectaQuery` to `ExitDeReady` (`atenderQuery`,
`manejarDesconexionQueryControl`). The `Falla…` actions end the process where it would use
NULL, use or free freed memory, or get SIGPIPE.

**`Interprete`** – both threads of every Worker: `Escucha` is one turn of `escucharMaster`;
`Toma`, `Ejecuta`, `EjecutaRead`, `EjecutaEnd`, `ProcesaError`, `Verifica` and
`ConfirmaDesalojo` are `queryInterpreter`; `Cae` is the end of the process, by SIGINT or by a
NULL `queryActual`.

**`Sistema`** – composes the three, adds the Query Controls (`QCTermina`, `QCAbandona`), the
fairness and the properties. **`CicloDeVida`** is what the Master promises of queries without
queues, threads or packets: a query waits, runs on one Worker at a time, may go back to
waiting, and is finished once. `Sistema` implements it with `enEspera` mapped to the waiting
queues, `asignada` to the query each Worker thread has, `finalizadas` to the queries told FIN.

**`Storage`** – `archivos`, `dirs`, `meta`, `enlaces`, `ocupado`, `contenido`, `indice` are the
directories, the metadata files, the hard links, the bitmap, the blocks and
`blocks_hash_index`; `mutex` and `hebra` the mutexes and threads. Each call on shared state is an
action (`BuscaLibre` and `MarcaOcupado` are two, as in the code; `Desenlaza` and `Stat` too). So it
is with `metadata.config`: `crear_meta` opens it, which leaves it empty, and then saves its keys
(`CrearMeta`, `GuardaMeta`); `modificar_bloques_meta` reads all of it and writes all of it back
(`CopiaMeta`, `GuardaBloques`); a COMMIT reads it with its request (`Acepta`), writes it with the new
ESTADO (`Commitea`) and reads its list again (`Relee`). `Vacio` is a file without keys: who needs one
of them aborts the process (`Legible`, `AbortaAlLeer`).
`Reinicia` ends the process at any step, an `abort()` included, and runs `main` again with
FRESH_START=FALSE: the disk stays as it was (`DiscoAlReiniciar`), threads and mutexes start
over. `aMedias` is a history variable: the file:tags that the operations cut short were building.
**`ArbolDeArchivos`** is what it promises: each file:tag is a sequence of contents of its own.
The mapping (`Vista`) reads the contents through the list of blocks of the metadata, and sees
nothing in a metadata without ESTADO; a
TRUNCATE counts block by block, a DELETE when it begins, a TAG when it ends.

**`Memoria`** – `tablas`, `global`, `bitmap`, `marcos`, `puntero` are the page tables,
`tablaPagGlobal`, the bitmap, `memoriaInterna` and `puntero_clock`; `guion` is the set of
instructions the query draws from; `instr` is the instruction at hand with the locals of its
functions, among them `lectura`, the text a READ answers. `ComienzaAcceso`, `AccedePresente`,
`LeeBloque`, `AsignaLibre` are `escribirMemoria` and `leerMemoria`; `EligeLRU`, `EligeClockM`,
`RelojMira`, `LiberaYCarga` the replacement; `PersistePagina`, `TerminaTabla`,
`TerminaPersistir`, `EnviaCommit`, `Interrumpe`, `ConfirmaDesalojo` the flushes. A table destroyed by the eviction its own growth asked
for is used after the free (`FallaTablaLiberada`); a READ or WRITE of no bytes reads a pointer
that has no value (`PaginaInicialSinValor`), so it faults or does nothing.

**`Desalojo`** – several Workers over one Storage. One has the query (`actual`) and works as
`Memoria` says; the memories of the others (`otras`) wait as they were left. When an evicted
query was flushed and confirmed, the Master gives it to the same Worker (`Queda`) or to another
(`Pasa`), which finds the pages it kept from earlier runs: the code throws none away. That one
Worker at a time runs a query is `UnSoloEjecutor` of `Sistema`. `escrito` is a history variable:
the last whole page a WRITE put in each file:tag.

**`MCSistema`, `MCStorage`, `MCMemoria`** – model values, requests and symmetries for TLC.

Some definitions are marked *Slip*: a mistake the code does not make, with the shape of the
definition it would replace. Each property of a passing run fails when one of them (listed in
`PROJECT.json`) takes that place, so no property holds by the shape of the model alone.

## 3 Runs

All are safe to run with `tlc -workers 2 -config X.cfg M`; the longest takes about three
minutes. Symmetry is used only where no liveness is checked and no constant tells the
permuted values apart.

| Run | Instance | What it checks |
|---|---|---|
| `fifo` | FIFO, 3 queries, 2 Workers, scripts of 2 lines | `UnSoloLugar` (each query in one queue or hand), `ReadyYExitEncuentran` and `WorkersEncuentran` (no empty pop), `SeEnviaEjecucion`, `RespuestaDeLaSuya`, `NadieEsperaEnVano`, `UsoTrasLiberarSoloEnExit` (the only use after free is in `enviarExit`), `CumpleElCiclo` |
| `fifo_un_worker` | FIFO, 3 queries, 1 Worker, fairness | `NadaFalla` (nothing faults), `TodasTerminan` |
| `caidas` | FIFO, 2 queries, 2 Workers, one may die, instructions may be refused, fairness | `RespuestaDeLaSuya`, `CumpleElCiclo`, `NingunaSeOlvida` |
| `prioridades` | PRIORIDADES, 2 queries, 2 Workers, priorities 0 and 1 | `UnSoloLugar`, `WorkersEncuentran`, `ReadyOrdenada`, `UnSoloEjecutor`, `CumpleElCiclo`, `NuncaRetrocede` |
| `aging` | the same with aging, 2 queries, 1 Worker | `UnSoloLugar`, `ReadyOrdenada`, `CumpleElCiclo`, `NuncaRetrocede` |
| `query_control_abandona` | FIFO, 2 queries, 2 Workers, one Query Control may leave | `TypeOK`, `ReadyYExitEncuentran`, `UnSoloEjecutor` |
| `storage_secuencial` | 1 Worker, 3 blocks, `initial_file:BASE` and 3 tags; the process may end at any step and start again once | `TypeOK`, `BitmapExacto`, `EnlacesDeLaMeta`, `SoloAbortaLoAMedias` (an `abort()` is over a file:tag a crash left halfway) |
| `storage_un_escritor` | 2 Workers, 4 blocks, base and 2 tags | `IndiceVeraz`, `ImplementaElArbol` |
| `memoria` | LRU and CLOCK-M, 2 frames, blocks of 2 bytes, 3 file:tags, 2 Workers, fairness | `TypeOK`, `MarcosCoherentes`, `TablaGlobalExacta`, `AjenasFieles`, `LecturaFiel` (a READ answers what the Storage holds), `EscritoPersiste` (what was written before an eviction is in the Storage), `FlushPersiste`, `TodaInstruccionTermina` |
| `consulta_worker` | PRIORIDADES, 2 queries, 2 Workers | finds `ConsultaDaQuienEjecuta` violated |
| `estabilidad` | aging, 2 queries, 1 Worker, fairness | finds `NingunaSeOlvida` violated |
| `indice_rancio` | 1 Worker, the order of `queryEjemplo.txt` | finds `CommiteadoIntacto` violated |

**Bounds, and why they are enough.**

* *Queries and Workers.* A race of the planner is between the threads of two queries (evicting
  and evicted, leaving and dispatched) or of two Workers (both taking, one crashing while the
  other takes). A third query makes a queue hold one while two run; what three do to each other
  with evictions is in section 6. `Largo` is the number of
  lines of a script, the last one END: with 2 an eviction can fall before, between and after the
  lines; with 1 only END remains, which is where the flag is taken too late.
* *Priorities.* 0 and 1 give a higher, a lower and a tie, and one step of aging. The run `aging`
  asks for priority 1 only, so that both queries age, and stops at the first Query Control that
  ends (`QCAbiertos`, a CONSTRAINT): past it the freed query and its aging thread meet, a fault
  that `FallaUsoTrasLiberar` models and the code does have.
* *Blocks.* Three or four blocks fill up within a few requests, so the error for a full disk
  and the reuse of a freed block occur. A content is `cero` (what a formatted block holds), `x`
  or `y`: equal, different, and equal to the empty block; `storage_secuencial`, about which
  block is whose, needs only the first two.
* *Restarts* (`Reinicios`). One, at any step of any operation: a second crash only adds another
  file:tag left halfway. The other two runs of `Storage` are about contents and have none.
* *Frames.* Two frames under three file:tags of up to two pages make every load past the
  second an eviction: of its own table, of another one, clean or dirty. One file:tag is only
  written and flushed, one only read, one is created, written, committed, deleted and tagged
  over, while its pages stay in memory (script `CadaUno`). The script `Viajera` writes whole
  pages of one file:tag, reads another, and may change Worker after any instruction as often as
  it likes: two Workers suffice for one to come back to pages it left.

**Fairness.** `FairSpec` of `Sistema` is weak fairness of each thread of the Master, each
Worker process and the end of a Query Control that got FIN_QUERY: the operating system
schedules every thread that can run, and a mutex or semaphore is waited for at a label of its
own, so no strong fairness is needed. No fairness makes a Worker die, a Query Control leave or
a fault happen. `FairDesalojo` is weak fairness of the interpreter once it has an instruction,
with the answer of the Storage and, after an eviction, the dispatch by the Master; nobody is
obliged to give it another instruction. `NingunaSeOlvida` is promised only while the Master runs
(`vivo`).

**Deadlock.** The passing runs say `CHECK_DEADLOCK FALSE`: the scripts of a run are finite, so
the Master ends up waiting for clients; the Storage stops at an `abort()` once its restarts are
used and the Worker at a fault. `NadieEsperaEnVano`, `TodasTerminan`, `NingunaSeOlvida`,
`TodaInstruccionTermina` and `SoloAbortaLoAMedias` say instead that nobody waits for what never
comes, and when a process may stop.

## 4 Disagreements found

1. **`consulta_worker`** – `obtenerWorkerEjecutandoQuery` (`planificacion.c:337`, "Obtiene que
   worker esta ejecutando la query…") may return a Worker that gave the query back: line 185
   queues it again and only line 186 clears `worker->idQuery`. Meanwhile another Worker takes it.
2. **`estabilidad`** – with aging a query can hang for good. Between marking `EJECUCION_QUERY`
   (167) and serialising the packet (169) the eviction mark of an aging thread lands: the Worker
   receives two evictions and never the query. `estabilidadGeneral.sh:11` waits for all of them.
3. **`indice_rancio`** – a committed file:tag can change. A block with one link is rewritten in
   place (`operaciones.c:163`) while the hash index keeps its old content; a later COMMIT of
   that content shares the block. The Storage means to forbid writes to what is committed
   (`operaciones.c:389`).

## 5 Proofs

Assumptions: `CanalesAssumption` (finite, disjoint sets of queries and Workers, a NULL outside
them, `Largo` positive), `MasterAssumption`, `InterpreteAssumption` and `SistemaAssumption`
(the ranges of the other constants). They put no bound on the number of queries, Workers,
lines or priorities, and choose neither the algorithm nor aging nor who may crash or leave.

* **`TypeCorrect`** (`Sistema_proofs`): `Spec => []TypeOK`. `TypeOK` alone is not inductive: a
  thread at a label that uses a query must have one. `Tipos` adds what each label tells of
  the locals of its thread (`HiloBien`) and of an interpreter (`InterpreteOK`). There is one
  lemma per group of actions (`ReadyTipos`, `WorkerTipos`…) and one per shape of step
  (`PonCampoTipos`, `PonColaTipos`, `AnotaTipos`); `Listas_proofs` has what insertion, removal,
  sorting and `Tail` do to the type, the elements, the order and the repetitions of a sequence.
* **`ColasNuncaVacias`** (`Sistema_proofs`): `Spec => []ReadyYExitEncuentran`: whatever is
  evicted, crashes or leaves, `ready` and `exitStatus` pop no empty queue. The property is about
  one moment of one thread and says nothing of the other threads; the invariant behind it,
  `Conteo`, counts: the length of `colaNew` plus that of `colaDesalojo` is the value of
  `semQueryEsperandoReady` plus the threads between a push and its post or between the wait and
  its pop, and likewise for `colaExit`. `Elegida` keeps the queue `ready` chose non-empty, since
  nobody else pops. The lemmas `Entra`, `Sale` and `Queda` say how a step of one thread changes
  the size of a set of threads given by their labels.
* **`UnSoloLugarSiempre`, `WorkersEncuentranSiempre`** (`Lugares_proofs`), for any number of
  queries and Workers, either algorithm, aging, evictions and crashes of Workers. A place is a
  queue or the hands of a Worker thread that has taken a query out of a list and not put it in
  the next one yet (`Lugares`, `Contenido`). The invariant `Ubicadas` adds to `Tipos` that a
  query accepted and not freed is in one place, the others in none (`UnLugar`); that the query
  of a Worker thread past the dispatch is in `listaExecute`, and no other thread has it
  (`Ejecutores`), or a Worker that goes down could put another's query in the exit queue; that
  FIN_QUERY is sent after the last packet and before the exit queue, so that no thread still
  works on a query whose Query Control left (`Avisos`); which labels a thread can be at
  (`Papeles`); and that the posts of `semQueryReady` are the queries of `listaReady`
  (`Fichas`). An action that moves no query is one use of `Neutro`; one that does is one of
  `Muda` (what leaves a place and enters another keeps `UnLugar`) and of a `Traslado…` lemma for
  each other part. `UnSoloLugar`, which counts positions, is derived at the end
  (`UbicadasCuenta`). Hypothesis `QCEstables`, that no Query Control leaves before its query ends,
  and the code needs it: line 77 of `planificacion.c` takes the query out of `listaReady` and
  leaves the post, so that a Worker thread then takes from an empty list (the run
  `query_control_abandona`).
* **`CumpleElCicloSiempre`** (`Lugares_proofs`), under the same hypothesis: the Master implements
  `CicloDeVida`. `ConectaQuery` is `Llega`, `TomaReady` is `Despacha`, `DesalojaReencola` is
  `Devuelve` and `AvisaFin` is `Finaliza`; every other step must leave the three sets of the
  abstraction as they were, for which `Ubicadas` is used: a query that goes from
  `colaDesalojo` to `listaReady` was in the first and in no other.
* **`ReadyOrdenadaSiempre`** (`Lugares_proofs`): under PRIORIDADES `listaReady` is sorted unless
  an aging thread is between lowering a priority and sorting, whoever leaves or crashes. Its
  invariant `EnOrden` has two more parts: no list and no Worker thread knows a query whose
  priority is still to be set (`SoloConectadas`), or `conectarQuery` would change the order of
  a list from outside; and an aging thread that runs holds `agingIniciado` (`ConMarca`), or
  `ready` could start the thread again while it has to sort, and the list would stay as it is.
  The hypothesis is the algorithm alone.
* **`SeEnviaEjecucionSiempre`, `RespuestaDeLaSuyaSiempre`, `NadieEsperaEnVanoSiempre`,
  `UnSoloEjecutorSiempre`, `UsoTrasLiberarSoloEnExitSiempre`** (`Dialogo_proofs`), for any number of
  queries, Workers and crashes. Packets name no query, a query is freed by a thread of its own and
  its mark `codAccion` is written without a lock, so each of these depends on what all the threads
  are doing. Hypotheses: `Fifo`, since the evictions of PRIORIDADES send a Worker a
  second order while the first is answered (section 4, 2 shows what follows), and
  `QCEstables` as above. The invariant `Dialogo` adds to `Ubicadas`: the labels nobody reaches
  without evictions (`EnFifo`), so that a Worker has one order at most; that `idQuery` and
  `listaWorker` agree with where each Worker's thread is (`Conectados`); what `codAccion` and the
  packet hold between the dispatch and the send (`Marcas`); that the query `ready` still has to
  mark ESPERA is in `listaReady`, which nobody can take before the post (`Recien`); and, for each Worker,
  which of the two streams, the flag, the semaphore and the interpreter hold the order
  (`Platica`: nothing at all while the thread is not waiting, exactly one order or the answers to
  it while it waits, the end as the last of them). A step of one Worker leaves the dialogues
  of the others alone (`Callado`), which most of the lemmas rest on. `UnSoloEjecutor` then follows
  from `UnLugar`: what a Worker holds, its thread holds.
* **`NadaFallaSiempre`** (`Dialogo_proofs`): nothing faults, with two hypotheses more, one Worker
  (`UnWorker`) and no crash of it (`WorkersEstables`). Both are needed: `enviarExit` pushes its
  query before it marks it FIN, so that the post of another Worker lets `exitStatus` free it in
  between, and an order sent to a dead Worker ends in SIGPIPE. `Sano` adds that the Worker lives
  (`Vivos`), that at that label the query is the last of `colaExit` (`UltimaExit`), and `Conteo`,
  by which the posts are fewer than the queries and the last one is not popped.

**The Storage.** `StorageAssumption` gives the constants their types (each Worker sends requests
of some set, the disk has at least one block) and says that `SinMeta`, the absence of a
metadata, is neither a metadata nor a view of one. It bounds neither Workers, file:tags, blocks,
contents nor restarts. The three modules build on each other:

* **`TypeCorrect`, `UnoPorFileTag`** (`Storage_proofs`). `Tipos` adds to `TypeOK` that a thread in
  an operation has a request of its own Worker, that its label is one of that operation, that
  past the lock it holds the mutex of its file:tag, and that what it works on has a metadata
  unless it is being created. Without these a label could use a list or a block that was never
  read. That two threads are never past the same lock follows from the mutex having one holder.
* **`EnlacesDeLaMetaSiempre`, `SoloAbortaLoAMediasSiempre`** (`Enlaces_proofs`), for any number of
  Workers and crashes. The links of a file:tag agree with its metadata only between operations,
  so the invariant `Enlazado` says at each label which places of the list a CREATE, TRUNCATE,
  TAG, COMMIT, WRITE or DELETE has linked or unlinked so far (`ObraBien`), and that a file:tag
  nobody builds and no crash left halfway (`Reposa`) agrees exactly. Hypothesis `DestinosAjenos`:
  no other Worker names the file:tag that a TAG makes. The code needs it: `tagFile` locks only
  its source, so a request on the destination meets it half made.
* **`BitmapExactoSiempre`, `IndiceVerazSiempre`** (`Arbol_proofs`). `Exacto` adds the account of
  blocks: at each label, the bitmap is the set of linked blocks plus or minus the one in
  transit (found and not yet linked, linked and not yet marked, unlinked and not yet counted);
  a block of the index holds its content and is linked from a committed file:tag, so the
  block that a WRITE rewrites in place, linked only from a file:tag in progress, has no entry. Hypotheses: `UnWorker`, since
  `buscarBloqueLibre` and `marcarBloqueOcupado` (and `unlink` and `stat`) are two steps that two
  Workers interleave; `ComiteadosQuedan`, that neither `initial_file:BASE` nor a file:tag some
  request commits is deleted, since a DELETE leaves its entries in the index (section 4, 3).
  Crashes are allowed and their damage is excluded by `aMedias = {}`, which is part of
  `BitmapExacto` itself and stated in `IndiceVerazSiempre`.
* **`ImplementaElArbolSiempre`, `PasosDelArbol`, `CommiteadoIntactoSiempre`** (`Arbol_proofs`), under
  the same hypotheses. The mapping takes each file:tag to the contents that its list of blocks
  reaches (`Vista`). The `config_save` that ends a CREATE, a TAG, a COMMIT or a WRITE that
  copied its block, the rewrite in place of another WRITE, each block of a TRUNCATE and the first
  step of a DELETE are one step of `ArbolDeArchivos`; every other step must leave every `Vista` as it was, the ones through shared
  blocks above all, which is what `Exacto` is used for (the `fopen` of a CREATE shows nothing yet). `PasosDelArbol` allows restarts: each step
  that leaves `aMedias` empty is such a step or a stutter. With `Reinicios = 0` that is the whole
  implementation. That a committed file:tag never changes is read off the abstract step, so the
  disagreement `indice_rancio` comes from deleting what was committed and from nothing else that
  one Worker does.

**The memory of a Worker.** `MemoriaAssumption` and `DesalojoAssumption` give the constants their
types (at least one frame, blocks of at least one byte, a Storage that starts as some tree of
file:tags, each script may run on some Worker). They bound neither frames, file:tags, pages,
scripts nor Workers, and choose no algorithm. `NoHayAssumption` says that `NoHay`, the absence of
a file:tag, is not one. `Memoria_proofs` proves every safety property of the run `memoria`, for a
query that moves between Workers:

* **`TypeCorrect`, `MarcosCoherentesSiempre`, `TablaGlobalExactaSiempre`.** The properties speak of
  the moments when no page is being loaded, and a load is three to many steps in which pages,
  bitmap and `tablaPagGlobal` disagree. `Coherente` says how: from the READ_BLOCK to its frame
  the page of the instruction is marked present with a frame that is not its own (`AlAire`);
  from its choice to its replacement the victim is out of the list and still in its frame
  (`Sacada`), and under CLOCK-M the positions past it are one less than the frames (`Hueco`). `Papel` says which instruction can be at each label, and
  `OtraBien` that the memory of each Worker that waits is coherent by itself, so that the query
  finds a coherent one wherever it goes. The work is in what one replacement does (`CargaEfecto`,
  `RelojMiraBien`, `LiberaYCargaBien`): the page may be of the victim's own table, which may be
  freed, or be one the growth of the table has just made.
* **`AjenasFielesSiempre`.** `Fieles` adds that what READ_BLOCK answered is still what the Storage
  holds when it gets its frame, and that a page that is only read is never dirty, so that no
  flush writes it; `Persistidas`, that a query leaves a Worker with no dirty page (the tables
  persistirMemoriaCompleta went through are clean). Without the latter, a Worker could get a
  query back and write an old page over what another one wrote.

* **`LecturaFielSiempre`.** Nothing is asked of the scripts, the addresses or the sizes. The bytes
  of an answer come from the turns of a loop, and between two of them any page may be replaced,
  the next one included. `Lectura` keeps the account of that loop (`EnCurso`): which page and offset come
  next, that what was read are the first `Leidos` bytes of those asked for (`Tramo`), and that
  `tam` and `quedan` count the rest. A text with a byte 0 is cut short by the code, and the
  invariant says nothing of it (`SinCeros`). What one turn adds is true because of `Fieles`: the frame
  shows the block of the Storage. The lemmas on `div` and `%` (`DivideResto`, `DireccionDe`,
  `NecesariosDe`, `Cuentas`) place each byte in its page; they also show that the pages the loop
  counts reach exactly `Alcanza`, the tail that an unaligned address loses included.
* **`EscritoPersisteSiempre`, `FlushPersisteSiempre`.** `EscritoBien` says of a page that is only
  written where its last bytes are: in its frame while it is dirty, in the Storage otherwise
  (`Guardado`); that the Storage will accept it (`AceptanDe`), or the victim's write would be
  refused and the page lost all the same; and, when one Worker runs the script, that a clean page
  shows its block (`LimpiasIguales`). `Encargo` says what the instruction at hand is about, in
  particular that a FLUSH leaves no dirty page of its table behind, and `OtrasEscritas` that no
  Worker kept a page the Storage would refuse. Two hypotheses on the scripts, both needed by the code
  and stated in `Desalojo`; `MCMemoria` asserts that the scripts of the run meet them:
  `SinComiteados`, that what a script only writes is not committed from before, since
  `persistirMemoria` marks a page clean though its write was refused (`memoria.c:619`); and, for
  `FlushPersiste` only, `FlushEnUno`, that a script with a FLUSH runs on one Worker, since another
  one keeps the pages of an earlier visit and never hears of what was written since.

Only model-checked: `NuncaRetrocede`, and `UnSoloEjecutor` under PRIORIDADES or with a Query
Control that leaves, which are claims about two queries and no more (section 6 says what three
do); what `Desalojo` builds on, that one Worker at a time runs a query, is therefore proved under
FIFO and shown for two queries under PRIORIDADES; liveness (`TodasTerminan`, `NingunaSeOlvida`,
`TodaInstruccionTermina`), which with ENABLED is out of TLAPS's reach; and, for two Workers at
once, what the run `storage_un_escritor` shows of the index and the tree.

## 6 Abstractions and limits

*Master.* A `sem_wait` is joined to the access after it and a `sem_post` to the one before,
except where a post and its push are apart in the code. The four reads of the condition of the
aging loop are taken together. `list_add_sorted` and `list_sort` of the commons library may
leave ties in any order. Comparators that meet a freed query inside a list are not counted as
a use of it. A use after free may fault or go on with the old value; a double free faults. A
file descriptor is not reused after its close. After the Master faults nothing is modelled.
Contents of results are left out. All scripts of a run have the same number of lines.

*Two queries under PRIORIDADES.* The runs `prioridades` and `aging` have two queries, so that one
thread at a time may evict a given query and the eviction flag of a Worker is left over by one
eviction at most. With three and aging `NuncaRetrocede` is not true of the code, and there is no
theorem to look for. A guided exploration of the model with three queries of two lines and one
Worker, at priority 2, ends like this: the aging threads of Q2 and Q3 both evict Q1, which ends
meanwhile, and its Worker keeps the flag; Q3 is dispatched, and the thread of Q2 marks it
DESALOJO (139); Q3 answers a READ and then its Worker gives it back at line 1 because of the old
flag; the reply of the READ puts its mark back to EJECUCION (191); only then does the thread of Q2
serialise Q3 (140), and what leaves is an order to execute it, from line 0, to the Worker that has
just given it back: Q3 runs again what it had run, and the Master may dispatch it once more meanwhile.

*Worker.* SIGINT is one step: its handler first closes the socket of the Master, to which nothing goes
from then on, and what the interpreter still does before it sees `terminar` stays in the Worker and,
block by block, in the Storage (a query that a crash of its Worker ends is promised no contents). In `Interprete` an instruction is its outcome; `Memoria` models
what it does. Parsing is left out.

*Memory.* A Storage that is full is left out, and so is what other queries do in the Storage
meanwhile. All Workers use the same algorithm and number of frames. The order of the page tables
in their list is left open. The use of a freed table is a fault. In an answer, a byte 0 ends the
text of its page, as `string_append` does. The code loses data in ways the model keeps and no
property promises otherwise: a READ marks a dirty page clean (`memoria.c:519`), so
`FlushPersiste` and `EscritoPersiste` are about file:tags that are not read, and a query that
writes, reads and is evicted resumes elsewhere without its write; a Worker that gets a query
back reads the clean pages it kept, whatever another one wrote since; a WRITE to a page that is not loaded does not copy its block; the
number of an evicted page is searched by frame and may be that of an absent page (86); a refused
write is not tried again (117, 619); the tail of an unaligned WRITE is dropped (327); the memory
does not hear of TRUNCATE, DELETE or other Workers.

*Storage.* A hash is its content (no collisions). One `config_save` of the commons library, the
write of a block and the pair of `mkdir` of a tag are one step each. `TAMAÑO`, which nothing reads,
its save in a TRUNCATE and the codes of the replies are left out; a metadata with no ESTADO and an
empty list is the same as an empty file. A crash is the end of the process: what was written before it is on the
disk, in that order; a file cut short by a crash inside `config_save` is not modelled. The
number of blocks is a multiple of 8. A Worker that leaves changes nothing. The passing runs stay where the code keeps its promises:
`initial_file:BASE` is not deleted (its block 0 would be freed while TRUNCATE links it), one
Worker at a time takes or leaves blocks (`buscarBloqueLibre` and `marcarBloqueOcupado`, or
`unlink` and `stat`, of two Workers interleave), and in `storage_un_escritor` only a tag that was
never committed is deleted (section 4, 3).

What a crash leaves is what the model says, and the properties of `storage_secuencial` promise
nothing of the file:tag it was in (`aMedias`). An operation that died may leave a block marked
and not linked, which is lost; a block linked and not marked, after the `link` and before the
`marcarBloqueOcupado` of a WRITE that copies, which the next search offers again; a directory
with no metadata, or with the empty one of `crear_meta`, over which the next request aborts the Storage (`SoloAbortaLoAMedias` says
that nothing else does, with one Worker); or, after the unlinks of a TRUNCATE and before its
list is saved (`operaciones.c:56-61`), a metadata that names a block with no link. A WRITE through
that list finds one link less than there are file:tags and may rewrite in place a block of
another one, `initial_file:BASE` included: after a crash the contents of the other file:tags are
not promised, their links and lists (`EnlacesDeLaMeta`) are.

## 7 Plan

Done: the scheduler (`Canales`, `Master`, `Interprete`, `Sistema`, `CicloDeVida`), its type
invariant, its semaphores, the places of a query, the order of `listaReady`, the implementation
of `CicloDeVida` and, under FIFO, the dialogue with the Workers proved; `Storage` with its restarts and `ArbolDeArchivos`, proved;
`Memoria` and `Desalojo`, the coherence of pages, frames and list, what a READ answers and where what
was written is, proved under both algorithms.

Next, the model:

1. The run `memoria` with three frames and longer scripts, and the losses of section 6 as runs
   of their own wherever a text of the repository promises otherwise.
2. A third query under PRIORIDADES with aging, once its state space fits a run: what section 6 says
   of `NuncaRetrocede` as a run of its own.
3. The failures that so far are only described (the second executor of section 6, `WorkersEncuentran`
   once a Query Control leaves, two Workers of the Storage that both take blocks), each as a run
   that finds it: no comment, test or document of the repository says the contrary of them, so they
   are limits of the runs and hazards without a property, not disagreements of section 4.
4. Two Workers of `Desalojo` with a query each: what one reads while the other writes, commits or
   deletes.

Not modelled, for lack of state that could go wrong: configuration, logs and command lines; the
byte layout of packets (`serializacion.c`), which each side writes and reads in one call with the
same fields in the same order; the parsing of a line of a script.

Next, the proofs: what two Workers at once keep of the index and the tree (`storage_un_escritor`),
and `UnSoloEjecutor` under FIFO when a Query Control leaves, if it is true of any number of them.
