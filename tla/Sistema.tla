------------------------------ MODULE Sistema -------------------------------
(***************************************************************************)
(* The Master, its Workers and its Query Controls, composed.  What each    *)
(* process promises the others is stated in CicloDeVida and in the         *)
(* properties below.                                                       *)
(***************************************************************************)
EXTENDS Master, Interprete

CONSTANT QCInestables   \* Query Controls that may end before their query does

ASSUME SistemaAssumption == QCInestables \subseteq Queries

vars == <<varsMaster, varsInterprete, varsCanales>>

TypeOK == TypeOKCanales /\ TypeOKMaster /\ TypeOKInterprete

Init == InitCanales /\ InitMaster /\ InitInterprete

-----------------------------------------------------------------------------
(* Query Control (query_control/src/main.c).                               *)

CierraQC(q, estado) ==
  /\ vivo /\ hilo[DeQuery(q)].pc # "conectar" /\ socketQC[q] = "abierto"
  /\ socketQC' = [socketQC EXCEPT ![q] = estado]
  /\ UNCHANGED <<varsMaster, varsInterprete, aWorker, aMaster, socketWorker, avisos>>

\* The loop ends with FIN_QUERY, or when the Master closes the connection.
QCTermina(q) ==
  /\ avisos[q] > 0 \/ qm[q].liberada = "todo"
  /\ CierraQC(q, "cerrado")

\* The user ends the process; a packet it had not read resets the connection.
QCAbandona(q) ==
  /\ q \in QCInestables
  /\ \E estado \in {"cerrado", "roto"} : CierraQC(q, estado)

-----------------------------------------------------------------------------

\* What each process does; what follows the end of the Master is not modelled.
MasterReady == PasoReady /\ UNCHANGED varsInterprete
MasterExit == PasoExit /\ UNCHANGED varsInterprete
MasterAging(q) == PasoAging(q) /\ UNCHANGED varsInterprete
MasterQuery(q) == PasoQuery(q) /\ UNCHANGED varsInterprete
MasterWorker(w) == PasoWorker(w) /\ UNCHANGED varsInterprete
MasterDesalojo(h) == PasoDesalojo(h) /\ UNCHANGED varsInterprete
MasterFalla(h) == PasoFalla(h) /\ UNCHANGED varsInterprete
Worker(w) == vivo /\ PasoInterprete(w) /\ UNCHANGED varsMaster
WorkerCae(w) == vivo /\ CaeWorker(w) /\ UNCHANGED varsMaster

Next ==
  \/ MasterReady \/ MasterExit
  \/ \E h \in Hilos : MasterDesalojo(h) \/ MasterFalla(h)
  \/ \E q \in Queries : MasterAging(q) \/ MasterQuery(q) \/ QCTermina(q) \/ QCAbandona(q)
  \/ \E w \in Workers : MasterWorker(w) \/ Worker(w) \/ WorkerCae(w)

\* Every thread that can run is scheduled and every query script ends;
\* nobody is obliged to abandon, to crash or to fault.
Justicia ==
  /\ WF_vars(MasterReady) /\ WF_vars(MasterExit)
  /\ \A h \in Hilos : WF_vars(MasterDesalojo(h))
  /\ \A q \in Queries : WF_vars(MasterAging(q)) /\ WF_vars(MasterQuery(q)) /\ WF_vars(QCTermina(q))
  /\ \A w \in Workers : WF_vars(MasterWorker(w)) /\ WF_vars(Worker(w))

Spec == Init /\ [][Next]_vars
FairSpec == Spec /\ Justicia

-----------------------------------------------------------------------------
(* Queries and their places.                                               *)

\* In how many positions of the queues and lists q stands.
VecesEnColas(q) ==
  Cardinality({p \in Colas \X (1 .. Cardinality(Queries) + 1) :
                 p[2] <= Len(colas[p[1]]) /\ colas[p[1]][p[2]] = q})

\* The threads that took q out of one queue and have not put it in the next.
EnMano(q) ==
  {h \in Hilos : hilo[h].actual = q /\ hilo[h].pc \in
     {"agregar", "mirarQC", "reencolar", "codQCFin", "codDesconectada", "agregarExit",
      "codFinReady", "exitReady"}}

\* A query whose Query Control stays is in exactly one queue, list or hand
\* from its arrival until exitStatus frees it: none is lost between two
\* mutexes and none is queued twice (planificacion.c 85-242).
UnSoloLugar ==
  \A q \in Queries :
    VecesEnColas(q) + Cardinality(EnMano(q)) =
      IF hilo[DeQuery(q)].pc # "conectar" /\ qm[q].liberada = "no" THEN 1 ELSE 0

\* ready and exitStatus never pop an empty queue, whose NULL they would use:
\* each post is made after its push, and ready looks at colaDesalojo only
\* once it holds a token (86-91, 144-147, 245-262).
ReadyYExitEncuentran ==
  /\ hilo[Ready].pc = "sacaNew" => colas["new"] # <<>>
  /\ hilo[Ready].pc = "sacaDesalojo" => colas["desalojo"] # <<>>
  /\ hilo[Exit].pc = "esperar" => sem["exit"] <= Len(colas["exit"])

\* The Worker threads never take from an empty listaReady: as many queries
\* as posts.  It needs Query Controls that stay (line 77 takes a query out
\* and leaves the count).
WorkersEncuentran == sem["ready"] <= Len(colas["ready"])

-----------------------------------------------------------------------------
(* What travels.                                                           *)

\* Under FIFO what a Worker thread sends is the order to execute: nobody
\* changes codAccion between lines 167 and 169.
SeEnviaEjecucion ==
  \A w \in Workers :
    hilo[DeWorker(w)].pc = "enviar" => hilo[DeWorker(w)].mensaje.cod = "EJECUCION"

\* A reply is applied to the query it speaks of, though it does not name it:
\* the Master takes it to be the last query it sent on that connection (172-203).
RespuestaDeLaSuya ==
  \A w \in Workers :
    hilo[DeWorker(w)].pc = "recibir" /\ aMaster[w] # <<>> => Head(aMaster[w]).q = Suya(w)

\* A dispatched query is with its Worker or answered by it: the packet is on
\* its way, the interpreter holds the query, or the reply is on its way.
NadieEsperaEnVano ==
  \A w \in Workers :
    hilo[DeWorker(w)].pc = "recibir" =>
      \/ aWorker[w] # <<>> \/ aMaster[w] # <<>> \/ socketWorker[w] # "abierto"
      \/ semQuery[w] > 0 \/ ejec[w].en # "esperar"

\* Two Workers never hold the same query, whatever crashes and, with two
\* queries, evictions came before (155-186; ejecucion.c 20-31).
UnSoloEjecutor ==
  \A u, w \in Workers : u # w /\ queryActual[u] # NULL => queryActual[u].q # queryActual[w].q

\* With two queries, an evicted one resumes where it stopped: its program
\* counter in the Master never goes back, and a Worker that runs it is at or
\* past it (219; worker.c 30-39).
NuncaRetrocede ==
  [][/\ \A q \in Queries : qm'[q].pc >= qm[q].pc
     /\ \A w \in Workers :
          ejec'[w].en = "ejecutar" => ejec'[w].pc >= qm[ejec'[w].q].pc]_vars

-----------------------------------------------------------------------------
(* Memory.                                                                 *)

\* Under FIFO, with Query Controls that stay, a freed query is only touched by
\* the last lines of enviarExit (238-241), which push it before they are done.
UsoTrasLiberarSoloEnExit ==
  \A h \in Hilos : UsoTrasLiberar(h) => hilo[h].pc = "codFin"

\* With one Worker there is nothing left to go wrong under FIFO.
NadaFalla ==
  \A h \in Hilos : ~PunteroNulo(h) /\ ~UsoTrasLiberar(h) /\ ~DobleLiberacion(h) /\ ~SocketRoto(h)

\* listaReady is ordered by priority, except while an aging thread has lowered
\* one and not sorted yet (116-117).
ReadyOrdenada ==
  (\A q \in Queries : hilo[Aging(q)].pc # "ordenar") =>
    \A i, j \in DOMAIN colas["ready"] :
      i < j => qm[colas["ready"][i]].prioridad <= qm[colas["ready"][j]].prioridad

-----------------------------------------------------------------------------
(* The life of a query, as CicloDeVida promises it.                        *)

Corriendo == {
  "agregar", "codEjecucion", "asignar", "serializar", "enviar", "recibir",
  "responder", "desalojar", "mirarQC", "reencolar", "finalizar", "avisar" }

Ciclo == INSTANCE CicloDeVida WITH
  enEspera <- ToSet(colas["new"]) \cup ToSet(colas["desalojo"]) \cup ToSet(colas["ready"]),
  asignada <- [w \in Workers |-> IF hilo[DeWorker(w)].pc \in Corriendo THEN Suya(w) ELSE Ninguna],
  finalizadas <- {q \in Queries : avisos[q] > 0}

CumpleElCiclo == Ciclo!Spec

\* Every query ends: its Query Control gets FIN_QUERY and the Master frees it.
TodasTerminan == \A q \in Queries : <>(avisos[q] > 0 /\ qm[q].liberada = "todo")

\* The same, for as long as the Master runs.
NingunaSeOlvida ==
  \A q \in Queries : <>(~vivo \/ (avisos[q] > 0 /\ qm[q].liberada = "todo"))

-----------------------------------------------------------------------------
(* What the repository's comments and scripts say of the program, and the  *)
(* program does not do.                                                    *)

\* "Obtiene que worker esta ejecutando la query" (planificacion.c:337): the
\* Worker found for a query is the one it was last dispatched to.
ConsultaDaQuienEjecuta ==
  \A q \in Queries, u \in Workers :
    /\ WorkerEjecutandoQuery(q) # Ninguna
    /\ hilo[DeWorker(u)].pc \in {"serializar", "enviar", "recibir"} /\ Suya(u) = q
    /\ Contains(listaWorker, u)
    => WorkerEjecutandoQuery(q) = u

=============================================================================
