------------------------------- MODULE Master -------------------------------
(***************************************************************************)
(* The Master: planificacion.c, the server threads of master.c and main.c, *)
(* and the t_query_master objects of utils/estructuras.c.                  *)
(*                                                                         *)
(* The threads are those the code creates: ready and exitStatus, one       *)
(* atenderQuery per Query Control, one atenderWorker per Worker and the    *)
(* aging thread of each query.  A step is the code between two accesses to *)
(* shared state: one mutex section, or one unprotected read or write of a  *)
(* shared field.  A sem_wait is joined to the access that follows it and a *)
(* sem_post to the access before it; neither hides an interleaving.        *)
(***************************************************************************)
EXTENDS Canales, SequencesExt

CONSTANTS
  Algoritmo,     \* ALGORITMO_PLANIFICACION: "FIFO" or "PRIORIDADES"
  ConAging,      \* TIEMPO_AGING > 0
  MaxPrioridad,  \* bound of the priority numbers
  Pedidas        \* the priorities the Query Controls ask for

ASSUME MasterAssumption ==
  /\ Algoritmo \in {"FIFO", "PRIORIDADES"}
  /\ ConAging \in BOOLEAN
  /\ MaxPrioridad \in Nat
  /\ Pedidas \subseteq 0 .. MaxPrioridad

VARIABLES
  colas,         \* colaNew, colaDesalojo, listaReady, listaExecute, colaExit
  sem,           \* semQueryEsperandoReady, semQueryReady, semQueryExit
  listaWorker,   \* the connected t_worker objects
  idQuery,       \* worker->idQuery of each; Ninguna is -1
  qm,            \* the t_query_master of each query and its t_query
  hilo,          \* the label and the local variables of each thread
  vivo           \* the process runs: FALSE after a fault or a SIGPIPE

varsWorkers == <<listaWorker, idQuery>>
varsMaster == <<colas, sem, varsWorkers, qm, hilo, vivo>>

-----------------------------------------------------------------------------
(* Threads and labels.                                                     *)

Ready == <<"ready", Ninguna>>
Exit == <<"exit", Ninguna>>
Aging(q) == <<"aging", q>>
DeQuery(q) == <<"query", q>>       \* atenderQuery
DeWorker(w) == <<"worker", w>>     \* atenderWorker

Hilos ==
  ({"ready", "exit"} \X {Ninguna}) \cup ({"aging", "query"} \X Queries)
  \cup ({"worker"} \X Workers)

\* The threads that may call enviarDesalojo.
Desaloja(h) == h[1] \in {"ready", "aging", "query"}

Etiquetas == {
  "fin", "conectar", "esperar", "cerrar",
  "sacaNew", "sacaDesalojo", "codEspera", "comenzarAging",
  "hayExecute", "todosTienen", "ultima", "tomar", "propia", "comparar",
  "buscar", "marcar", "serializar", "enviar",
  "condicion", "dormido", "disminuir", "ordenar", "saliendo",
  "agregar", "codEjecucion", "asignar", "recibir", "responder",
  "desalojar", "mirarQC", "reencolar", "codReencolada", "codQCFin", "codDesconectada",
  "liberarId",
  "finalizar", "avisar", "sacarExecute", "agregarExit", "codFin", "postExit",
  "escuchar", "desconectar", "registrar", "buscarReady", "desconectarReady",
  "sacarReady", "codFinReady", "exitReady" }

Colas == {"new", "desalojo", "ready", "execute", "exit"}

TypeOKMaster ==
  /\ colas \in [Colas -> Seq(Queries)]
  /\ sem \in [{"esperandoReady", "ready", "exit"} -> Nat]
  /\ listaWorker \in Seq(Workers)
  /\ idQuery \in [Workers -> Queries \cup {Ninguna}]
  /\ qm \in [Queries ->
       [prioridad : 0 .. MaxPrioridad, cod : CodAccion, pc : 0 .. Largo,
        desconectado : BOOLEAN, agingIniciado : BOOLEAN,
        liberada : {"no", "query", "todo"}]]
  /\ hilo \in [Hilos ->
       [pc : Etiquetas, actual : Queries \cup {Ninguna},
        victima : Queries \cup {Ninguna}, numero : Int,
        destino : Workers \cup {Ninguna}, mensaje : Paquete \cup {Ninguna}]]
  /\ vivo \in BOOLEAN

Inicial(h) ==
  [pc |-> CASE h[1] \in {"ready", "exit"} -> "esperar"
            [] h[1] \in {"query", "worker"} -> "conectar"
            [] OTHER -> "fin",
   actual |-> IF h[1] \in {"aging", "query"} THEN h[2] ELSE Ninguna,
   victima |-> Ninguna, numero |-> 0, destino |-> Ninguna, mensaje |-> Ninguna]

\* iniciarPlanificacion; main creates the threads ready and exitStatus.
InitMaster ==
  /\ colas = [c \in Colas |-> <<>>]
  /\ sem = [s \in {"esperandoReady", "ready", "exit"} |-> 0]
  /\ listaWorker = <<>>
  /\ idQuery = [w \in Workers |-> Ninguna]
  /\ qm = [q \in Queries |->
       [prioridad |-> 0, cod |-> "CREACION", pc |-> 0, desconectado |-> FALSE,
        agingIniciado |-> FALSE, liberada |-> "no"]]
  /\ hilo = [h \in Hilos |-> Inicial(h)]
  /\ vivo = TRUE

-----------------------------------------------------------------------------
(* The shapes of a step.                                                   *)

\* Thread h is at a label and moves to another; back at its sem_wait it has
\* no query.
Va(h, desde, hasta) ==
  /\ vivo /\ UNCHANGED vivo
  /\ hilo[h].pc = desde
  /\ hilo' = [hilo EXCEPT ![h].pc = hasta,
                          ![h].actual = IF hasta = "esperar" THEN Ninguna ELSE @]

\* It moves and sets one local.
Anota(h, desde, hasta, campo, valor) ==
  /\ vivo /\ UNCHANGED vivo
  /\ hilo[h].pc = desde
  /\ hilo' = [hilo EXCEPT ![h].pc = hasta, ![h][campo] = valor]
  /\ UNCHANGED <<colas, sem, varsWorkers, qm, varsCanales>>

\* It branches on what it reads.
Mira(h, desde, condicion, si, no) ==
  /\ Va(h, desde, IF condicion THEN si ELSE no)
  /\ UNCHANGED <<colas, sem, varsWorkers, qm, varsCanales>>

\* It writes one field of a query.
PonCampo(h, desde, hasta, q, campo, valor) ==
  /\ Va(h, desde, hasta)
  /\ qm' = [qm EXCEPT ![q][campo] = valor]
  /\ UNCHANGED <<colas, sem, varsWorkers, varsCanales>>

\* It changes one queue or list.
PonCola(h, desde, hasta, cola, valores) ==
  /\ Va(h, desde, hasta)
  /\ \E s \in valores : colas' = [colas EXCEPT ![cola] = s]
  /\ UNCHANGED <<sem, varsWorkers, qm, varsCanales>>

-----------------------------------------------------------------------------
(* Slips the code does not make.  Each replaces the definition it names in  *)
(* a run that shows that some property would notice.                        *)

\* agregarQueryMasterLista with list_add whatever the algorithm (Inserciones).
InsercionesAlFinal(lista, q) == {Append(lista, q)}

\* The wrong queue first (ColaSiguiente).
ColaEquivocada == IF colas["desalojo"] = <<>> THEN "sacaDesalojo" ELSE "sacaNew"

\* queue_peek for queue_pop (ReadySaca).
ReadyMiraCola(cola, desde) ==
  /\ colas[cola] # <<>>
  /\ PonCola(Ready, desde, "codEspera", "ready", {Append(colas["ready"], Head(colas[cola]))})

\* list_get for list_remove (TomaReady).
TomaSinSacar(w) ==
  /\ colas["ready"] # <<>> /\ sem["ready"] > 0
  /\ Anota(DeWorker(w), "esperar", "agregar", "actual", Head(colas["ready"]))

\* sem_trywait without looking at its result (TomaReady).
TomaSinDescontar(w) ==
  /\ vivo /\ hilo[DeWorker(w)].pc = "esperar" /\ colas["ready"] # <<>> /\ sem["ready"] > 0
  /\ colas' = [colas EXCEPT !["ready"] = Tail(@)]
  /\ hilo' = [hilo EXCEPT ![DeWorker(w)].pc = "agregar",
                          ![DeWorker(w)].actual = Head(colas["ready"])]
  /\ UNCHANGED <<sem, varsWorkers, qm, vivo, varsCanales>>

\* No cambiarCodAccionQuery before enviarQuery (PoneEjecucion).
SinPonerEjecucion(w) == Mira(DeWorker(w), "codEjecucion", TRUE, "asignar", "asignar")

\* The packet leaves with the first instruction again (Serializa).
SerializaDesdeCero(h) ==
  LET q == IF Desaloja(h) THEN hilo[h].victima ELSE hilo[h].actual IN
  Anota(h, "serializar", "enviar", "mensaje", [q |-> q, cod |-> qm[q].cod, pc |-> 0])

\* One list_remove_element too many in the aging thread (AgingOrdena).
AgingSaca(q) ==
  PonCola(Aging(q), "ordenar", "hayExecute", "ready", {RemoveFirst(colas["ready"], q)})

\* No ordenarLista after disminuirPrioridad (AgingOrdena).
AgingNoOrdena(q) == Mira(Aging(q), "ordenar", TRUE, "hayExecute", "hayExecute")

\* No break after case RESPUESTA_QUERY (Destino).
DestinoSinBreak(cod) ==
  CASE cod = "DESALOJO" -> "desalojar"
    [] cod \in {"RESPUESTA", "FIN"} -> "finalizar"
    [] OTHER -> "recibir"

\* FIN_QUERY forwarded for every reply (Responde).
RespondeFin(w) ==
  /\ Va(DeWorker(w), "responder", "recibir")
  /\ EnviaAQC(hilo[DeWorker(w)].actual, "FIN")
  /\ UNCHANGED <<colas, sem, varsWorkers, qm>>

\* An evicted query is left in listaExecute (DesalojaSacaExecute).
DesalojaSinSacar(w) == Mira(DeWorker(w), "desalojar", TRUE, "mirarQC", "mirarQC")

\* An evicted query is not queued again (DesalojaReencola).
DesalojaPierde(w) == Mira(DeWorker(w), "reencolar", TRUE, "codReencolada", "codReencolada")

\* semQueryReady for semQueryEsperandoReady (DesalojaPublica).
PublicaEnReady(w) ==
  /\ Va(DeWorker(w), "codReencolada", "liberarId")
  /\ qm' = [qm EXCEPT ![hilo[DeWorker(w)].actual].cod = "ESPERA"]
  /\ sem' = [sem EXCEPT !["ready"] = @ + 1]
  /\ UNCHANGED <<colas, varsWorkers, varsCanales>>

\* enviarExit starts by queueing and posting (Finaliza).
FinalizaEncolando(w) ==
  /\ Va(DeWorker(w), "finalizar", "avisar")
  /\ colas' = [colas EXCEPT !["exit"] = Append(@, hilo[DeWorker(w)].actual)]
  /\ sem' = [sem EXCEPT !["exit"] = @ + 1]
  /\ idQuery' = [idQuery EXCEPT ![w] = Ninguna]
  /\ UNCHANGED <<listaWorker, qm, varsCanales>>

\* manejarDesconexionWorker forgets the query (DetectaCaida).
CaidaOlvida(w) ==
  /\ socketWorker[w] # "abierto" /\ aMaster[w] = <<>>
  /\ Va(DeWorker(w), "recibir", "fin")
  /\ listaWorker' = RemoveFirst(listaWorker, w)
  /\ UNCHANGED <<colas, sem, idQuery, qm, varsCanales>>

\* manejarDesconexionWorker only queues the query in colaExit (DetectaCaida).
CaidaSoloEncola(w) ==
  /\ socketWorker[w] # "abierto" /\ aMaster[w] = <<>>
  /\ Va(DeWorker(w), "recibir", "agregarExit")
  /\ listaWorker' = RemoveFirst(listaWorker, w)
  /\ UNCHANGED <<colas, sem, idQuery, qm, varsCanales>>

\* A finished query is left in listaExecute (SacaExecute).
SinSacarExecute(w) == Mira(DeWorker(w), "sacarExecute", TRUE, "agregarExit", "agregarExit")

\* sem_post before the push (SacaExecute).
PublicaYSaca(w) ==
  /\ Va(DeWorker(w), "sacarExecute", "agregarExit")
  /\ colas' = [colas EXCEPT !["execute"] = RemoveFirst(@, hilo[DeWorker(w)].actual)]
  /\ sem' = [sem EXCEPT !["exit"] = @ + 1]
  /\ UNCHANGED <<varsWorkers, qm, varsCanales>>

\* sem_post before cambiarCodAccionQuery (AgregaExit).
AgregaYPublica(w) ==
  /\ Va(DeWorker(w), "agregarExit", "codFin")
  /\ colas' = [colas EXCEPT !["exit"] = Append(@, hilo[DeWorker(w)].actual)]
  /\ sem' = [sem EXCEPT !["exit"] = @ + 1]
  /\ UNCHANGED <<varsWorkers, qm, varsCanales>>

\* No sem_post(semQueryExit) at the end of enviarExit (PoneFin).
PoneFinSinPost(w) ==
  PonCampo(DeWorker(w), "codFin", "esperar", hilo[DeWorker(w)].actual, "cod", "FIN")

-----------------------------------------------------------------------------
(* Lists (the monitors at the end of planificacion.c).                     *)

\* list_add, or list_add_sorted by mayorPrioridad: where the numbers before
\* are not greater and the next one is not smaller.
Inserciones(lista, q) ==
  LET Cabe(j) ==
        /\ \A k \in 1 .. j - 1 : qm[lista[k]].prioridad <= qm[q].prioridad
        /\ j <= Len(lista) => qm[lista[j]].prioridad >= qm[q].prioridad
  IN IF Algoritmo = "FIFO" THEN {Append(lista, q)}
     ELSE {InsertAt(lista, i, q) : i \in {j \in 1 .. Len(lista) + 1 : Cabe(j)}}

\* list_sort by mayorPrioridad: some sorted permutation.
Ordenaciones(lista) ==
  {s \in {[i \in DOMAIN lista |-> lista[f[i]]] : f \in Bijection(DOMAIN lista, DOMAIN lista)} :
     \A i, j \in DOMAIN s : i < j => qm[s[i]].prioridad <= qm[s[j]].prioridad}

\* obtenerWorkerEjecutandoQuery: the first of listaWorker whose idQuery is q.
PosicionesConQuery(q) == {i \in DOMAIN listaWorker : idQuery[listaWorker[i]] = q}
WorkerEjecutandoQuery(q) ==
  LET P == PosicionesConQuery(q)
  IN IF P = {} THEN Ninguna
     ELSE listaWorker[CHOOSE i \in P : \A j \in P : i <= j]

TodosLosWorkersTienenQuery ==
  \A i \in DOMAIN listaWorker : idQuery[listaWorker[i]] # Ninguna

-----------------------------------------------------------------------------
(* Thread ready (85-108).                                                  *)

\* sem_wait, then obtenerSiguienteQueryMasterReady looks at colaDesalojo.
ColaSiguiente == IF colas["desalojo"] # <<>> THEN "sacaDesalojo" ELSE "sacaNew"
ReadyEspera ==
  /\ sem["esperandoReady"] > 0
  /\ Va(Ready, "esperar", ColaSiguiente)
  /\ sem' = [sem EXCEPT !["esperandoReady"] = @ - 1]
  /\ UNCHANGED <<colas, varsWorkers, qm, varsCanales>>

\* The query leaves the chosen queue and enters listaReady.
ReadySaca(cola, desde) ==
  LET q == Head(colas[cola]) IN
  /\ vivo /\ hilo[Ready].pc = desde /\ colas[cola] # <<>>
  /\ \E s \in Inserciones(colas["ready"], q) :
       colas' = [colas EXCEPT !["ready"] = s, ![cola] = Tail(@)]
  /\ hilo' = [hilo EXCEPT ![Ready].pc = "codEspera", ![Ready].actual = q]
  /\ UNCHANGED <<sem, varsWorkers, qm, vivo, varsCanales>>

\* The ESPERA_QUERY mark comes after the query is in listaReady;
\* verificarDesalojo does nothing under FIFO.
ReadyCodEspera ==
  PonCampo(Ready, "codEspera", IF Algoritmo = "FIFO" THEN "comenzarAging" ELSE "hayExecute",
           hilo[Ready].actual, "cod", "ESPERA")

\* comenzarAging, then sem_post(semQueryReady).
DebeEnvejecer(q) == ConAging /\ Algoritmo # "FIFO" /\ ~qm[q].agingIniciado
ReadyPublica ==
  LET q == hilo[Ready].actual
      ocioso == [hilo EXCEPT ![Ready] = Inicial(Ready)] IN
  /\ vivo /\ hilo[Ready].pc = "comenzarAging"
  /\ hilo' = IF DebeEnvejecer(q)
             THEN [ocioso EXCEPT ![Aging(q)].pc = "condicion"] ELSE ocioso
  /\ qm' = [qm EXCEPT ![q].agingIniciado = @ \/ DebeEnvejecer(q)]
  /\ sem' = [sem EXCEPT !["ready"] = @ + 1]
  /\ UNCHANGED <<colas, varsWorkers, vivo, varsCanales>>

-----------------------------------------------------------------------------
(* verificarDesalojo, called by ready and by the aging threads (125-135).  *)

Retorno(h) ==
  CASE h[1] = "ready" -> "comenzarAging"
    [] h[1] = "aging" -> "condicion"
    [] OTHER -> "registrar"

VerificaHayExecute(h) ==
  Mira(h, "hayExecute", colas["execute"] # <<>>, "todosTienen", Retorno(h))

VerificaTodosTienen(h) ==
  Mira(h, "todosTienen", TodosLosWorkersTienenQuery, "ultima", Retorno(h))

\* lengthLista - 1, and then list_get, in another section, of that position.
VerificaUltima(h) == Anota(h, "ultima", "tomar", "numero", Len(colas["execute"]) - 1)
VerificaToma(h) ==
  /\ hilo[h].numero \in 0 .. Len(colas["execute"]) - 1
  /\ Anota(h, "tomar", "propia", "victima", colas["execute"][hilo[h].numero + 1])

\* The two priorities are read one after the other.
VerificaPropia(h) ==
  Anota(h, "propia", "comparar", "numero", qm[hilo[h].actual].prioridad)

EsMasPrioritaria(propia, otra) == propia < otra
VerificaCompara(h) ==
  LET desaloja == EsMasPrioritaria(hilo[h].numero, qm[hilo[h].victima].prioridad) IN
  /\ vivo /\ hilo[h].pc = "comparar"
  /\ hilo' = [hilo EXCEPT ![h] = [@ EXCEPT
                !.pc = IF desaloja THEN "buscar" ELSE Retorno(h),
                !.numero = 0, !.victima = IF desaloja THEN hilo[h].victima ELSE Ninguna]]
  /\ UNCHANGED <<colas, sem, varsWorkers, qm, vivo, varsCanales>>

-----------------------------------------------------------------------------
(* enviarDesalojo (137-141) and enviarQuery (estructuras.c 14-17).         *)

DesalojoBusca(h) ==
  LET w == WorkerEjecutandoQuery(hilo[h].victima) IN
  hilo[h].pc = "buscar" /\ w # Ninguna /\ Anota(h, "buscar", "marcar", "destino", w)

DesalojoMarca(h) ==
  PonCampo(h, "marcar", "serializar", hilo[h].victima, "cod", "DESALOJO")

\* The packet holds the codAccion and the pc the query has when it is
\* serialised, whoever wrote them.
QueryEnviada(h) == IF Desaloja(h) THEN hilo[h].victima ELSE hilo[h].actual
WorkerDestino(h) == IF Desaloja(h) THEN hilo[h].destino ELSE h[2]
Serializa(h) ==
  LET q == QueryEnviada(h) IN
  Anota(h, "serializar", "enviar", "mensaje", [q |-> q, cod |-> qm[q].cod, pc |-> qm[q].pc])

Envia(h) ==
  /\ vivo /\ hilo[h].pc = "enviar"
  /\ EnviaAWorker(WorkerDestino(h), hilo[h].mensaje)
  /\ hilo' = [hilo EXCEPT ![h] = [@ EXCEPT
                !.pc = IF Desaloja(h) THEN Retorno(h) ELSE "recibir",
                !.mensaje = Ninguna, !.victima = Ninguna, !.destino = Ninguna]]
  /\ UNCHANGED <<colas, sem, varsWorkers, qm, vivo>>

-----------------------------------------------------------------------------
(* The aging thread of a query (110-123).                                  *)

SigueEnvejeciendo(q) ==
  /\ ~qm[q].desconectado
  /\ qm[q].cod # "FIN"
  /\ WorkerEjecutandoQuery(q) = Ninguna
  /\ qm[q].prioridad > 0

AgingCondicion(q) ==
  Mira(Aging(q), "condicion", SigueEnvejeciendo(q), "dormido", "saliendo")

\* usleep ends; the condition is evaluated again.
AgingDespierta(q) ==
  Mira(Aging(q), "dormido", SigueEnvejeciendo(q), "disminuir", "condicion")

AgingDisminuye(q) ==
  PonCampo(Aging(q), "disminuir", "ordenar", q, "prioridad",
           IF qm[q].prioridad > 0 THEN qm[q].prioridad - 1 ELSE 0)

AgingOrdena(q) ==
  PonCola(Aging(q), "ordenar", "hayExecute", "ready", Ordenaciones(colas["ready"]))

AgingSale(q) == PonCampo(Aging(q), "saliendo", "fin", q, "agingIniciado", FALSE)

-----------------------------------------------------------------------------
(* atenderWorker (152-205) and the functions it calls.                     *)

Suya(w) == hilo[DeWorker(w)].actual

\* crearWorker, agregarWorkerLista.
ConectaWorker(w) ==
  /\ Va(DeWorker(w), "conectar", "esperar")
  /\ listaWorker' = Append(listaWorker, w)
  /\ UNCHANGED <<colas, sem, idQuery, qm, varsCanales>>

\* sem_wait, list_remove(listaReady, 0).
TomaReady(w) ==
  LET h == DeWorker(w) IN
  /\ vivo /\ hilo[h].pc = "esperar"
  /\ sem["ready"] > 0 /\ colas["ready"] # <<>>
  /\ sem' = [sem EXCEPT !["ready"] = @ - 1]
  /\ colas' = [colas EXCEPT !["ready"] = Tail(@)]
  /\ hilo' = [hilo EXCEPT ![h].pc = "agregar", ![h].actual = Head(colas["ready"])]
  /\ UNCHANGED <<varsWorkers, qm, vivo, varsCanales>>

AgregaExecute(w) ==
  PonCola(DeWorker(w), "agregar", "codEjecucion", "execute",
          Inserciones(colas["execute"], Suya(w)))

PoneEjecucion(w) ==
  PonCampo(DeWorker(w), "codEjecucion", "asignar", Suya(w), "cod", "EJECUCION")

\* worker->idQuery: from 168 on verificarDesalojo sees the worker busy; -1 frees it.
PoneIdQuery(w, desde, hasta, id) ==
  /\ Va(DeWorker(w), desde, hasta)
  /\ idQuery' = [idQuery EXCEPT ![w] = id]
  /\ UNCHANGED <<colas, sem, listaWorker, qm, varsCanales>>

AsignaQuery(w) == PoneIdQuery(w, "asignar", "serializar", Suya(w))

\* recibirPaquete, cambiarCodAccionQuery and the switch; of a DESALOJO_QUERY
\* reply the program counter is taken too (219).
Destino(cod) ==
  CASE cod = "DESALOJO" -> "desalojar"
    [] cod = "RESPUESTA" -> "responder"
    [] cod = "FIN" -> "finalizar"
    [] OTHER -> "recibir"

RecibeRespuesta(w) ==
  LET q == Suya(w)
      r == Head(aMaster[w]) IN
  /\ aMaster[w] # <<>>
  /\ Va(DeWorker(w), "recibir", Destino(r.cod))
  /\ aMaster' = [aMaster EXCEPT ![w] = Tail(@)]
  /\ qm' = [qm EXCEPT ![q].cod = r.cod,
                      ![q].pc = IF r.cod = "DESALOJO" THEN r.pc ELSE @]
  /\ UNCHANGED <<colas, sem, varsWorkers, aWorker, socketWorker, socketQC, avisos>>

\* case RESPUESTA_QUERY: to the Query Control, and back to EJECUCION_QUERY.
Responde(w) ==
  /\ Va(DeWorker(w), "responder", "recibir")
  /\ EnviaAQC(Suya(w), "RESPUESTA")
  /\ qm' = [qm EXCEPT ![Suya(w)].cod = "EJECUCION"]
  /\ UNCHANGED <<colas, sem, varsWorkers>>

\* case DESALOJO_QUERY: desalojarQuery (218-233), then idQuery = -1 (186).
DesalojaSacaExecute(w) ==
  PonCola(DeWorker(w), "desalojar", "mirarQC", "execute",
          {RemoveFirst(colas["execute"], Suya(w))})

\* queryControlDesconectado, in a section of its own: what it answers may be
\* old when the query is pushed.
DesalojaMiraQC(w) ==
  Mira(DeWorker(w), "mirarQC", qm[Suya(w)].desconectado, "codQCFin", "reencolar")

DesalojaReencola(w) ==
  PonCola(DeWorker(w), "reencolar", "codReencolada", "desalojo",
          {Append(colas["desalojo"], Suya(w))})

DesalojaPublica(w) ==
  /\ Va(DeWorker(w), "codReencolada", "liberarId")
  /\ qm' = [qm EXCEPT ![Suya(w)].cod = "ESPERA"]
  /\ sem' = [sem EXCEPT !["esperandoReady"] = @ + 1]
  /\ UNCHANGED <<colas, varsWorkers, varsCanales>>

DesalojaDesconectada(w) ==
  PonCampo(DeWorker(w), "codQCFin", "codDesconectada", Suya(w), "cod", "FIN")

\* agregarQueryMasterCola(colaExit): the log or the cod of the query are
\* still touched before sem_post(semQueryExit).
EncolaExit(h, desde, hasta) ==
  PonCola(h, desde, hasta, "exit", {Append(colas["exit"], hilo[h].actual)})

DesalojaExit(w) == EncolaExit(DeWorker(w), "codDesconectada", "postExit")

PublicaExit(h) ==
  /\ Va(h, "postExit", IF h[1] = "worker" THEN "liberarId" ELSE "fin")
  /\ sem' = [sem EXCEPT !["exit"] = @ + 1]
  /\ UNCHANGED <<colas, varsWorkers, qm, varsCanales>>

DesalojaLiberaId(w) == PoneIdQuery(w, "liberarId", "esperar", Ninguna)

\* case FIN_QUERY: the worker is free before the query is taken down.
Finaliza(w) == PoneIdQuery(w, "finalizar", "avisar", Ninguna)

\* recibirPaquete returned NULL: manejarDesconexionWorker (207-216), whose
\* eliminarWorkerLista comes first; idQuery keeps its value.
DetectaCaida(w) ==
  /\ socketWorker[w] # "abierto" /\ aMaster[w] = <<>>
  /\ Va(DeWorker(w), "recibir", "avisar")
  /\ listaWorker' = RemoveFirst(listaWorker, w)
  /\ UNCHANGED <<colas, sem, idQuery, qm, varsCanales>>

\* enviarExit (235-242): the FIN_QUERY mark comes after the push.
AvisaFin(w) ==
  /\ Va(DeWorker(w), "avisar", "sacarExecute")
  /\ EnviaAQC(Suya(w), "FIN")
  /\ UNCHANGED <<colas, sem, varsWorkers, qm>>

SacaExecute(w) ==
  PonCola(DeWorker(w), "sacarExecute", "agregarExit", "execute",
          {RemoveFirst(colas["execute"], Suya(w))})

AgregaExit(w) == EncolaExit(DeWorker(w), "agregarExit", "codFin")

\* The post; a worker that left listaWorker is freed and its thread ends.
PoneFin(w) ==
  /\ Va(DeWorker(w), "codFin", IF Contains(listaWorker, w) THEN "esperar" ELSE "fin")
  /\ qm' = [qm EXCEPT ![Suya(w)].cod = "FIN"]
  /\ sem' = [sem EXCEPT !["exit"] = @ + 1]
  /\ UNCHANGED <<colas, varsWorkers, varsCanales>>

-----------------------------------------------------------------------------
(* exitStatus (143-150) and liberarQueryMaster (estructuras.c 36-46).      *)

\* sem_wait, queue_pop, and liberarQuery: the t_query is freed.
ExitLibera ==
  LET q == Head(colas["exit"]) IN
  /\ vivo /\ hilo[Exit].pc = "esperar"
  /\ sem["exit"] > 0 /\ colas["exit"] # <<>> /\ qm[q].liberada = "no"
  /\ sem' = [sem EXCEPT !["exit"] = @ - 1]
  /\ colas' = [colas EXCEPT !["exit"] = Tail(@)]
  /\ qm' = [qm EXCEPT ![q].liberada = "query"]
  /\ hilo' = [hilo EXCEPT ![Exit].pc = "cerrar", ![Exit].actual = q]
  /\ UNCHANGED <<varsWorkers, vivo, varsCanales>>

\* The aging thread is joined when there is one; then the rest is freed.
ExitCierra ==
  LET q == hilo[Exit].actual IN
  /\ hilo[Exit].pc = "cerrar" /\ ~qm[q].agingIniciado
  /\ PonCampo(Exit, "cerrar", "esperar", q, "liberada", "todo")

-----------------------------------------------------------------------------
(* atenderQuery (50-64) and manejarDesconexionQueryControl (66-83).        *)

\* deserializarQuery, crearQueryMaster, asignarQueryId, push, post.
ConectaQuery(q) ==
  /\ Va(DeQuery(q), "conectar", "escuchar")
  /\ \E p \in Pedidas : qm' = [qm EXCEPT ![q].prioridad = p]
  /\ colas' = [colas EXCEPT !["new"] = Append(@, q)]
  /\ sem' = [sem EXCEPT !["esperandoReady"] = @ + 1]
  /\ UNCHANGED <<varsWorkers, varsCanales>>

\* recibirPaquete returned NULL; is a worker running the query?
DetectaDesconexion(q) ==
  /\ socketQC[q] # "abierto"
  /\ Mira(DeQuery(q), "escuchar", WorkerEjecutandoQuery(q) # Ninguna,
          "desconectar", "buscarReady")

\* desconectarQueryControl, then enviarDesalojo of this query.
DesconectaEnExecute(q) ==
  LET h == DeQuery(q) IN
  /\ vivo /\ hilo[h].pc = "desconectar"
  /\ qm' = [qm EXCEPT ![q].desconectado = TRUE]
  /\ hilo' = [hilo EXCEPT ![h].pc = "buscar", ![h].victima = q]
  /\ UNCHANGED <<colas, sem, varsWorkers, vivo, varsCanales>>

\* The log line after enviarDesalojo reads the query once more.
RegistraDesconexion(q) == Mira(DeQuery(q), "registrar", TRUE, "fin", "fin")

\* Not running: is it in listaReady?  A query in neither is left alone.
BuscaEnReady(q) ==
  Mira(DeQuery(q), "buscarReady", Contains(colas["ready"], q), "desconectarReady", "fin")

DesconectaEnReady(q) ==
  PonCampo(DeQuery(q), "desconectarReady", "sacarReady", q, "desconectado", TRUE)

\* list_remove_element; semQueryReady keeps the count it had.
SacaDeReady(q) ==
  PonCola(DeQuery(q), "sacarReady", "codFinReady", "ready",
          {RemoveFirst(colas["ready"], q)})

PoneFinReady(q) == PonCampo(DeQuery(q), "codFinReady", "exitReady", q, "cod", "FIN")

ExitDeReady(q) == EncolaExit(DeQuery(q), "exitReady", "postExit")

-----------------------------------------------------------------------------
(* What ends the process.                                                  *)

\* A NULL t_query_master or t_worker is about to be dereferenced: an empty
\* queue or list, a position past the end, no worker found.
PunteroNulo(h) ==
  \/ hilo[h].pc = "sacaNew" /\ colas["new"] = <<>>
  \/ hilo[h].pc = "sacaDesalojo" /\ colas["desalojo"] = <<>>
  \/ hilo[h].pc = "esperar" /\ h[1] = "worker" /\ sem["ready"] > 0 /\ colas["ready"] = <<>>
  \/ hilo[h].pc = "esperar" /\ h[1] = "exit" /\ sem["exit"] > 0 /\ colas["exit"] = <<>>
  \/ hilo[h].pc = "tomar" /\ hilo[h].numero \notin 0 .. Len(colas["execute"]) - 1
  \/ hilo[h].pc = "buscar" /\ WorkerEjecutandoQuery(hilo[h].victima) = Ninguna

\* The queries whose fields the next step of h reads or writes.
SinQuery == {
  "fin", "conectar", "esperar", "cerrar", "sacaNew", "sacaDesalojo", "hayExecute",
  "todosTienen", "ultima", "tomar", "ordenar", "saliendo", "sacarExecute",
  "agregarExit", "codDesconectada", "liberarId", "escuchar", "buscarReady",
  "sacarReady", "exitReady" }
Toca(h) ==
  CASE hilo[h].pc \in SinQuery \/ (hilo[h].pc = "enviar" /\ Desaloja(h)) -> {}
    [] hilo[h].pc = "recibir" /\ aMaster[h[2]] = <<>> /\ socketWorker[h[2]] = "abierto" -> {}
    [] hilo[h].pc \in {"comparar", "buscar", "marcar"} -> {hilo[h].victima}
    [] hilo[h].pc = "serializar" -> {QueryEnviada(h)}
    [] OTHER -> {hilo[h].actual}

\* It uses a query that liberarQueryMaster freed, or a t_worker that its own
\* thread freed after enviarDesalojo found it.
UsoTrasLiberar(h) ==
  \/ \E q \in Toca(h) : qm[q].liberada # "no"
  \/ /\ Desaloja(h) /\ hilo[h].pc \in {"serializar", "enviar"}
     /\ hilo[DeWorker(hilo[h].destino)].pc = "fin"

\* liberarQueryMaster called twice for one query.
DobleLiberacion(h) ==
  /\ h = Exit /\ hilo[h].pc = "esperar" /\ sem["exit"] > 0 /\ colas["exit"] # <<>>
  /\ qm[Head(colas["exit"])].liberada # "no"

\* send() to a connection that was reset raises SIGPIPE, which nobody handles.
SocketRoto(h) ==
  \/ hilo[h].pc = "enviar" /\ socketWorker[WorkerDestino(h)] = "roto"
  \/ hilo[h].pc \in {"avisar", "responder"} /\ socketQC[hilo[h].actual] = "roto"

Muere == vivo /\ vivo' = FALSE /\ UNCHANGED <<colas, sem, varsWorkers, qm, hilo, varsCanales>>

FallaPunteroNulo(h) == PunteroNulo(h) /\ Muere
\* Undefined behaviour: the process may fault here, or go on with what the
\* freed memory still holds (the ordinary action of that label).
FallaUsoTrasLiberar(h) == UsoTrasLiberar(h) /\ Muere
FallaDobleLiberacion(h) == DobleLiberacion(h) /\ Muere
FallaSIGPIPE(h) == SocketRoto(h) /\ Muere

-----------------------------------------------------------------------------

PasoReady ==
  \/ ReadyEspera \/ ReadySaca("new", "sacaNew")
  \/ ReadySaca("desalojo", "sacaDesalojo") \/ ReadyCodEspera \/ ReadyPublica

PasoExit == ExitLibera \/ ExitCierra

PasoDesalojo(h) ==
  \/ VerificaHayExecute(h) \/ VerificaTodosTienen(h) \/ VerificaUltima(h)
  \/ VerificaToma(h) \/ VerificaPropia(h) \/ VerificaCompara(h)
  \/ DesalojoBusca(h) \/ DesalojoMarca(h) \/ Serializa(h) \/ Envia(h)
  \/ PublicaExit(h)

PasoAging(q) ==
  \/ AgingCondicion(q) \/ AgingDespierta(q) \/ AgingDisminuye(q)
  \/ AgingOrdena(q) \/ AgingSale(q)

PasoWorker(w) ==
  \/ ConectaWorker(w) \/ TomaReady(w) \/ AgregaExecute(w) \/ PoneEjecucion(w)
  \/ AsignaQuery(w) \/ RecibeRespuesta(w) \/ Responde(w) \/ Finaliza(w)
  \/ DesalojaSacaExecute(w) \/ DesalojaMiraQC(w) \/ DesalojaReencola(w) \/ DesalojaPublica(w)
  \/ DesalojaDesconectada(w) \/ DesalojaExit(w) \/ DesalojaLiberaId(w)
  \/ DetectaCaida(w) \/ AvisaFin(w) \/ SacaExecute(w) \/ AgregaExit(w)
  \/ PoneFin(w)

PasoQuery(q) ==
  \/ ConectaQuery(q) \/ DetectaDesconexion(q) \/ DesconectaEnExecute(q)
  \/ RegistraDesconexion(q) \/ BuscaEnReady(q) \/ DesconectaEnReady(q)
  \/ SacaDeReady(q) \/ PoneFinReady(q) \/ ExitDeReady(q)

PasoFalla(h) ==
  \/ FallaPunteroNulo(h) \/ FallaUsoTrasLiberar(h) \/ FallaDobleLiberacion(h)
  \/ FallaSIGPIPE(h)

=============================================================================
