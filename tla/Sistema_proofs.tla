--------------------------- MODULE Sistema_proofs ---------------------------
(***************************************************************************)
(* Theorems about Sistema, for any number of queries and Workers and any   *)
(* priorities.  TypeOK is not inductive: a label of a thread also says     *)
(* which of its local variables hold a query.  Tipos adds that, and Conteo *)
(* what each queue holds.                                                  *)
(***************************************************************************)
EXTENDS Sistema, Listas_proofs

-----------------------------------------------------------------------------
(* The strengthening.                                                      *)

Hilo ==
  [pc : Etiquetas, actual : Queries \cup {Ninguna},
   victima : Queries \cup {Ninguna}, numero : Int,
   destino : Workers \cup {Ninguna}, mensaje : Paquete \cup {Ninguna}]

\* Labels at which a thread may have no query, and those that have a victim.
SinActual == {"fin", "conectar", "esperar", "sacaNew", "sacaDesalojo"}
ConVictima == {"propia", "comparar", "buscar", "marcar"}

\* What the label of a thread tells of its local variables.
HiloBien(h, r) ==
  /\ r \in Hilo
  /\ r.pc \notin SinActual => r.actual \in Queries
  /\ h[1] \in {"aging", "query"} => r.actual = h[2]
  /\ r.pc \in ConVictima \/ (r.pc = "serializar" /\ Desaloja(h)) => r.victima \in Queries
  /\ r.pc = "enviar" => r.mensaje \in Paquete

HiloOK == hilo \in [Hilos -> Hilo] /\ \A h \in Hilos : HiloBien(h, hilo[h])

Registro ==
  [prioridad : 0 .. MaxPrioridad, cod : CodAccion, pc : 0 .. Largo,
   desconectado : BOOLEAN, agingIniciado : BOOLEAN,
   liberada : {"no", "query", "todo"}]

ColasOK == colas \in [Colas -> Seq(Queries)]
SemOK == sem \in [{"esperandoReady", "ready", "exit"} -> Nat]
WorkersOK ==
  /\ listaWorker \in Seq(Workers)
  /\ idQuery \in [Workers -> Queries \cup {Ninguna}]
QmOK == qm \in [Queries -> Registro]

MasterOK == ColasOK /\ SemOK /\ WorkersOK /\ QmOK /\ HiloOK /\ vivo \in BOOLEAN

\* What the label of an interpreter tells of its query and program counter.
InterpreteOK ==
  /\ TypeOKInterprete
  /\ \A w \in Workers :
       /\ queryActual[w] # NULL => queryActual[w].q \in Queries
       /\ ejec[w].en \in {"ejecutar", "verificar", "persistir"} => ejec[w].q \in Queries
       /\ ejec[w].en \in {"ejecutar", "verificar"} => ejec[w].pc < Largo

Tipos == TypeOKCanales /\ MasterOK /\ InterpreteOK

\* Tipos implies the type invariant.
LEMMA TiposTypeOK == Tipos => TypeOK
BY DEF Tipos, TypeOK, MasterOK, HiloOK, Hilo, ColasOK, SemOK, WorkersOK, QmOK,
       Registro, InterpreteOK, TypeOKMaster

\* The initial states satisfy it.
LEMMA TiposInit == Init => Tipos
<1> SUFFICES ASSUME Init PROVE Tipos
  OBVIOUS
<1> USE CanalesAssumption, MasterAssumption
<1>1. TypeOKCanales
  BY DEF Init, InitCanales, TypeOKCanales, EstadoSocket
<1>2. ColasOK /\ SemOK /\ WorkersOK /\ QmOK /\ vivo \in BOOLEAN
  BY DEF Init, InitMaster, ColasOK, SemOK, WorkersOK, QmOK, Registro, CodAccion
<1>3. HiloOK
  <2>1. \A h \in Hilos : HiloBien(h, Inicial(h))
    BY DEF Hilos, HiloBien, Inicial, Hilo, SinActual, ConVictima, Etiquetas
  <2> QED
    BY <2>1 DEF Init, InitMaster, HiloOK, HiloBien
<1>4. InterpreteOK
  BY DEF Init, InitInterprete, InterpreteOK, TypeOKInterprete, NULL
<1> QED
  BY <1>1, <1>2, <1>3, <1>4 DEF Tipos, MasterOK

-----------------------------------------------------------------------------
(* Steps of a thread.                                                      *)

\* One thread changes, to something good.
LEMMA HiloPaso ==
  ASSUME HiloOK, NEW h \in Hilos, NEW r, HiloBien(h, r), hilo' = [hilo EXCEPT ![h] = r]
  PROVE  HiloOK'
BY DEF HiloOK, HiloBien, Desaloja

\* The moves Va makes: none gives a thread a query, a victim or a packet.
Permitido(h, desde, hasta) ==
  /\ hasta \in Etiquetas
  /\ hasta \notin SinActual => desde \notin SinActual \/ h[1] \in {"aging", "query"}
  /\ hasta = "esperar" => h[1] \notin {"aging", "query"}
  /\ hasta \notin ConVictima \cup {"enviar"}
  /\ hasta = "serializar" => desde = "marcar" \/ ~Desaloja(h)

\* Va preserves the invariant of the threads.
LEMMA VaPaso ==
  ASSUME HiloOK, NEW h \in Hilos, NEW desde, NEW hasta,
         Va(h, desde, hasta), Permitido(h, desde, hasta)
  PROVE  HiloOK'
<1> DEFINE r == [hilo[h] EXCEPT !.pc = hasta,
                                !.actual = IF hasta = "esperar" THEN Ninguna ELSE @]
<1>1. hilo' = [hilo EXCEPT ![h] = r]
  BY DEF HiloOK, Va
<1>2. HiloBien(h, r)
  <2>1. h[1] \in {"aging", "query"} => h[2] \in Queries
    BY DEF Hilos
  <2>2. HiloBien(h, hilo[h]) /\ hilo[h].pc = desde
    BY DEF HiloOK, Va
  <2>3. r \in Hilo
    BY <2>2 DEF HiloBien, Hilo, Permitido
  <2> QED
    BY <2>1, <2>2, <2>3 DEF HiloBien, Hilo, SinActual, ConVictima, Permitido, Desaloja
<1> QED
  BY <1>1, <1>2, HiloPaso

\* A thread takes a query out of a queue.
LEMMA TomaPaso ==
  ASSUME HiloOK, NEW h \in Hilos, h[1] \notin {"aging", "query"}, NEW q \in Queries,
         NEW hasta \in Etiquetas \ (ConVictima \cup {"serializar", "enviar"}),
         hilo' = [hilo EXCEPT ![h].pc = hasta, ![h].actual = q]
  PROVE  HiloOK'
<1> DEFINE r == [hilo[h] EXCEPT !.pc = hasta, !.actual = q]
<1>1. hilo' = [hilo EXCEPT ![h] = r]
  BY DEF HiloOK
<1>2. HiloBien(h, hilo[h])
  BY DEF HiloOK
<1>3. r \in Hilo
  BY <1>2 DEF HiloBien, Hilo
<1>4. HiloBien(h, r)
  BY <1>2, <1>3 DEF HiloBien, Hilo
<1> QED
  BY <1>1, <1>4, HiloPaso

\* A thread looks at the state and moves.
LEMMA MiraTipos ==
  ASSUME Tipos, NEW h \in Hilos, NEW desde, NEW hasta, Va(h, desde, hasta),
         Permitido(h, desde, hasta),
         UNCHANGED <<colas, sem, varsWorkers, qm, varsCanales, varsInterprete>>
  PROVE  Tipos'
<1>1. HiloOK'
  BY VaPaso DEF Tipos, MasterOK
<1> QED
  BY <1>1 DEF Tipos, MasterOK, ColasOK, SemOK, WorkersOK, QmOK, Va, varsWorkers, varsCanales,
       varsInterprete, TypeOKCanales, InterpreteOK, TypeOKInterprete

\* What is left to show of an action of the Master, once its thread is good.
LEMMA Resto ==
  ASSUME Tipos, UNCHANGED <<vivo, varsInterprete>>,
         TypeOKCanales', HiloOK', ColasOK', SemOK', WorkersOK', QmOK'
  PROVE  Tipos'
BY DEF Tipos, MasterOK, varsInterprete, InterpreteOK, TypeOKInterprete

\* A thread sets one field of a query.
LEMMA PonCampoTipos ==
  ASSUME Tipos, UNCHANGED varsInterprete, NEW h \in Hilos, NEW desde, NEW hasta,
         NEW q \in Queries, NEW campo, NEW valor,
         PonCampo(h, desde, hasta, q, campo, valor),
         Permitido(h, desde, hasta),
         [qm[q] EXCEPT ![campo] = valor] \in Registro
  PROVE  Tipos'
<1>1. HiloOK'
  BY VaPaso DEF Tipos, MasterOK, PonCampo
<1>2. QmOK'
  BY DEF Tipos, MasterOK, QmOK, PonCampo
<1>3. TypeOKCanales' /\ ColasOK' /\ SemOK' /\ WorkersOK' /\ vivo' = vivo
  BY DEF Tipos, MasterOK, ColasOK, SemOK, WorkersOK, PonCampo, Va, varsWorkers, varsCanales,
         TypeOKCanales
<1> QED
  BY <1>1, <1>2, <1>3, Resto

\* A thread changes one queue.
LEMMA PonColaTipos ==
  ASSUME Tipos, UNCHANGED varsInterprete, NEW h \in Hilos, NEW desde, NEW hasta,
         NEW cola \in Colas, NEW valores,
         PonCola(h, desde, hasta, cola, valores),
         Permitido(h, desde, hasta),
         \A s \in valores : s \in Seq(Queries)
  PROVE  Tipos'
<1>1. HiloOK'
  BY VaPaso DEF Tipos, MasterOK, PonCola
<1>2. ColasOK'
  BY DEF Tipos, MasterOK, ColasOK, PonCola
<1>3. TypeOKCanales' /\ QmOK' /\ SemOK' /\ WorkersOK' /\ vivo' = vivo
  BY DEF Tipos, MasterOK, QmOK, SemOK, WorkersOK, PonCola, Va, varsWorkers, varsCanales,
         TypeOKCanales
<1> QED
  BY <1>1, <1>2, <1>3, Resto

\* A thread sets a local variable.
LEMMA AnotaTipos ==
  ASSUME Tipos, UNCHANGED varsInterprete, NEW h \in Hilos, NEW desde, NEW hasta,
         NEW campo, NEW valor,
         Anota(h, desde, hasta, campo, valor),
         HiloBien(h, [[hilo[h] EXCEPT !.pc = hasta] EXCEPT ![campo] = valor])
  PROVE  Tipos'
<1>1. HiloOK'
  <2>1. hilo' = [hilo EXCEPT ![h] = [[hilo[h] EXCEPT !.pc = hasta] EXCEPT ![campo] = valor]]
    BY DEF Anota, Tipos, MasterOK, HiloOK
  <2> QED
    BY <2>1, HiloPaso DEF Tipos, MasterOK
<1>2. TypeOKCanales' /\ ColasOK' /\ QmOK' /\ SemOK' /\ WorkersOK' /\ vivo' = vivo
  BY DEF Tipos, MasterOK, ColasOK, QmOK, SemOK, WorkersOK, Anota, varsWorkers, varsCanales,
         TypeOKCanales
<1> QED
  BY <1>1, <1>2, Resto

-----------------------------------------------------------------------------
(* What the lists and lookups return.                                      *)

\* agregarQueryMasterLista keeps a list of queries.
LEMMA InsercionesTipo ==
  ASSUME NEW lista \in Seq(Queries), NEW q \in Queries, NEW s \in Inserciones(lista, q)
  PROVE  s \in Seq(Queries) /\ Len(s) = Len(lista) + 1
<1>1. CASE Algoritmo = "FIFO"
  BY <1>1 DEF Inserciones
<1>2. CASE Algoritmo # "FIFO"
  <2>1. \E i \in 1 .. Len(lista) + 1 : s = InsertAt(lista, i, q)
    BY <1>2 DEF Inserciones
  <2> QED
    BY <2>1, InsertAtTipo
<1> QED
  BY <1>1, <1>2

\* ordenarListaQuerysMaster keeps a list of queries, of the same length.
LEMMA OrdenacionesTipo ==
  ASSUME NEW lista \in Seq(Queries), NEW s \in Ordenaciones(lista)
  PROVE  s \in Seq(Queries) /\ Len(s) = Len(lista)
<1>1. PICK f \in Bijection(DOMAIN lista, DOMAIN lista) : s = [i \in DOMAIN lista |-> lista[f[i]]]
  BY DEF Ordenaciones
<1>2. f \in [1 .. Len(lista) -> 1 .. Len(lista)]
  <2>1. DOMAIN lista = 1 .. Len(lista)
    OBVIOUS
  <2>2. f \in [DOMAIN lista -> DOMAIN lista]
    BY <1>1, Zenon DEF Bijection, Injection
  <2> QED
    BY <2>1, <2>2
<1>3. s = [i \in 1 .. Len(lista) |-> lista[f[i]]] /\ Len(lista) \in Nat
  BY <1>1
<1>4. \A i \in 1 .. Len(lista) : lista[f[i]] \in Queries
  BY <1>2
<1> QED
  BY <1>3, <1>4

\* obtenerWorkerEjecutandoQuery returns a Worker whose idQuery is the query.
LEMMA BuscaTipo ==
  ASSUME WorkersOK, NEW q
  PROVE  LET w == WorkerEjecutandoQuery(q) IN w = Ninguna \/ (w \in Workers /\ idQuery[w] = q)
<1> DEFINE P == PosicionesConQuery(q)
<1>1. CASE P = {}
  BY <1>1 DEF WorkerEjecutandoQuery
<1>2. CASE P # {}
  <2>1. P \in SUBSET Nat /\ \A i \in P : listaWorker[i] \in Workers /\ idQuery[listaWorker[i]] = q
    BY DEF PosicionesConQuery, WorkersOK
  <2>2. \E i \in P : \A j \in P : i <= j
    BY <1>2, <2>1, MinTipo
  <2>3. (CHOOSE i \in P : \A j \in P : i <= j) \in P
    BY <2>2
  <2> QED
    BY <1>2, <2>1, <2>3 DEF WorkerEjecutandoQuery
<1> QED
  BY <1>1, <1>2

-----------------------------------------------------------------------------
(* One lemma per process.                                                  *)

\* The threads are where Init put them.
LEMMA HilosTipo ==
  /\ Ready \in Hilos /\ Exit \in Hilos
  /\ \A q \in Queries : Aging(q) \in Hilos /\ DeQuery(q) \in Hilos
  /\ \A w \in Workers : DeWorker(w) \in Hilos
BY DEF Hilos, Ready, Exit, Aging, DeQuery, DeWorker

\* The first element and the rest of a queue that is not empty.
LEMMA CabezaTipo ==
  ASSUME NEW S, NEW s \in Seq(S), s # <<>>
  PROVE  Head(s) \in S /\ Tail(s) \in Seq(S) /\ Len(Tail(s)) = Len(s) - 1 /\ Len(s) > 0
BY HeadTailProperties, EmptySeq

\* The sends keep the types of the channels.
LEMMA EnviaAWorkerTipo ==
  ASSUME TypeOKCanales, NEW w, NEW p \in Paquete, EnviaAWorker(w, p)
  PROVE  TypeOKCanales'
<1>1. aWorker' \in [Workers -> Seq(Paquete)]
  <2>1. w \in Workers => Append(aWorker[w], p) \in Seq(Paquete)
    BY DEF TypeOKCanales
  <2> QED
    BY <2>1 DEF TypeOKCanales, EnviaAWorker
<1>2. socketWorker' \in [Workers -> EstadoSocket]
  BY DEF TypeOKCanales, EnviaAWorker, TrasEnviar, EstadoSocket
<1> QED
  BY <1>1, <1>2 DEF TypeOKCanales, EnviaAWorker

\* So does a packet to a Query Control.
LEMMA EnviaAQCTipo ==
  ASSUME TypeOKCanales, NEW q \in Queries, NEW cod, EnviaAQC(q, cod)
  PROVE  TypeOKCanales'
BY DEF TypeOKCanales, EnviaAQC, TrasEnviar, EstadoSocket

\* Thread ready.
LEMMA ReadyTipos == ASSUME Tipos, MasterReady PROVE Tipos'
<1> USE HilosTipo
<1>u. UNCHANGED varsInterprete
  BY DEF MasterReady
<1>1. CASE ReadyEspera
  <2>1. Permitido(Ready, "esperar", ColaSiguiente)
    BY DEF Permitido, Etiquetas, SinActual, ConVictima, ColaSiguiente, Ready
  <2>2. HiloOK'
    BY <1>1, <2>1, VaPaso DEF ReadyEspera, Tipos, MasterOK
  <2>3. SemOK'
    BY <1>1 DEF ReadyEspera, Tipos, MasterOK, SemOK
  <2>4. TypeOKCanales' /\ ColasOK' /\ QmOK' /\ WorkersOK' /\ vivo' = vivo
    BY <1>1 DEF ReadyEspera, Tipos, MasterOK, ColasOK, QmOK, WorkersOK, Va, varsWorkers,
           varsCanales, TypeOKCanales
  <2> QED
    BY <1>u, <2>2, <2>3, <2>4, Resto
<1>2. ASSUME NEW cola \in {"new", "desalojo"}, NEW desde, ReadySaca(cola, desde) PROVE Tipos'
  <2> DEFINE q == Head(colas[cola])
  <2>1. q \in Queries /\ Tail(colas[cola]) \in Seq(Queries) /\ colas["ready"] \in Seq(Queries)
    BY <1>2, CabezaTipo DEF ReadySaca, Tipos, MasterOK, ColasOK, Colas
  <2>2. PICK s \in Inserciones(colas["ready"], q) :
          colas' = [colas EXCEPT !["ready"] = s, ![cola] = Tail(@)]
    BY <1>2 DEF ReadySaca
  <2>3. s \in Seq(Queries)
    BY <2>1, <2>2, InsercionesTipo
  <2>4. ColasOK'
    BY <2>1, <2>2, <2>3 DEF Tipos, MasterOK, ColasOK, Colas
  <2>5. HiloOK'
    <3>1. Ready[1] \notin {"aging", "query"}
      BY DEF Ready
    <3>2. "codEspera" \in Etiquetas \ (ConVictima \cup {"serializar", "enviar"})
      BY DEF Etiquetas, ConVictima
    <3>3. hilo' = [hilo EXCEPT ![Ready].pc = "codEspera", ![Ready].actual = q]
      BY <1>2 DEF ReadySaca
    <3> HIDE DEF q
    <3> QED
      BY <2>1, <3>1, <3>2, <3>3, TomaPaso DEF Tipos, MasterOK
  <2>6. TypeOKCanales' /\ SemOK' /\ QmOK' /\ WorkersOK' /\ vivo' = vivo
    BY <1>2 DEF ReadySaca, Tipos, MasterOK, SemOK, QmOK, WorkersOK, varsWorkers,
           varsCanales, TypeOKCanales
  <2> QED
    BY <1>u, <2>4, <2>5, <2>6, Resto
<1>3. CASE ReadyCodEspera
  <2> DEFINE q == hilo[Ready].actual
             hasta == IF Algoritmo = "FIFO" THEN "comenzarAging" ELSE "hayExecute"
  <2>1. PonCampo(Ready, "codEspera", hasta, q, "cod", "ESPERA")
    BY <1>3 DEF ReadyCodEspera
  <2>2. q \in Queries
    BY <2>1 DEF PonCampo, Va, Tipos, MasterOK, HiloOK, HiloBien, SinActual
  <2>3. Permitido(Ready, "codEspera", hasta)
    BY DEF Permitido, Etiquetas, SinActual, ConVictima, Ready
  <2>4. [qm[q] EXCEPT !["cod"] = "ESPERA"] \in Registro
    BY <2>2 DEF Tipos, MasterOK, QmOK, Registro, CodAccion
  <2> HIDE DEF q, hasta
  <2> QED
    BY <1>u, <2>1, <2>2, <2>3, <2>4, PonCampoTipos
<1>4. CASE ReadyPublica
  <2> DEFINE q == hilo[Ready].actual
             ocioso == [hilo EXCEPT ![Ready] = Inicial(Ready)]
  <2>1. q \in Queries
    BY <1>4 DEF ReadyPublica, Tipos, MasterOK, HiloOK, HiloBien, SinActual
  <2>2. ocioso \in [Hilos -> Hilo] /\ \A h \in Hilos : HiloBien(h, ocioso[h])
    <3>1. HiloBien(Ready, Inicial(Ready))
      BY DEF HiloBien, Inicial, Ready, Hilo, Etiquetas, SinActual, ConVictima
    <3> QED
      BY <3>1 DEF Tipos, MasterOK, HiloOK, HiloBien
  <2>3. HiloOK'
    <3>1. CASE hilo' = ocioso
      BY <2>2, <3>1 DEF HiloOK, HiloBien, Desaloja
    <3>2. CASE hilo' = [ocioso EXCEPT ![Aging(q)].pc = "condicion"]
      <4> DEFINE r == [ocioso[Aging(q)] EXCEPT !.pc = "condicion"]
      <4> HIDE DEF ocioso
      <4>1. hilo' = [ocioso EXCEPT ![Aging(q)] = r]
        BY <2>1, <2>2, <3>2
      <4>2. HiloBien(Aging(q), r)
        BY <2>1, <2>2 DEF HiloBien, Hilo, Etiquetas, SinActual, ConVictima, Aging
      <4> QED
        BY <2>1, <2>2, <4>1, <4>2 DEF HiloOK, HiloBien, Desaloja
    <3> QED
      BY <1>4, <3>1, <3>2 DEF ReadyPublica
  <2>4. QmOK'
    BY <1>4, <2>1, MasterAssumption DEF ReadyPublica, DebeEnvejecer, Tipos, MasterOK, QmOK, Registro
  <2>5. SemOK'
    BY <1>4 DEF ReadyPublica, Tipos, MasterOK, SemOK
  <2>6. TypeOKCanales' /\ ColasOK' /\ WorkersOK' /\ vivo' = vivo
    BY <1>4 DEF ReadyPublica, Tipos, MasterOK, ColasOK, WorkersOK, varsWorkers,
           varsCanales, TypeOKCanales
  <2> QED
    BY <1>u, <2>3, <2>4, <2>5, <2>6, Resto
<1> QED
  BY <1>1, <1>2, <1>3, <1>4 DEF MasterReady, PasoReady

\* Thread exitStatus.
LEMMA ExitTipos == ASSUME Tipos, MasterExit PROVE Tipos'
<1> USE HilosTipo
<1>u. UNCHANGED varsInterprete
  BY DEF MasterExit
<1>1. CASE ExitLibera
  <2> DEFINE q == Head(colas["exit"])
  <2>1. q \in Queries /\ Tail(colas["exit"]) \in Seq(Queries)
    BY <1>1, CabezaTipo DEF ExitLibera, Tipos, MasterOK, ColasOK, Colas
  <2>2. ColasOK' /\ SemOK' /\ QmOK'
    <3>1. ColasOK'
      BY <1>1, <2>1 DEF ExitLibera, Tipos, MasterOK, ColasOK
    <3>2. SemOK'
      <4>1. sem["exit"] - 1 \in Nat
        BY <1>1 DEF ExitLibera, Tipos, MasterOK, SemOK
      <4> QED
        BY <1>1, <4>1 DEF ExitLibera, Tipos, MasterOK, SemOK
    <3>3. QmOK'
      BY <1>1, <2>1 DEF ExitLibera, Tipos, MasterOK, QmOK, Registro
    <3> QED
      BY <3>1, <3>2, <3>3
  <2>3. HiloOK'
    <3>1. Exit[1] \notin {"aging", "query"}
      BY DEF Exit
    <3>2. "cerrar" \in Etiquetas \ (ConVictima \cup {"serializar", "enviar"})
      BY DEF Etiquetas, ConVictima
    <3>3. hilo' = [hilo EXCEPT ![Exit].pc = "cerrar", ![Exit].actual = q]
      BY <1>1 DEF ExitLibera
    <3> HIDE DEF q
    <3> QED
      BY <2>1, <3>1, <3>2, <3>3, TomaPaso DEF Tipos, MasterOK
  <2>4. TypeOKCanales' /\ WorkersOK' /\ vivo' = vivo
    BY <1>1 DEF ExitLibera, Tipos, MasterOK, WorkersOK, varsWorkers, varsCanales, TypeOKCanales
  <2> QED
    BY <1>u, <2>2, <2>3, <2>4, Resto
<1>2. CASE ExitCierra
  <2> DEFINE q == hilo[Exit].actual
  <2>1. PonCampo(Exit, "cerrar", "esperar", q, "liberada", "todo")
    BY <1>2 DEF ExitCierra
  <2>2. q \in Queries
    BY <2>1 DEF PonCampo, Va, Tipos, MasterOK, HiloOK, HiloBien, SinActual
  <2>3. Permitido(Exit, "cerrar", "esperar")
    BY DEF Permitido, Etiquetas, SinActual, ConVictima, Exit
  <2>4. [qm[q] EXCEPT !["liberada"] = "todo"] \in Registro
    BY <2>2 DEF Tipos, MasterOK, QmOK, Registro
  <2> HIDE DEF q
  <2> QED
    BY <1>u, <2>1, <2>2, <2>3, <2>4, PonCampoTipos
<1> QED
  BY <1>1, <1>2 DEF MasterExit, PasoExit

\* The shared code of the threads that may evict, and the posts of colaExit.
LEMMA DesalojoTipos == ASSUME Tipos, NEW h \in Hilos, MasterDesalojo(h) PROVE Tipos'
<1>u. UNCHANGED varsInterprete
  BY DEF MasterDesalojo
<1>h. HiloBien(h, hilo[h]) /\ hilo[h] \in Hilo
  BY DEF Tipos, MasterOK, HiloOK
<1>r. Retorno(h) \in {"comenzarAging", "condicion", "registrar"}
  BY DEF Retorno
<1>1. CASE VerificaHayExecute(h)
  <2> DEFINE hasta == IF colas["execute"] # <<>> THEN "todosTienen" ELSE Retorno(h)
  <2>1. Permitido(h, "hayExecute", hasta)
    BY <1>r DEF Permitido, Etiquetas, SinActual, ConVictima
  <2>2. Va(h, "hayExecute", hasta)
    BY <1>1 DEF VerificaHayExecute, Mira
  <2> HIDE DEF hasta
  <2> QED
    BY <1>u, <1>1, <2>1, <2>2, MiraTipos DEF VerificaHayExecute, Mira
<1>2. CASE VerificaTodosTienen(h)
  <2> DEFINE hasta == IF TodosLosWorkersTienenQuery THEN "ultima" ELSE Retorno(h)
  <2>1. Permitido(h, "todosTienen", hasta)
    BY <1>r DEF Permitido, Etiquetas, SinActual, ConVictima
  <2>2. Va(h, "todosTienen", hasta)
    BY <1>2 DEF VerificaTodosTienen, Mira
  <2> HIDE DEF hasta
  <2> QED
    BY <1>u, <1>2, <2>1, <2>2, MiraTipos DEF VerificaTodosTienen, Mira
<1>3. CASE VerificaUltima(h)
  <2> DEFINE n == Len(colas["execute"]) - 1
  <2>1. n \in Int
    BY DEF Tipos, MasterOK, ColasOK, Colas
  <2>2. HiloBien(h, [[hilo[h] EXCEPT !.pc = "tomar"] EXCEPT !["numero"] = n])
    <3> HIDE DEF n
    <3> QED
      BY <1>h, <1>3, <2>1, ZenonT(30) DEF VerificaUltima, Anota, HiloBien, Hilo, Etiquetas, SinActual, ConVictima
  <2> QED
    BY <1>u, <1>3, <2>2, AnotaTipos DEF VerificaUltima
<1>4. CASE VerificaToma(h)
  <2> DEFINE v == colas["execute"][hilo[h].numero + 1]
  <2>1. v \in Queries
    BY <1>4, <1>h DEF VerificaToma, Tipos, MasterOK, ColasOK, Colas, Hilo
  <2>2. HiloBien(h, [[hilo[h] EXCEPT !.pc = "propia"] EXCEPT !["victima"] = v])
    <3> HIDE DEF v
    <3> QED
      BY <1>h, <1>4, <2>1, ZenonT(30) DEF VerificaToma, Anota, HiloBien, Hilo, Etiquetas, SinActual, ConVictima
  <2> QED
    BY <1>u, <1>4, <2>2, AnotaTipos DEF VerificaToma
<1>5. CASE VerificaPropia(h)
  <2> DEFINE n == qm[hilo[h].actual].prioridad
  <2>1. n \in Int
    BY <1>5, <1>h, MasterAssumption
    DEF VerificaPropia, Anota, HiloBien, SinActual, Tipos, MasterOK, QmOK, Registro
  <2>2. HiloBien(h, [[hilo[h] EXCEPT !.pc = "comparar"] EXCEPT !["numero"] = n])
    <3> HIDE DEF n
    <3> QED
      BY <1>h, <1>5, <2>1 DEF VerificaPropia, Anota, HiloBien, Hilo, Etiquetas, SinActual, ConVictima
  <2> QED
    BY <1>u, <1>5, <2>2, AnotaTipos DEF VerificaPropia
<1>6. CASE VerificaCompara(h)
  <2> DEFINE d == EsMasPrioritaria(hilo[h].numero, qm[hilo[h].victima].prioridad)
             e == IF d THEN "buscar" ELSE Retorno(h)
             v == IF d THEN hilo[h].victima ELSE Ninguna
             r == [hilo[h] EXCEPT !.pc = e, !.numero = 0, !.victima = v]
  <2>1. hilo' = [hilo EXCEPT ![h] = r]
    BY <1>6, Zenon DEF VerificaCompara
  <2>2. HiloBien(h, r)
    <3>1. hilo[h].actual \in Queries /\ hilo[h].victima \in Queries
      BY <1>h, <1>6 DEF VerificaCompara, HiloBien, SinActual, ConVictima
    <3>2. /\ e \in {"buscar", "comenzarAging", "condicion", "registrar"}
          /\ v \in Queries \cup {Ninguna}
          /\ e = "buscar" => v \in Queries
      BY <1>r, <3>1
    <3> HIDE DEF d, e, v
    <3>3. r.pc = e /\ r.actual = hilo[h].actual /\ r.victima = v
      BY <1>h DEF Hilo
    <3>4. r \in Hilo
      <4>1. e \in Etiquetas
        BY <3>2 DEF Etiquetas
      <4>2. v \in Queries \cup {Ninguna} /\ 0 \in Int
        BY <3>2
      <4> DEFINE r1 == [hilo[h] EXCEPT !.pc = e]
                 r2 == [r1 EXCEPT !.numero = 0]
      <4>3. r1 \in Hilo
        BY <1>h, <4>1 DEF Hilo
      <4>4. r2 \in Hilo
        <5> HIDE DEF r1
        <5> QED
          BY <4>2, <4>3 DEF Hilo
      <4>5. r = [r2 EXCEPT !.victima = v]
        OBVIOUS
      <4> HIDE DEF r1, r2
      <4> QED
        BY <4>2, <4>4, <4>5 DEF Hilo
    <3> QED
      BY <1>h, <3>1, <3>2, <3>3, <3>4 DEF HiloBien, ConVictima
  <2>3. HiloOK'
    BY <2>1, <2>2, HiloPaso DEF Tipos, MasterOK
  <2>4. TypeOKCanales' /\ ColasOK' /\ SemOK' /\ QmOK' /\ WorkersOK' /\ vivo' = vivo
    BY <1>6 DEF VerificaCompara, Tipos, MasterOK, ColasOK, SemOK, QmOK, WorkersOK, varsWorkers,
           varsCanales, TypeOKCanales
  <2> QED
    BY <1>u, <2>3, <2>4, Resto
<1>7. CASE DesalojoBusca(h)
  <2> DEFINE w == WorkerEjecutandoQuery(hilo[h].victima)
  <2>1. w \in Workers
    BY <1>7, BuscaTipo DEF DesalojoBusca, Tipos, MasterOK
  <2>2. HiloBien(h, [[hilo[h] EXCEPT !.pc = "marcar"] EXCEPT !["destino"] = w])
    <3> HIDE DEF w
    <3> QED
      BY <1>h, <1>7, <2>1 DEF DesalojoBusca, HiloBien, Hilo, Etiquetas, SinActual, ConVictima
  <2> QED
    BY <1>u, <1>7, <2>2, AnotaTipos DEF DesalojoBusca
<1>8. CASE DesalojoMarca(h)
  <2> DEFINE q == hilo[h].victima
  <2>1. q \in Queries
    BY <1>h, <1>8 DEF DesalojoMarca, PonCampo, Va, HiloBien, ConVictima
  <2>2. [qm[q] EXCEPT !["cod"] = "DESALOJO"] \in Registro
    BY <2>1 DEF Tipos, MasterOK, QmOK, Registro, CodAccion
  <2>3. Permitido(h, "marcar", "serializar")
    BY DEF Permitido, Etiquetas, SinActual, ConVictima
  <2> HIDE DEF q
  <2>4. PonCampo(h, "marcar", "serializar", q, "cod", "DESALOJO")
    BY <1>8 DEF DesalojoMarca, q
  <2> QED
    BY <1>u, <2>1, <2>2, <2>3, <2>4, PonCampoTipos
<1>9. CASE Serializa(h)
  <2> DEFINE q == QueryEnviada(h)
             p == [q |-> q, cod |-> qm[q].cod, pc |-> qm[q].pc]
  <2>1. q \in Queries
    BY <1>h, <1>9 DEF Serializa, Anota, QueryEnviada, HiloBien, SinActual
  <2>2. p \in Paquete
    BY <2>1 DEF Paquete, Tipos, MasterOK, QmOK, Registro
  <2>3. HiloBien(h, [[hilo[h] EXCEPT !.pc = "enviar"] EXCEPT !["mensaje"] = p])
    <3> HIDE DEF p
    <3> QED
      BY <1>h, <1>9, <2>2, ZenonT(30) DEF Serializa, Anota, HiloBien, Hilo, Etiquetas, SinActual, ConVictima
  <2> QED
    BY <1>u, <1>9, <2>3, AnotaTipos DEF Serializa
<1>10. CASE Envia(h)
  <2> DEFINE e == IF Desaloja(h) THEN Retorno(h) ELSE "recibir"
             r == [hilo[h] EXCEPT !.pc = e, !.mensaje = Ninguna, !.victima = Ninguna,
                                  !.destino = Ninguna]
  <2>1. hilo' = [hilo EXCEPT ![h] = r]
    BY <1>10, Zenon DEF Envia
  <2>2. hilo[h].pc = "enviar" /\ hilo[h].mensaje \in Paquete
    BY <1>h, <1>10 DEF Envia, HiloBien
  <2>3. HiloBien(h, r)
    <3>1. hilo[h].actual \in Queries
      BY <1>h, <2>2 DEF HiloBien, SinActual
    <3>2. e \in {"comenzarAging", "condicion", "registrar", "recibir"}
      BY <1>r
    <3> HIDE DEF e
    <3>3. r \in Hilo /\ r.pc = e /\ r.actual = hilo[h].actual
      BY <1>h, <3>2, ZenonT(30) DEF Hilo, Etiquetas
    <3> QED
      BY <1>h, <3>1, <3>2, <3>3 DEF HiloBien, ConVictima
  <2>4. HiloOK'
    BY <2>1, <2>3, HiloPaso DEF Tipos, MasterOK
  <2>5. TypeOKCanales'
    BY <1>10, <2>2, EnviaAWorkerTipo DEF Envia, Tipos
  <2>6. ColasOK' /\ SemOK' /\ QmOK' /\ WorkersOK' /\ vivo' = vivo
    BY <1>10 DEF Envia, Tipos, MasterOK, ColasOK, SemOK, QmOK, WorkersOK, varsWorkers
  <2> QED
    BY <1>u, <2>4, <2>5, <2>6, Resto
<1>11. CASE PublicaExit(h)
  <2>1. Permitido(h, "postExit", IF h[1] = "worker" THEN "liberarId" ELSE "fin")
    BY DEF Permitido, Etiquetas, SinActual, ConVictima
  <2>2. HiloOK'
    BY <1>11, <2>1, VaPaso DEF PublicaExit, Tipos, MasterOK
  <2>3. TypeOKCanales' /\ ColasOK' /\ SemOK' /\ QmOK' /\ WorkersOK' /\ vivo' = vivo
    BY <1>11 DEF PublicaExit, Va, Tipos, MasterOK, ColasOK, SemOK, QmOK, WorkersOK, varsWorkers,
           varsCanales, TypeOKCanales
  <2> QED
    BY <1>u, <2>2, <2>3, Resto
<1> QED
  BY <1>1, <1>2, <1>3, <1>4, <1>5, <1>6, <1>7, <1>8, <1>9, <1>10, <1>11
  DEF MasterDesalojo, PasoDesalojo

\* The aging thread of a query.
LEMMA AgingTipos == ASSUME Tipos, NEW q \in Queries, MasterAging(q) PROVE Tipos'
<1> DEFINE h == Aging(q)
<1>u. UNCHANGED varsInterprete
  BY DEF MasterAging
<1>h. h \in Hilos /\ h[1] = "aging"
  BY HilosTipo DEF Aging
<1>p. \A desde \in Etiquetas, hasta \in {"dormido", "saliendo", "disminuir", "condicion",
        "ordenar", "hayExecute", "fin"} : Permitido(h, desde, hasta)
  BY <1>h DEF Permitido, Etiquetas, SinActual, ConVictima
<1>1. CASE AgingCondicion(q)
  <2> DEFINE hasta == IF SigueEnvejeciendo(q) THEN "dormido" ELSE "saliendo"
  <2>1. Permitido(h, "condicion", hasta)
    BY <1>p DEF Etiquetas
  <2>2. Va(h, "condicion", hasta)
    BY <1>1 DEF AgingCondicion, Mira
  <2> HIDE DEF hasta, h
  <2> QED
    BY <1>u, <1>h, <1>1, <2>1, <2>2, MiraTipos DEF AgingCondicion, Mira
<1>2. CASE AgingDespierta(q)
  <2> DEFINE hasta == IF SigueEnvejeciendo(q) THEN "disminuir" ELSE "condicion"
  <2>1. Permitido(h, "dormido", hasta)
    BY <1>p DEF Etiquetas
  <2>2. Va(h, "dormido", hasta)
    BY <1>2 DEF AgingDespierta, Mira
  <2> HIDE DEF hasta, h
  <2> QED
    BY <1>u, <1>h, <1>2, <2>1, <2>2, MiraTipos DEF AgingDespierta, Mira
<1>3. CASE AgingDisminuye(q)
  <2> DEFINE n == IF qm[q].prioridad > 0 THEN qm[q].prioridad - 1 ELSE 0
  <2>1. n \in 0 .. MaxPrioridad
    BY MasterAssumption DEF Tipos, MasterOK, QmOK, Registro
  <2>2. PonCampo(h, "disminuir", "ordenar", q, "prioridad", n)
    BY <1>3 DEF AgingDisminuye
  <2> HIDE DEF n, h
  <2>3. [qm[q] EXCEPT !["prioridad"] = n] \in Registro
    BY <2>1 DEF Tipos, MasterOK, QmOK, Registro
  <2> QED
    BY <1>u, <1>h, <1>p, <2>2, <2>3, PonCampoTipos DEF Etiquetas
<1>4. CASE AgingOrdena(q)
  <2>1. PonCola(h, "ordenar", "hayExecute", "ready", Ordenaciones(colas["ready"]))
    BY <1>4 DEF AgingOrdena
  <2>2. \A s \in Ordenaciones(colas["ready"]) : s \in Seq(Queries)
    BY OrdenacionesTipo DEF Tipos, MasterOK, ColasOK, Colas
  <2> HIDE DEF h
  <2> QED
    BY <1>u, <1>h, <1>p, <2>1, <2>2, PonColaTipos DEF Etiquetas, Colas
<1>5. CASE AgingSale(q)
  <2>1. PonCampo(h, "saliendo", "fin", q, "agingIniciado", FALSE)
    BY <1>5 DEF AgingSale
  <2>2. [qm[q] EXCEPT !["agingIniciado"] = FALSE] \in Registro
    BY DEF Tipos, MasterOK, QmOK, Registro
  <2> HIDE DEF h
  <2> QED
    BY <1>u, <1>h, <1>p, <2>1, <2>2, PonCampoTipos DEF Etiquetas
<1> QED
  BY <1>1, <1>2, <1>3, <1>4, <1>5 DEF MasterAging, PasoAging

\* A push to colaExit, by a Worker thread or by the thread of a Query Control.
LEMMA EncolaExitTipos ==
  ASSUME Tipos, UNCHANGED varsInterprete, NEW h \in Hilos, NEW desde, NEW hasta,
         EncolaExit(h, desde, hasta), Permitido(h, desde, hasta), desde \notin SinActual
  PROVE  Tipos'
<1> DEFINE V == {Append(colas["exit"], hilo[h].actual)}
<1>1. PonCola(h, desde, hasta, "exit", V)
  BY DEF EncolaExit
<1>2. hilo[h].actual \in Queries
  BY DEF EncolaExit, PonCola, Va, Tipos, MasterOK, HiloOK, HiloBien
<1>3. \A s \in V : s \in Seq(Queries)
  <2>1. colas["exit"] \in Seq(Queries)
    BY DEF Tipos, MasterOK, ColasOK, Colas
  <2>2. Append(colas["exit"], hilo[h].actual) \in Seq(Queries)
    BY <1>2, <2>1, AppendProperties
  <2> QED
    BY <2>2
<1> HIDE DEF V
<1> QED
  BY <1>1, <1>3, PonColaTipos DEF Colas

\* The thread that serves a Query Control.
LEMMA QueryTipos == ASSUME Tipos, NEW q \in Queries, MasterQuery(q) PROVE Tipos'
<1> DEFINE h == DeQuery(q)
<1>u. UNCHANGED varsInterprete
  BY DEF MasterQuery
<1>h. h \in Hilos /\ h[1] = "query"
  BY HilosTipo DEF DeQuery
<1>p. \A desde \in Etiquetas, hasta \in {"escuchar", "desconectar", "buscarReady", "fin",
        "desconectarReady", "sacarReady", "codFinReady", "exitReady", "postExit"} :
        Permitido(h, desde, hasta)
  BY <1>h DEF Permitido, Etiquetas, SinActual, ConVictima
<1>1. CASE ConectaQuery(q)
  <2>1. HiloOK'
    <3>1. Va(h, "conectar", "escuchar") /\ Permitido(h, "conectar", "escuchar")
      BY <1>1, <1>p DEF ConectaQuery, Etiquetas
    <3> HIDE DEF h
    <3> QED
      BY <1>h, <3>1, VaPaso DEF Tipos, MasterOK
  <2>2. QmOK'
    <3>1. PICK p \in Pedidas : qm' = [qm EXCEPT ![q].prioridad = p]
      BY <1>1 DEF ConectaQuery
    <3>2. p \in 0 .. MaxPrioridad
      BY MasterAssumption
    <3> QED
      BY <3>1, <3>2 DEF Tipos, MasterOK, QmOK, Registro
  <2>3. ColasOK' /\ SemOK'
    BY <1>1 DEF ConectaQuery, Tipos, MasterOK, ColasOK, SemOK, Colas
  <2>4. TypeOKCanales' /\ WorkersOK' /\ vivo' = vivo
    BY <1>1 DEF ConectaQuery, Va, Tipos, MasterOK, WorkersOK, varsWorkers, varsCanales, TypeOKCanales
  <2> QED
    BY <1>u, <2>1, <2>2, <2>3, <2>4, Resto
<1>2. CASE DetectaDesconexion(q)
  <2> DEFINE hasta == IF WorkerEjecutandoQuery(q) # Ninguna THEN "desconectar" ELSE "buscarReady"
  <2>1. Permitido(h, "escuchar", hasta)
    BY <1>p DEF Etiquetas
  <2>2. Va(h, "escuchar", hasta)
    BY <1>2 DEF DetectaDesconexion, Mira
  <2> HIDE DEF hasta, h
  <2> QED
    BY <1>u, <1>h, <1>2, <2>1, <2>2, MiraTipos DEF DetectaDesconexion, Mira
<1>3. CASE DesconectaEnExecute(q)
  <2> DEFINE r == [hilo[h] EXCEPT !.pc = "buscar", !.victima = q]
  <2>1. hilo' = [hilo EXCEPT ![h] = r]
    BY <1>3, <1>h DEF DesconectaEnExecute, Tipos, MasterOK, HiloOK
  <2>2. HiloBien(h, r)
    <3> HIDE DEF h
    <3>1. HiloBien(h, hilo[h]) /\ hilo[h].pc = "desconectar"
      BY <1>h, <1>3 DEF DesconectaEnExecute, Tipos, MasterOK, HiloOK, h
    <3>2. r \in Hilo /\ r.pc = "buscar" /\ r.victima = q /\ r.actual = hilo[h].actual
      BY <3>1, ZenonT(30) DEF HiloBien, Hilo, Etiquetas
    <3> QED
      BY <3>1, <3>2 DEF HiloBien, SinActual
  <2>3. HiloOK'
    <3> HIDE DEF h, r
    <3> QED
      BY <1>h, <2>1, <2>2, HiloPaso DEF Tipos, MasterOK
  <2>4. QmOK'
    BY <1>3 DEF DesconectaEnExecute, Tipos, MasterOK, QmOK, Registro
  <2>5. TypeOKCanales' /\ ColasOK' /\ SemOK' /\ WorkersOK' /\ vivo' = vivo
    BY <1>3 DEF DesconectaEnExecute, Tipos, MasterOK, ColasOK, SemOK, WorkersOK, varsWorkers,
           varsCanales, TypeOKCanales
  <2> QED
    BY <1>u, <2>3, <2>4, <2>5, Resto
<1>4. CASE RegistraDesconexion(q)
  <2>1. Va(h, "registrar", "fin")
    BY <1>4 DEF RegistraDesconexion, Mira
  <2> HIDE DEF h
  <2> QED
    BY <1>u, <1>h, <1>p, <1>4, <2>1, MiraTipos DEF RegistraDesconexion, Mira, Etiquetas
<1>5. CASE BuscaEnReady(q)
  <2> DEFINE hasta == IF Contains(colas["ready"], q) THEN "desconectarReady" ELSE "fin"
  <2>1. Permitido(h, "buscarReady", hasta)
    BY <1>p DEF Etiquetas
  <2>2. Va(h, "buscarReady", hasta)
    BY <1>5 DEF BuscaEnReady, Mira
  <2> HIDE DEF hasta, h
  <2> QED
    BY <1>u, <1>h, <1>5, <2>1, <2>2, MiraTipos DEF BuscaEnReady, Mira
<1>6. CASE DesconectaEnReady(q)
  <2>1. PonCampo(h, "desconectarReady", "sacarReady", q, "desconectado", TRUE)
    BY <1>6 DEF DesconectaEnReady
  <2>2. [qm[q] EXCEPT !["desconectado"] = TRUE] \in Registro
    BY DEF Tipos, MasterOK, QmOK, Registro
  <2> HIDE DEF h
  <2> QED
    BY <1>u, <1>h, <1>p, <2>1, <2>2, PonCampoTipos DEF Etiquetas
<1>7. CASE SacaDeReady(q)
  <2> DEFINE V == {RemoveFirst(colas["ready"], q)}
  <2>1. PonCola(h, "sacarReady", "codFinReady", "ready", V)
    BY <1>7 DEF SacaDeReady
  <2>2. \A s \in V : s \in Seq(Queries)
    <3>1. colas["ready"] \in Seq(Queries)
      BY DEF Tipos, MasterOK, ColasOK, Colas
    <3> QED
      BY <3>1, RemoveFirstTipo
  <2> HIDE DEF h, V
  <2> QED
    BY <1>u, <1>h, <1>p, <2>1, <2>2, PonColaTipos DEF Etiquetas, Colas
<1>8. CASE PoneFinReady(q)
  <2>1. PonCampo(h, "codFinReady", "exitReady", q, "cod", "FIN")
    BY <1>8 DEF PoneFinReady
  <2>2. [qm[q] EXCEPT !["cod"] = "FIN"] \in Registro
    BY DEF Tipos, MasterOK, QmOK, Registro, CodAccion
  <2> HIDE DEF h
  <2> QED
    BY <1>u, <1>h, <1>p, <2>1, <2>2, PonCampoTipos DEF Etiquetas
<1>9. CASE ExitDeReady(q)
  <2>1. EncolaExit(h, "exitReady", "postExit")
    BY <1>9 DEF ExitDeReady
  <2> HIDE DEF h
  <2> QED
    BY <1>u, <1>h, <1>p, <2>1, EncolaExitTipos DEF Etiquetas, SinActual
<1> QED
  BY <1>1, <1>2, <1>3, <1>4, <1>5, <1>6, <1>7, <1>8, <1>9 DEF MasterQuery, PasoQuery

\* The end of the Master.
LEMMA FallaTipos == ASSUME Tipos, NEW h \in Hilos, MasterFalla(h) PROVE Tipos'
<1>1. Muere /\ UNCHANGED varsInterprete
  BY DEF MasterFalla, PasoFalla, FallaPunteroNulo, FallaUsoTrasLiberar, FallaDobleLiberacion,
         FallaSIGPIPE
<1> QED
  BY <1>1 DEF Muere, Tipos, MasterOK, ColasOK, SemOK, WorkersOK, QmOK, HiloOK, HiloBien, Desaloja,
       varsWorkers, varsCanales, varsInterprete, TypeOKCanales, InterpreteOK, TypeOKInterprete

\* A Query Control closes its end.
LEMMA CierraQCTipos ==
  ASSUME Tipos, NEW q \in Queries, QCTermina(q) \/ QCAbandona(q)
  PROVE  Tipos'
<1>1. PICK estado \in {"cerrado", "roto"} : CierraQC(q, estado)
  BY DEF QCTermina, QCAbandona
<1> QED
  BY <1>1 DEF CierraQC, Tipos, MasterOK, ColasOK, SemOK, WorkersOK, QmOK, HiloOK, HiloBien, Desaloja,
       varsMaster, varsWorkers, varsInterprete, TypeOKCanales, EstadoSocket, InterpreteOK,
       TypeOKInterprete

\* The thread that serves a Worker.
LEMMA WorkerTipos == ASSUME Tipos, NEW w \in Workers, MasterWorker(w) PROVE Tipos'
<1> DEFINE h == DeWorker(w)
           q == Suya(w)
<1>u. UNCHANGED varsInterprete
  BY DEF MasterWorker
<1>h. h \in Hilos /\ h[1] = "worker" /\ h[2] = w /\ ~Desaloja(h)
  BY HilosTipo DEF DeWorker, Desaloja
<1>s. q = hilo[h].actual
  BY DEF Suya
<1>q. hilo[h].pc \notin SinActual => q \in Queries
  BY <1>h, <1>s DEF Tipos, MasterOK, HiloOK, HiloBien
<1>p. \A desde \in Etiquetas \ SinActual,
         hasta \in Etiquetas \ (ConVictima \cup {"enviar"}) : Permitido(h, desde, hasta)
  BY <1>h DEF Permitido
<1>c. colas["execute"] \in Seq(Queries) /\ colas["desalojo"] \in Seq(Queries)
      /\ colas["ready"] \in Seq(Queries) /\ colas["exit"] \in Seq(Queries)
  BY DEF Tipos, MasterOK, ColasOK, Colas
\* One step for the actions that change one field of the query, ...
<1>m. ASSUME NEW desde \in Etiquetas \ SinActual,
             NEW hasta \in Etiquetas \ (ConVictima \cup {"enviar"}),
             NEW cod \in CodAccion, PonCampo(h, desde, hasta, q, "cod", cod)
      PROVE  Tipos'
  <2>1. q \in Queries
    BY <1>m, <1>q DEF PonCampo, Va
  <2>2. [qm[q] EXCEPT !["cod"] = cod] \in Registro
    BY <2>1 DEF Tipos, MasterOK, QmOK, Registro
  <2> HIDE DEF h, q
  <2> QED
    BY <1>u, <1>h, <1>p, <1>m, <2>1, <2>2, PonCampoTipos
\* ... one list or queue, ...
<1>l. ASSUME NEW desde \in Etiquetas \ SinActual,
             NEW hasta \in Etiquetas \ (ConVictima \cup {"enviar"}),
             NEW cola \in Colas, NEW V,
             PonCola(h, desde, hasta, cola, V), q \in Queries => \A s \in V : s \in Seq(Queries)
      PROVE  Tipos'
  <2>1. q \in Queries
    BY <1>l, <1>q DEF PonCola, Va
  <2> HIDE DEF h, q
  <2> QED
    BY <1>u, <1>h, <1>p, <1>l, <2>1, PonColaTipos
\* ... or the idQuery of the Worker.
<1>i. ASSUME NEW desde \in Etiquetas \ SinActual,
             NEW hasta \in Etiquetas \ (ConVictima \cup {"enviar"}),
             NEW id, PoneIdQuery(w, desde, hasta, id), q \in Queries => id \in Queries \cup {Ninguna}
      PROVE  Tipos'
  <2>1. Va(h, desde, hasta)
    BY <1>i DEF PoneIdQuery
  <2>2. id \in Queries \cup {Ninguna}
    BY <1>i, <1>q, <2>1 DEF Va
  <2>3. HiloOK'
    <3> HIDE DEF h
    <3> QED
      BY <1>h, <1>p, <2>1, VaPaso DEF Tipos, MasterOK
  <2>4. WorkersOK'
    BY <1>i, <2>2 DEF PoneIdQuery, Tipos, MasterOK, WorkersOK
  <2>5. TypeOKCanales' /\ ColasOK' /\ SemOK' /\ QmOK' /\ vivo' = vivo
    BY <1>i DEF PoneIdQuery, Va, Tipos, MasterOK, ColasOK, SemOK, QmOK, varsCanales, TypeOKCanales
  <2> QED
    BY <1>u, <2>3, <2>4, <2>5, Resto
<1>1. CASE ConectaWorker(w)
  <2>1. Va(h, "conectar", "esperar") /\ Permitido(h, "conectar", "esperar")
    BY <1>1, <1>h DEF ConectaWorker, Permitido, Etiquetas, SinActual, ConVictima
  <2>2. HiloOK'
    <3> HIDE DEF h
    <3> QED
      BY <1>h, <2>1, VaPaso DEF Tipos, MasterOK
  <2>3. WorkersOK'
    BY <1>1 DEF ConectaWorker, Tipos, MasterOK, WorkersOK
  <2>4. TypeOKCanales' /\ ColasOK' /\ SemOK' /\ QmOK' /\ vivo' = vivo
    BY <1>1 DEF ConectaWorker, Va, Tipos, MasterOK, ColasOK, SemOK, QmOK, varsCanales, TypeOKCanales
  <2> QED
    BY <1>u, <2>2, <2>3, <2>4, Resto
<1>2. CASE TomaReady(w)
  <2> DEFINE c == Head(colas["ready"])
  <2>1. c \in Queries /\ Tail(colas["ready"]) \in Seq(Queries)
    BY <1>2, <1>c, CabezaTipo DEF TomaReady
  <2>2. HiloOK'
    <3>1. hilo' = [hilo EXCEPT ![h].pc = "agregar", ![h].actual = c]
      BY <1>2 DEF TomaReady
    <3>2. "agregar" \in Etiquetas \ (ConVictima \cup {"serializar", "enviar"})
      BY DEF Etiquetas, ConVictima
    <3> HIDE DEF h, c
    <3> QED
      BY <1>h, <2>1, <3>1, <3>2, TomaPaso DEF Tipos, MasterOK
  <2>3. ColasOK'
    BY <1>2, <2>1 DEF TomaReady, Tipos, MasterOK, ColasOK
  <2>4. SemOK'
    <3>1. sem["ready"] - 1 \in Nat
      BY <1>2 DEF TomaReady, Tipos, MasterOK, SemOK
    <3> QED
      BY <1>2, <3>1 DEF TomaReady, Tipos, MasterOK, SemOK
  <2>5. TypeOKCanales' /\ WorkersOK' /\ QmOK' /\ vivo' = vivo
    BY <1>2 DEF TomaReady, Tipos, MasterOK, WorkersOK, QmOK, varsWorkers, varsCanales, TypeOKCanales
  <2> QED
    BY <1>u, <2>2, <2>3, <2>4, <2>5, Resto
<1>3. CASE AgregaExecute(w)
  <2>1. q \in Queries => \A s \in Inserciones(colas["execute"], q) : s \in Seq(Queries)
    BY <1>c, InsercionesTipo
  <2> QED
    BY <1>3, <1>l, <2>1 DEF AgregaExecute, Etiquetas, SinActual, ConVictima, Colas
<1>4. CASE PoneEjecucion(w)
  BY <1>4, <1>m DEF PoneEjecucion, Etiquetas, SinActual, ConVictima, CodAccion
<1>5. CASE AsignaQuery(w)
  BY <1>5, <1>i DEF AsignaQuery, Etiquetas, SinActual, ConVictima
<1>6. CASE RecibeRespuesta(w)
  <2> DEFINE r == Head(aMaster[w])
             hasta == Destino(r.cod)
  <2>1. r \in Paquete /\ Tail(aMaster[w]) \in Seq(Paquete)
    BY <1>6, CabezaTipo DEF RecibeRespuesta, Tipos, TypeOKCanales
  <2>2. Va(h, "recibir", hasta)
    BY <1>6 DEF RecibeRespuesta
  <2>3. HiloOK'
    <3>1. hasta \in Etiquetas \ (ConVictima \cup {"enviar"}) /\ "recibir" \in Etiquetas \ SinActual
      BY DEF Destino, Etiquetas, ConVictima, SinActual
    <3> HIDE DEF h, hasta
    <3> QED
      BY <1>h, <1>p, <2>2, <3>1, VaPaso DEF Tipos, MasterOK
  <2>4. q \in Queries
    BY <1>q, <2>2 DEF Va, SinActual
  <2>5. QmOK'
    <3>1. r.cod \in CodAccion /\ r.pc \in 0 .. Largo
      BY <2>1 DEF Paquete
    <3>2. qm[q] \in Registro
      BY <2>4 DEF Tipos, MasterOK, QmOK
    <3> DEFINE n == IF r.cod = "DESALOJO" THEN r.pc ELSE qm[q].pc
    <3>3. n \in 0 .. Largo
      BY <3>1, <3>2 DEF Registro
    <3>4. qm' = [qm EXCEPT ![q] = [qm[q] EXCEPT !.cod = r.cod, !.pc = n]]
      BY <1>6, <2>4 DEF RecibeRespuesta, Tipos, MasterOK, QmOK, Registro
    <3> HIDE DEF r, n, q
    <3>5. [qm[q] EXCEPT !.cod = r.cod, !.pc = n] \in Registro
      BY <3>1, <3>2, <3>3 DEF Registro
    <3> QED
      BY <3>4, <3>5 DEF Tipos, MasterOK, QmOK
  <2>6. TypeOKCanales'
    BY <1>6, <2>1 DEF RecibeRespuesta, Tipos, TypeOKCanales
  <2>7. ColasOK' /\ SemOK' /\ WorkersOK' /\ vivo' = vivo
    BY <1>6 DEF RecibeRespuesta, Va, Tipos, MasterOK, ColasOK, SemOK, WorkersOK, varsWorkers
  <2> QED
    BY <1>u, <2>3, <2>5, <2>6, <2>7, Resto
<1>7. CASE Responde(w)
  <2>1. Va(h, "responder", "recibir")
    BY <1>7 DEF Responde
  <2>2. HiloOK'
    <3>1. "recibir" \in Etiquetas \ (ConVictima \cup {"enviar"}) /\ "responder" \in Etiquetas \ SinActual
      BY DEF Etiquetas, ConVictima, SinActual
    <3> HIDE DEF h
    <3> QED
      BY <1>h, <1>p, <2>1, <3>1, VaPaso DEF Tipos, MasterOK
  <2>3. q \in Queries
    BY <1>q, <2>1 DEF Va, SinActual
  <2>4. QmOK'
    BY <1>7, <2>3 DEF Responde, Tipos, MasterOK, QmOK, Registro, CodAccion
  <2>5. TypeOKCanales'
    BY <1>7, <2>3, EnviaAQCTipo DEF Responde, Tipos
  <2>6. ColasOK' /\ SemOK' /\ WorkersOK' /\ vivo' = vivo
    BY <1>7 DEF Responde, Va, Tipos, MasterOK, ColasOK, SemOK, WorkersOK, varsWorkers
  <2> QED
    BY <1>u, <2>2, <2>4, <2>5, <2>6, Resto
<1>8. CASE Finaliza(w)
  BY <1>8, <1>i DEF Finaliza, Etiquetas, SinActual, ConVictima
<1>9. CASE DesalojaSacaExecute(w) \/ SacaExecute(w)
  <2> DEFINE V == {RemoveFirst(colas["execute"], q)}
  <2>1. \A s \in V : s \in Seq(Queries)
    BY <1>c, RemoveFirstTipo
  <2>2. \/ PonCola(h, "desalojar", "mirarQC", "execute", V)
        \/ PonCola(h, "sacarExecute", "agregarExit", "execute", V)
    BY <1>9 DEF DesalojaSacaExecute, SacaExecute
  <2> HIDE DEF h, q, V
  <2> QED
    BY <1>l, <2>1, <2>2 DEF Etiquetas, SinActual, ConVictima, Colas
<1>10. CASE DesalojaReencola(w)
  <2> DEFINE V == {Append(colas["desalojo"], q)}
  <2>1. q \in Queries => \A s \in V : s \in Seq(Queries)
    <3>1. q \in Queries => Append(colas["desalojo"], q) \in Seq(Queries)
      BY <1>c, AppendProperties
    <3> QED
      BY <3>1
  <2>2. PonCola(h, "reencolar", "codReencolada", "desalojo", V)
    BY <1>10 DEF DesalojaReencola
  <2> HIDE DEF h, q, V
  <2> QED
    BY <1>l, <2>1, <2>2 DEF Etiquetas, SinActual, ConVictima, Colas
<1>11. ASSUME NEW desde \in Etiquetas \ SinActual,
              NEW hasta \in Etiquetas \ (ConVictima \cup {"enviar"}), NEW cod \in CodAccion,
              NEW s \in {"esperandoReady", "exit"},
              Va(h, desde, hasta), qm' = [qm EXCEPT ![q].cod = cod],
              sem' = [sem EXCEPT ![s] = @ + 1],
              UNCHANGED <<colas, varsWorkers, varsCanales>>
       PROVE  Tipos'
  <2>1. HiloOK'
    <3> HIDE DEF h
    <3> QED
      BY <1>h, <1>p, <1>11, VaPaso DEF Tipos, MasterOK
  <2>2. QmOK'
    BY <1>11, <1>q DEF Va, Tipos, MasterOK, QmOK, Registro
  <2>3. SemOK'
    BY <1>11 DEF Tipos, MasterOK, SemOK
  <2>4. TypeOKCanales' /\ ColasOK' /\ WorkersOK' /\ vivo' = vivo
    BY <1>11 DEF Va, Tipos, MasterOK, ColasOK, WorkersOK, varsWorkers, varsCanales, TypeOKCanales
  <2> QED
    BY <1>u, <2>1, <2>2, <2>3, <2>4, Resto
<1>12. CASE DesalojaPublica(w)
  BY <1>11, <1>12 DEF DesalojaPublica, Etiquetas, SinActual, ConVictima, CodAccion
<1>13. CASE DesalojaDesconectada(w)
  BY <1>m, <1>13 DEF DesalojaDesconectada, Etiquetas, SinActual, ConVictima, CodAccion
<1>14. CASE DesalojaExit(w) \/ AgregaExit(w)
  <2>1. \/ EncolaExit(h, "codDesconectada", "postExit")
        \/ EncolaExit(h, "agregarExit", "codFin")
    BY <1>14 DEF DesalojaExit, AgregaExit
  <2> HIDE DEF h
  <2> QED
    BY <1>u, <1>h, <1>p, <2>1, EncolaExitTipos DEF Etiquetas, SinActual, ConVictima
<1>15. CASE DesalojaLiberaId(w)
  BY <1>15, <1>i DEF DesalojaLiberaId, Etiquetas, SinActual, ConVictima
<1>16. CASE DetectaCaida(w)
  <2>1. Va(h, "recibir", "avisar")
    BY <1>16 DEF DetectaCaida
  <2>2. HiloOK'
    <3>1. "avisar" \in Etiquetas \ (ConVictima \cup {"enviar"}) /\ "recibir" \in Etiquetas \ SinActual
      BY DEF Etiquetas, ConVictima, SinActual
    <3> HIDE DEF h
    <3> QED
      BY <1>h, <1>p, <2>1, <3>1, VaPaso DEF Tipos, MasterOK
  <2>3. WorkersOK'
    <3>1. RemoveFirst(listaWorker, w) \in Seq(Workers)
      BY RemoveFirstTipo DEF Tipos, MasterOK, WorkersOK
    <3> QED
      BY <1>16, <3>1 DEF DetectaCaida, Tipos, MasterOK, WorkersOK
  <2>4. TypeOKCanales' /\ ColasOK' /\ SemOK' /\ QmOK' /\ vivo' = vivo
    BY <1>16 DEF DetectaCaida, Va, Tipos, MasterOK, ColasOK, SemOK, QmOK, varsCanales, TypeOKCanales
  <2> QED
    BY <1>u, <2>2, <2>3, <2>4, Resto
<1>17. CASE AvisaFin(w)
  <2>1. Va(h, "avisar", "sacarExecute")
    BY <1>17 DEF AvisaFin
  <2>2. HiloOK'
    <3>1. "sacarExecute" \in Etiquetas \ (ConVictima \cup {"enviar"}) /\ "avisar" \in Etiquetas \ SinActual
      BY DEF Etiquetas, ConVictima, SinActual
    <3> HIDE DEF h
    <3> QED
      BY <1>h, <1>p, <2>1, <3>1, VaPaso DEF Tipos, MasterOK
  <2>3. q \in Queries
    BY <1>q, <2>1 DEF Va, SinActual
  <2>4. TypeOKCanales'
    BY <1>17, <2>3, EnviaAQCTipo DEF AvisaFin, Tipos
  <2>5. ColasOK' /\ SemOK' /\ WorkersOK' /\ QmOK' /\ vivo' = vivo
    BY <1>17 DEF AvisaFin, Va, Tipos, MasterOK, ColasOK, SemOK, WorkersOK, QmOK, varsWorkers
  <2> QED
    BY <1>u, <2>2, <2>4, <2>5, Resto
<1>18. CASE PoneFin(w)
  <2> DEFINE hasta == IF Contains(listaWorker, w) THEN "esperar" ELSE "fin"
  <2>1. /\ Va(h, "codFin", hasta) /\ qm' = [qm EXCEPT ![q].cod = "FIN"]
        /\ sem' = [sem EXCEPT !["exit"] = @ + 1] /\ UNCHANGED <<colas, varsWorkers, varsCanales>>
    BY <1>18 DEF PoneFin
  <2>2. hasta \in Etiquetas \ (ConVictima \cup {"enviar"})
    BY DEF Etiquetas, ConVictima
  <2>3. "codFin" \in Etiquetas \ SinActual /\ "FIN" \in CodAccion
    BY DEF Etiquetas, SinActual, CodAccion
  <2> HIDE DEF h, q, hasta
  <2> QED
    BY <1>11, <2>1, <2>2, <2>3
<1>19. CASE DesalojaMiraQC(w)
  <2> DEFINE hasta == IF qm[q].desconectado THEN "codQCFin" ELSE "reencolar"
  <2>1. Permitido(h, "mirarQC", hasta)
    BY <1>p DEF Etiquetas, SinActual, ConVictima
  <2>2. Va(h, "mirarQC", hasta)
    BY <1>19 DEF DesalojaMiraQC, Mira
  <2> HIDE DEF hasta, h, q
  <2> QED
    BY <1>u, <1>h, <1>19, <2>1, <2>2, MiraTipos DEF DesalojaMiraQC, Mira
<1> QED
  BY <1>1, <1>2, <1>3, <1>4, <1>5, <1>6, <1>7, <1>8, <1>9, <1>10, <1>12, <1>13, <1>14, <1>15,
     <1>16, <1>17, <1>18, <1>19 DEF MasterWorker, PasoWorker

-----------------------------------------------------------------------------
(* The Workers.                                                            *)

Etapas == {"esperar", "ejecutar", "verificar", "persistir", "muerto"}

\* What a good interpreter looks like.
EjecBien(e) ==
  /\ e \in [en : Etapas, q : Queries \cup {Ninguna}, pc : 0 .. Largo]
  /\ e.en \in {"ejecutar", "verificar", "persistir"} => e.q \in Queries
  /\ e.en \in {"ejecutar", "verificar"} => e.pc < Largo

ActualBien(a) ==
  /\ a \in [q : Queries \cup {Ninguna}, pc : 0 .. Largo]
  /\ a # NULL => a.q \in Queries

\* The invariant of the interpreters, one Worker at a time.
LEMMA InterpretePorWorker ==
  InterpreteOK <=>
    /\ semQuery \in [Workers -> Nat] /\ interrupcion \in [Workers -> BOOLEAN]
    /\ queryActual = [w \in Workers |-> queryActual[w]] /\ ejec = [w \in Workers |-> ejec[w]]
    /\ \A w \in Workers : ActualBien(queryActual[w]) /\ EjecBien(ejec[w])
BY DEF InterpreteOK, TypeOKInterprete, ActualBien, EjecBien, Etapas

\* The interpreter goes on at a line of the script or goes back to wait.
LEMMA SigueEnTipo ==
  ASSUME NEW q \in Queries, NEW n \in 0 .. Largo
  PROVE  EjecBien(SigueEn(q, n)) /\ EjecBien(Ocioso)
BY CanalesAssumption DEF SigueEn, Ocioso, EjecBien, Etapas

\* A step of one Worker that leaves its interpreter and its query good.
LEMMA InterpretePaso ==
  ASSUME InterpreteOK, NEW w \in Workers, NEW e, NEW a,
         ejec' = [ejec EXCEPT ![w] = e], EjecBien(e),
         queryActual' = [queryActual EXCEPT ![w] = a], ActualBien(a),
         semQuery' \in [Workers -> Nat], interrupcion' \in [Workers -> BOOLEAN]
  PROVE  InterpreteOK'
<1>1. \A u \in Workers : ActualBien(queryActual[u]) /\ EjecBien(ejec[u])
  BY InterpretePorWorker
<1>2. \A u \in Workers : queryActual'[u] = (IF u = w THEN a ELSE queryActual[u])
                         /\ ejec'[u] = (IF u = w THEN e ELSE ejec[u])
  BY DEF InterpreteOK, TypeOKInterprete
<1>3. \A u \in Workers : ActualBien(queryActual'[u]) /\ EjecBien(ejec'[u])
  BY <1>1, <1>2
<1>4. queryActual' = [u \in Workers |-> queryActual'[u]] /\ ejec' = [u \in Workers |-> ejec'[u]]
  BY DEF InterpreteOK, TypeOKInterprete
<1> QED
  BY <1>3, <1>4 DEF InterpreteOK, TypeOKInterprete, ActualBien, EjecBien, NULL, Etapas

\* A packet to the Master keeps the types of the channels.
LEMMA EnviaAMasterTipo ==
  ASSUME TypeOKCanales, NEW w \in Workers, NEW p \in Paquete, EnviaAMaster(w, p),
         UNCHANGED <<aWorker, socketWorker, socketQC, avisos>>
  PROVE  TypeOKCanales'
<1>1. Append(aMaster[w], p) \in Seq(Paquete)
  BY AppendProperties DEF TypeOKCanales
<1> QED
  BY <1>1 DEF TypeOKCanales, EnviaAMaster

\* Suelta keeps the invariant.
LEMMA SueltaTipos ==
  ASSUME Tipos, UNCHANGED varsMaster, NEW w \in Workers, NEW cod \in CodAccion,
         NEW n \in 0 .. Largo, NEW e, EjecBien(e), ejec[w].q \in Queries, Suelta(w, cod, n, e)
  PROVE  TypeOKCanales' /\ InterpreteOK'
<1>1. [q |-> ejec[w].q, cod |-> cod, pc |-> n] \in Paquete
  BY DEF Paquete
<1>2. TypeOKCanales'
  BY <1>1, EnviaAMasterTipo DEF Suelta, Tipos
<1>3. ActualBien(NULL)
  BY CanalesAssumption DEF ActualBien, NULL
<1>4. semQuery' \in [Workers -> Nat] /\ interrupcion' \in [Workers -> BOOLEAN]
  BY DEF Suelta, Tipos, InterpreteOK, TypeOKInterprete
<1>5. InterpreteOK'
  BY <1>3, <1>4, InterpretePaso DEF Suelta, Tipos
<1> QED
  BY <1>2, <1>5

\* The two threads of a Worker, and its end.
LEMMA InterpreteTipos ==
  ASSUME Tipos, NEW w \in Workers, PasoInterprete(w) \/ CaeWorker(w), UNCHANGED varsMaster
  PROVE  TypeOKCanales' /\ InterpreteOK'
<1>i. InterpreteOK /\ TypeOKCanales
  BY DEF Tipos
<1>w. /\ ActualBien(queryActual[w]) /\ EjecBien(ejec[w])
      /\ semQuery \in [Workers -> Nat] /\ interrupcion \in [Workers -> BOOLEAN]
  BY <1>i, InterpretePorWorker
<1>e. ejec = [ejec EXCEPT ![w] = ejec[w]] /\ queryActual = [queryActual EXCEPT ![w] = queryActual[w]]
  BY <1>i DEF InterpreteOK, TypeOKInterprete
<1>l. Largo \in Nat \ {0}
  BY CanalesAssumption
<1>c. UNCHANGED varsCanales => TypeOKCanales'
  BY <1>i DEF varsCanales, TypeOKCanales
<1>1. CASE Escucha(w)
  <2> DEFINE p == Head(aWorker[w])
             a == IF p.cod = "EJECUCION" THEN [q |-> p.q, pc |-> p.pc] ELSE queryActual[w]
  <2>1. p \in Paquete /\ Tail(aWorker[w]) \in Seq(Paquete)
    BY <1>1, <1>i, CabezaTipo DEF Escucha, TypeOKCanales
  <2>2. TypeOKCanales'
    BY <1>1, <1>i, <2>1 DEF Escucha, TypeOKCanales
  <2>3. ActualBien(a)
    <3>1. CASE p.cod = "EJECUCION"
      BY <2>1, <3>1 DEF ActualBien, Paquete
    <3>2. CASE p.cod # "EJECUCION"
      BY <1>w, <3>2
    <3> QED
      BY <3>1, <3>2
  <2>4. queryActual' = [queryActual EXCEPT ![w] = a] /\ ejec' = [ejec EXCEPT ![w] = ejec[w]]
    BY <1>1, <1>e DEF Escucha
  <2>5. semQuery' \in [Workers -> Nat] /\ interrupcion' \in [Workers -> BOOLEAN]
    <3>1. semQuery' \in [Workers -> Nat]
      BY <1>1, <1>w DEF Escucha
    <3>2. interrupcion' \in [Workers -> BOOLEAN]
      BY <1>1, <1>w DEF Escucha
    <3> QED
      BY <3>1, <3>2
  <2> HIDE DEF a, p
  <2> QED
    BY <1>i, <1>w, <2>2, <2>3, <2>4, <2>5, InterpretePaso
<1>2. CASE Toma(w)
  <2> DEFINE e == SigueEn(queryActual[w].q, queryActual[w].pc)
  <2>1. EjecBien(e)
    BY <1>2, <1>w, SigueEnTipo DEF Toma, ActualBien
  <2>2. semQuery' \in [Workers -> Nat] /\ interrupcion' \in [Workers -> BOOLEAN]
    <3>1. semQuery[w] - 1 \in Nat
      BY <1>2, <1>w DEF Toma
    <3> QED
      BY <1>2, <1>w, <3>1 DEF Toma
  <2>3. ejec' = [ejec EXCEPT ![w] = e] /\ queryActual' = [queryActual EXCEPT ![w] = queryActual[w]]
    BY <1>2, <1>e DEF Toma
  <2> HIDE DEF e
  <2>4. UNCHANGED varsCanales
    BY <1>2 DEF Toma
  <2> QED
    BY <1>c, <1>i, <1>w, <2>1, <2>2, <2>3, <2>4, InterpretePaso
<1>3. CASE Ejecuta(w) \/ EjecutaRead(w)
  <2> DEFINE e == [ejec[w] EXCEPT !.en = "verificar"]
  <2>1. EjecBien(e)
    BY <1>3, <1>w DEF Ejecuta, EjecutaRead, EjecBien, Etapas
  <2>2. ejec' = [ejec EXCEPT ![w] = e] /\ queryActual' = [queryActual EXCEPT ![w] = queryActual[w]]
    BY <1>3, <1>e, <1>i DEF Ejecuta, EjecutaRead, InterpreteOK, TypeOKInterprete
  <2>3. semQuery' \in [Workers -> Nat] /\ interrupcion' \in [Workers -> BOOLEAN]
    BY <1>3, <1>w DEF Ejecuta, EjecutaRead
  <2>4. TypeOKCanales'
    <3>1. CASE Ejecuta(w)
      BY <1>c, <3>1 DEF Ejecuta
    <3>2. CASE EjecutaRead(w)
      <4>1. [q |-> ejec[w].q, cod |-> "RESPUESTA", pc |-> ejec[w].pc + 1] \in Paquete
        BY <1>w, <1>l, <3>2 DEF EjecutaRead, EjecBien, Paquete, CodAccion
      <4> QED
        BY <1>i, <3>2, <4>1, EnviaAMasterTipo DEF EjecutaRead
    <3> QED
      BY <1>3, <3>1, <3>2
  <2> HIDE DEF e
  <2> QED
    BY <1>i, <1>w, <2>1, <2>2, <2>3, <2>4, InterpretePaso
<1>4. CASE EjecutaEnd(w)
  <2>1. EjecBien([ejec[w] EXCEPT !.en = "verificar"])
    BY <1>4, <1>w DEF EjecutaEnd, EjecBien, Etapas
  <2>2. ejec[w].q \in Queries /\ ejec[w].pc + 1 \in 0 .. Largo /\ "FIN" \in CodAccion
    BY <1>4, <1>w, <1>l DEF EjecutaEnd, EjecBien, CodAccion
  <2> QED
    BY <1>4, <2>1, <2>2, SueltaTipos DEF EjecutaEnd
<1>5. CASE ProcesaError(w)
  <2>1. ejec[w].q \in Queries /\ 0 \in 0 .. Largo /\ "FIN" \in CodAccion
    BY <1>5, <1>w, <1>l DEF ProcesaError, EjecBien, CodAccion
  <2> QED
    BY <1>5, <2>1, SueltaTipos, SigueEnTipo DEF ProcesaError
<1>6. CASE Verifica(w)
  <2> DEFINE n == ejec[w].pc + 1
             e == IF interrupcion[w] THEN [en |-> "persistir", q |-> ejec[w].q, pc |-> n]
                  ELSE SigueEn(ejec[w].q, n)
  <2>1. ejec[w].q \in Queries /\ n \in 0 .. Largo
    BY <1>6, <1>w, <1>l DEF Verifica, EjecBien
  <2>2. EjecBien(e)
    <3> HIDE DEF n
    <3>1. EjecBien([en |-> "persistir", q |-> ejec[w].q, pc |-> n])
      BY <2>1 DEF EjecBien, Etapas
    <3> QED
      BY <2>1, <3>1, SigueEnTipo
  <2>3. ejec' = [ejec EXCEPT ![w] = e] /\ queryActual' = [queryActual EXCEPT ![w] = queryActual[w]]
    BY <1>6, <1>e DEF Verifica
  <2>4. semQuery' \in [Workers -> Nat] /\ interrupcion' \in [Workers -> BOOLEAN]
    BY <1>6, <1>w DEF Verifica
  <2>5. UNCHANGED varsCanales
    BY <1>6 DEF Verifica
  <2> HIDE DEF e
  <2> QED
    BY <1>c, <1>i, <1>w, <2>2, <2>3, <2>4, <2>5, InterpretePaso
<1>7. CASE ConfirmaDesalojo(w)
  <2>1. ejec[w].q \in Queries /\ ejec[w].pc \in 0 .. Largo /\ "DESALOJO" \in CodAccion
    BY <1>7, <1>w DEF ConfirmaDesalojo, EjecBien, CodAccion
  <2> QED
    BY <1>7, <2>1, SueltaTipos, SigueEnTipo DEF ConfirmaDesalojo
<1>8. CASE Cae(w)
  <2> DEFINE e == [Ocioso EXCEPT !.en = "muerto"]
  <2>1. EjecBien(e) /\ ActualBien(NULL)
    BY <1>l DEF EjecBien, Ocioso, ActualBien, NULL, Etapas
  <2>2. semQuery' \in [Workers -> Nat] /\ interrupcion' \in [Workers -> BOOLEAN]
    BY <1>8, <1>w DEF Cae
  <2>3. TypeOKCanales'
    BY <1>8, <1>i DEF Cae, CierraWorker, TypeOKCanales, EstadoSocket
  <2>4. ejec' = [ejec EXCEPT ![w] = e] /\ queryActual' = [queryActual EXCEPT ![w] = NULL]
    BY <1>8 DEF Cae
  <2> HIDE DEF e
  <2> QED
    BY <1>i, <2>1, <2>2, <2>3, <2>4, InterpretePaso
<1> QED
  BY <1>1, <1>2, <1>3, <1>4, <1>5, <1>6, <1>7, <1>8 DEF PasoInterprete, FallaWorker, CaeWorker

-----------------------------------------------------------------------------
(* The theorem.                                                            *)

\* No step takes a thread, a queue, a packet or a counter out of its type.
LEMMA TiposPaso == Tipos /\ [Next]_vars => Tipos'
<1> SUFFICES ASSUME Tipos, [Next]_vars PROVE Tipos'
  OBVIOUS
<1>1. ASSUME NEW w \in Workers, Worker(w) \/ WorkerCae(w) PROVE Tipos'
  <2>1. UNCHANGED varsMaster /\ (PasoInterprete(w) \/ CaeWorker(w))
    BY <1>1 DEF Worker, WorkerCae
  <2>2. MasterOK'
    BY <2>1 DEF varsMaster, varsWorkers, Tipos, MasterOK, ColasOK, SemOK, WorkersOK, QmOK, HiloOK,
           HiloBien, Desaloja
  <2> QED
    BY <2>1, <2>2, InterpreteTipos DEF Tipos
<1>2. CASE UNCHANGED vars
  BY <1>2 DEF vars, varsMaster, varsWorkers, varsInterprete, varsCanales, Tipos, MasterOK, ColasOK,
       SemOK, WorkersOK, QmOK, HiloOK, HiloBien, Desaloja, TypeOKCanales, InterpreteOK,
       TypeOKInterprete
<1> QED
  BY <1>1, <1>2, ReadyTipos, ExitTipos, DesalojoTipos, AgingTipos, QueryTipos, WorkerTipos,
     FallaTipos, CierraQCTipos DEF Next

\* Every state the system reaches is well typed, for any number of queries,
\* Workers and priorities: no list of the Master or packet holds something
\* that is not a query, no semaphore is taken below zero and no program
\* counter passes the end of its script.
THEOREM TypeCorrect == Spec => []TypeOK
<1>1. Spec => []Tipos
  BY TiposInit, TiposPaso, PTL DEF Spec
<1> QED
  BY <1>1, TiposTypeOK, PTL

-----------------------------------------------------------------------------
(***************************************************************************)
(* The threads ready and exitStatus never pop an empty queue, for any      *)
(* number of queries and Workers, whatever leaves, crashes or is evicted.  *)
(* The invariant behind it counts: each queue holds one query for each     *)
(* post of its semaphore and one for each thread that has pushed and not   *)
(* posted yet, or has waited and not popped yet.                           *)
(***************************************************************************)

(* Counting threads.                                                       *)

\* Between the push and the post, or between the wait and the pop.
PendienteReady == {"codReencolada", "sacaNew", "sacaDesalojo"}
PendienteExit == {"codFin", "postExit"}
Pendiente == PendienteReady \cup PendienteExit

HilosEn(L) == {h \in Hilos : hilo[h].pc \in L}

LargoReady == Len(colas["new"]) + Len(colas["desalojo"])
LargoExit == Len(colas["exit"])
CuantosReady == Cardinality(HilosEn(PendienteReady))
CuantosExit == Cardinality(HilosEn(PendienteExit))

SemReady == sem["esperandoReady"]
SemExit == sem["exit"]

Cuenta == LargoReady = SemReady + CuantosReady /\ LargoExit = SemExit + CuantosExit

Elegida ==
  /\ hilo[Ready].pc = "sacaNew" => colas["new"] # <<>>
  /\ hilo[Ready].pc = "sacaDesalojo" => colas["desalojo"] # <<>>

\* Aging threads neither push nor pop.
AgingAparte == \A q \in Queries : hilo[Aging(q)].pc \notin Pendiente

Conteo == Tipos /\ Cuenta /\ Elegida /\ AgingAparte

\* There are finitely many threads.
LEMMA HilosFinitos == IsFiniteSet(Hilos)
<1>1. IsFiniteSet(Queries) /\ IsFiniteSet(Workers)
  BY CanalesAssumption
<1>2. /\ IsFiniteSet({"ready", "exit"}) /\ IsFiniteSet({"aging", "query"}) /\ IsFiniteSet({"worker"})
      /\ IsFiniteSet({Ninguna})
  <2>1. {"ready", "exit"} = {"ready"} \cup {"exit"} /\ {"aging", "query"} = {"aging"} \cup {"query"}
    OBVIOUS
  <2>2. IsFiniteSet({"ready"}) /\ IsFiniteSet({"exit"}) /\ IsFiniteSet({"aging"})
        /\ IsFiniteSet({"query"}) /\ IsFiniteSet({"worker"}) /\ IsFiniteSet({Ninguna})
    BY FS_Singleton
  <2>3. IsFiniteSet({"ready"} \cup {"exit"}) /\ IsFiniteSet({"aging"} \cup {"query"})
    BY <2>2, FS_Union
  <2> QED
    BY <2>1, <2>2, <2>3
<1>3. /\ IsFiniteSet({"ready", "exit"} \X {Ninguna}) /\ IsFiniteSet({"aging", "query"} \X Queries)
      /\ IsFiniteSet({"worker"} \X Workers)
  BY <1>1, <1>2, FS_Product
<1> QED
  BY <1>3, FS_Union DEF Hilos

\* HilosEn is finite, so it can be counted.
LEMMA HilosEnTipo ==
  ASSUME NEW L
  PROVE  IsFiniteSet(HilosEn(L)) /\ Cardinality(HilosEn(L)) \in Nat
<1>1. HilosEn(L) \subseteq Hilos
  BY DEF HilosEn
<1> QED
  BY <1>1, HilosFinitos, FS_Subset, FS_CardinalityType

\* What the types say of the numbers.
LEMMA ConteoTipos ==
  ASSUME Conteo
  PROVE  /\ HiloOK /\ SemOK /\ ColasOK /\ Cuenta /\ Elegida
         /\ \A c \in {"new", "desalojo", "exit"} : colas[c] \in Seq(Queries) /\ Len(colas[c]) \in Nat
         /\ SemReady \in Nat /\ SemExit \in Nat
         /\ LargoReady \in Nat /\ LargoExit \in Nat
         /\ CuantosReady \in Nat /\ CuantosExit \in Nat
<1>1. HiloOK /\ SemOK /\ ColasOK /\ Cuenta /\ Elegida
  BY DEF Conteo, Tipos, MasterOK
<1>2. \A c \in {"new", "desalojo", "exit"} : colas[c] \in Seq(Queries) /\ Len(colas[c]) \in Nat
  BY <1>1 DEF ColasOK, Colas
<1>3. CuantosReady \in Nat /\ CuantosExit \in Nat
  BY HilosEnTipo DEF CuantosReady, CuantosExit
<1>4. LargoReady \in Nat /\ LargoExit \in Nat
  BY <1>1 DEF LargoReady, LargoExit, ColasOK, Colas
<1>5. SemReady \in Nat /\ SemExit \in Nat
  BY <1>1 DEF SemReady, SemExit, SemOK
<1> QED
  BY <1>1, <1>2, <1>3, <1>4, <1>5

\* A thread that enters the labels of L adds one, ...
LEMMA Entra ==
  ASSUME NEW L, NEW h \in Hilos, hilo[h].pc \notin L, hilo'[h].pc \in L,
         \A g \in Hilos \ {h} : hilo'[g].pc = hilo[g].pc
  PROVE  Cardinality(HilosEn(L))' = Cardinality(HilosEn(L)) + 1
<1>1. HilosEn(L)' = HilosEn(L) \cup {h} /\ h \notin HilosEn(L)
  BY DEF HilosEn
<1> QED
  BY <1>1, HilosEnTipo, FS_AddElement

\* ... one that leaves them takes one away, ...
LEMMA Sale ==
  ASSUME NEW L, NEW h \in Hilos, hilo[h].pc \in L, hilo'[h].pc \notin L,
         \A g \in Hilos \ {h} : hilo'[g].pc = hilo[g].pc
  PROVE  Cardinality(HilosEn(L))' = Cardinality(HilosEn(L)) - 1
<1>1. HilosEn(L)' = HilosEn(L) \ {h} /\ h \in HilosEn(L)
  BY DEF HilosEn
<1> QED
  BY <1>1, HilosEnTipo, FS_RemoveElement, ZenonT(30)

\* ... and the rest changes nothing.
LEMMA Queda ==
  ASSUME NEW L, \A g \in Hilos : hilo'[g].pc \in L <=> hilo[g].pc \in L
  PROVE  Cardinality(HilosEn(L))' = Cardinality(HilosEn(L))
BY DEF HilosEn

\* Va moves one thread.
LEMMA VaMueve ==
  ASSUME HiloOK, NEW h \in Hilos, NEW desde, NEW hasta, Va(h, desde, hasta)
  PROVE  /\ hilo[h].pc = desde /\ hilo'[h].pc = hasta
         /\ \A g \in Hilos \ {h} : hilo'[g].pc = hilo[g].pc
BY DEF Va, HiloOK, Hilo

\* A step that touches neither the three queues nor their semaphores, and
\* moves threads only between labels that do not count.
Ajeno ==
  /\ \A c \in {"new", "desalojo", "exit"} : colas'[c] = colas[c]
  /\ \A s \in {"esperandoReady", "exit"} : sem'[s] = sem[s]
  /\ \A g \in Hilos : hilo'[g].pc # hilo[g].pc =>
       hilo[g].pc \notin Pendiente /\ hilo'[g].pc \notin Pendiente

\* It keeps the count.
LEMMA AjenoConteo == ASSUME Conteo, Ajeno PROVE (Cuenta /\ Elegida /\ AgingAparte)'
<1>1. CuantosReady' = CuantosReady
  BY Queda DEF Ajeno, Pendiente, CuantosReady
<1>2. CuantosExit' = CuantosExit
  BY Queda DEF Ajeno, Pendiente, CuantosExit
<1>3. LargoReady' = LargoReady /\ LargoExit' = LargoExit
  BY DEF Ajeno, LargoReady, LargoExit
<1>4. Elegida'
  BY HilosTipo DEF Conteo, Ajeno, Elegida, Pendiente, PendienteReady
<1>5. AgingAparte'
  BY HilosTipo DEF Conteo, Ajeno, AgingAparte
<1> QED
  BY <1>1, <1>2, <1>3, <1>4, <1>5 DEF Conteo, Cuenta, Ajeno, SemReady, SemExit

\* Moves of one thread between labels that do not count.
LEMMA VaAjeno ==
  ASSUME Conteo, NEW h \in Hilos, NEW desde, NEW hasta, Va(h, desde, hasta),
         desde \notin Pendiente, hasta \notin Pendiente,
         \A c \in {"new", "desalojo", "exit"} : colas'[c] = colas[c],
         \A s \in {"esperandoReady", "exit"} : sem'[s] = sem[s]
  PROVE  (Cuenta /\ Elegida /\ AgingAparte)'
<1>1. Ajeno
  BY VaMueve DEF Ajeno, Conteo, Tipos, MasterOK
<1> QED
  BY <1>1, AjenoConteo

\* A thread other than ready and the aging threads pushes: one more query,
\* A thread that moves, and whose moves count, is not an aging thread; the
\* numbers change together.
LEMMA Mueve ==
  ASSUME Conteo, NEW h \in Hilos, h[1] # "aging",
         \A k \in Hilos \ {h} : hilo'[k].pc = hilo[k].pc,
         NEW d \in Int, NEW e \in Int, NEW f \in Int, NEW g \in Int,
         SemReady' = SemReady + d, CuantosReady' = CuantosReady + e,
         LargoReady' = LargoReady + d + e,
         SemExit' = SemExit + f, CuantosExit' = CuantosExit + g,
         LargoExit' = LargoExit + f + g
  PROVE  (Cuenta /\ AgingAparte)'
<1>1. Cuenta'
  <2>1. /\ LargoReady = SemReady + CuantosReady /\ LargoExit = SemExit + CuantosExit
        /\ SemReady \in Nat /\ CuantosReady \in Nat /\ SemExit \in Nat /\ CuantosExit \in Nat
    BY ConteoTipos DEF Cuenta
  <2> QED
    BY <2>1 DEF Cuenta
<1>2. AgingAparte'
  <2> SUFFICES ASSUME NEW q \in Queries PROVE hilo'[Aging(q)].pc \notin Pendiente
    BY DEF AgingAparte
  <2>1. Aging(q) \in Hilos \ {h}
    BY HilosTipo DEF Aging
  <2> QED
    BY <2>1 DEF Conteo, AgingAparte
<1> QED
  BY <1>1, <1>2

\* The same for the shapes of a step.
LEMMA AnotaAjeno ==
  ASSUME Conteo, NEW h \in Hilos, NEW desde, NEW hasta, NEW campo, NEW valor,
         Anota(h, desde, hasta, campo, valor), campo # "pc",
         desde \notin Pendiente, hasta \notin Pendiente
  PROVE  (Cuenta /\ Elegida /\ AgingAparte)'
<1>1. hilo[h].pc = desde /\ colas' = colas /\ sem' = sem
  BY DEF Anota
<1>2. hilo' = [hilo EXCEPT ![h] = [[hilo[h] EXCEPT !.pc = hasta] EXCEPT ![campo] = valor]]
  BY ConteoTipos DEF Anota, HiloOK
<1>3. hilo'[h].pc = hasta /\ \A g \in Hilos \ {h} : hilo'[g].pc = hilo[g].pc
  BY <1>2, ConteoTipos DEF HiloOK, Hilo
<1>4. Ajeno
  BY <1>1, <1>3 DEF Ajeno
<1> QED
  BY <1>4, AjenoConteo

\* Pon of a field of a query moves one thread.
LEMMA PonCampoAjeno ==
  ASSUME Conteo, NEW h \in Hilos, NEW desde, NEW hasta, NEW q, NEW campo, NEW valor,
         PonCampo(h, desde, hasta, q, campo, valor),
         desde \notin Pendiente, hasta \notin Pendiente
  PROVE  (Cuenta /\ Elegida /\ AgingAparte)'
<1>1. Va(h, desde, hasta) /\ colas' = colas /\ sem' = sem
  BY DEF PonCampo
<1> QED
  BY <1>1, VaAjeno

\* A queue that is neither colaNew, colaDesalojo nor colaExit may change.
LEMMA PonColaAjeno ==
  ASSUME Conteo, NEW h \in Hilos, NEW desde, NEW hasta, NEW cola \in {"ready", "execute"}, NEW V,
         PonCola(h, desde, hasta, cola, V),
         desde \notin Pendiente, hasta \notin Pendiente
  PROVE  (Cuenta /\ Elegida /\ AgingAparte)'
<1>1. Va(h, desde, hasta) /\ sem' = sem
  BY DEF PonCola
<1>2. \A c \in {"new", "desalojo", "exit"} : colas'[c] = colas[c]
  BY ConteoTipos DEF PonCola, ColasOK, Colas
<1> QED
  BY <1>1, <1>2, VaAjeno

\* 1 when something holds.
Uno(si) == IF si THEN 1 ELSE 0

\* How Va changes the number of threads at some labels.
LEMMA VaCuantos ==
  ASSUME Conteo, NEW h \in Hilos, NEW desde, NEW hasta, Va(h, desde, hasta)
  PROVE  /\ CuantosReady' = CuantosReady + Uno(hasta \in PendienteReady) - Uno(desde \in PendienteReady)
         /\ CuantosExit' = CuantosExit + Uno(hasta \in PendienteExit) - Uno(desde \in PendienteExit)
<1>1. /\ hilo[h].pc = desde /\ hilo'[h].pc = hasta
      /\ \A g \in Hilos \ {h} : hilo'[g].pc = hilo[g].pc
  BY ConteoTipos, VaMueve
<1>2. ASSUME NEW L
      PROVE  Cardinality(HilosEn(L))' =
               Cardinality(HilosEn(L)) + Uno(hasta \in L) - Uno(desde \in L)
  <2>0. Cardinality(HilosEn(L)) \in Nat
    BY HilosEnTipo
  <2>1. CASE hasta \in L /\ desde \in L
    <3>1. Cardinality(HilosEn(L))' = Cardinality(HilosEn(L))
      BY <1>1, <2>1, Queda
    <3> QED
      BY <2>0, <2>1, <3>1 DEF Uno
  <2>2. CASE hasta \notin L /\ desde \notin L
    <3>1. Cardinality(HilosEn(L))' = Cardinality(HilosEn(L))
      BY <1>1, <2>2, Queda
    <3> QED
      BY <2>0, <2>2, <3>1 DEF Uno
  <2>3. CASE hasta \in L /\ desde \notin L
    <3>1. Cardinality(HilosEn(L))' = Cardinality(HilosEn(L)) + 1
      BY <1>1, <2>3, Entra
    <3> QED
      BY <2>0, <2>3, <3>1 DEF Uno
  <2>4. CASE hasta \notin L /\ desde \in L
    <3>1. Cardinality(HilosEn(L))' = Cardinality(HilosEn(L)) - 1
      BY <1>1, <2>4, Sale
    <3> QED
      BY <2>0, <2>4, <3>1 DEF Uno
  <2> QED
    BY <2>1, <2>2, <2>3, <2>4
<1> QED
  BY <1>2 DEF CuantosReady, CuantosExit

\* A move of a thread other than ready whose counts change together.
LEMMA VaCuenta ==
  ASSUME Conteo, NEW h \in Hilos, h[1] # "aging", NEW desde, NEW hasta, Va(h, desde, hasta),
         hasta \notin {"sacaNew", "sacaDesalojo"},
         colas["new"] # <<>> => colas'["new"] # <<>>,
         colas["desalojo"] # <<>> => colas'["desalojo"] # <<>>,
         NEW d \in Int, NEW e \in Int, NEW f \in Int, NEW g \in Int,
         SemReady' = SemReady + d, CuantosReady' = CuantosReady + e,
         LargoReady' = LargoReady + d + e,
         SemExit' = SemExit + f, CuantosExit' = CuantosExit + g,
         LargoExit' = LargoExit + f + g
  PROVE  (Cuenta /\ Elegida /\ AgingAparte)'
<1>1. /\ hilo[h].pc = desde /\ hilo'[h].pc = hasta
      /\ \A k \in Hilos \ {h} : hilo'[k].pc = hilo[k].pc
  BY ConteoTipos, VaMueve
<1>2. (Cuenta /\ AgingAparte)'
  BY <1>1, Mueve
<1>3. Elegida'
  BY <1>1, HilosTipo DEF Conteo, Elegida
<1> QED
  BY <1>2, <1>3

\* A push to colaExit: one more query, one more thread that has to post.
LEMMA EncolaCuenta ==
  ASSUME Conteo, NEW h \in Hilos, h[1] # "aging", NEW desde, NEW hasta,
         EncolaExit(h, desde, hasta), desde \notin Pendiente, hasta \in PendienteExit
  PROVE  (Cuenta /\ Elegida /\ AgingAparte)'
<1>1. Va(h, desde, hasta) /\ sem' = sem
      /\ colas' = [colas EXCEPT !["exit"] = Append(colas["exit"], hilo[h].actual)]
  BY DEF EncolaExit, PonCola
<1>2. colas'["new"] = colas["new"] /\ colas'["desalojo"] = colas["desalojo"]
      /\ colas'["exit"] = Append(colas["exit"], hilo[h].actual)
  BY <1>1, ConteoTipos DEF ColasOK, Colas
<1>3. LargoReady' = LargoReady
  BY <1>2 DEF LargoReady
<1>4. LargoExit' = LargoExit + 1
  BY <1>2, ConteoTipos DEF LargoExit
<1>5. SemReady' = SemReady /\ SemExit' = SemExit
  BY <1>1 DEF SemReady, SemExit
<1>6. CuantosReady' = CuantosReady /\ CuantosExit' = CuantosExit + 1
  <2>1. /\ Uno(hasta \in PendienteReady) = 0 /\ Uno(desde \in PendienteReady) = 0
        /\ Uno(hasta \in PendienteExit) = 1 /\ Uno(desde \in PendienteExit) = 0
    BY DEF Uno, Pendiente, PendienteReady, PendienteExit
  <2> QED
    BY <1>1, <2>1, VaCuantos, ConteoTipos
<1>7. /\ SemReady' = SemReady + 0 /\ CuantosReady' = CuantosReady + 0
      /\ LargoReady' = LargoReady + 0 + 0 /\ SemExit' = SemExit + 0
      /\ CuantosExit' = CuantosExit + 1 /\ LargoExit' = LargoExit + 0 + 1
  BY <1>3, <1>4, <1>5, <1>6, ConteoTipos
<1>8. hasta \notin {"sacaNew", "sacaDesalojo"}
  BY DEF PendienteExit
<1> QED
  BY <1>1, <1>2, <1>7, <1>8, VaCuenta

-----------------------------------------------------------------------------
(* One lemma per process.                                                  *)

\* Thread ready: the wait takes a post and chooses a queue that has a query.
LEMMA ReadyConteo == ASSUME Conteo, MasterReady PROVE (Cuenta /\ Elegida /\ AgingAparte)'
<1> USE HilosTipo
<1>t. Conteo /\ HiloOK /\ SemOK /\ ColasOK
  BY ConteoTipos
<1>r. Ready[1] # "aging"
  BY DEF Ready
<1>1. CASE ReadyEspera
  <2>1. /\ hilo[Ready].pc = "esperar" /\ hilo'[Ready].pc = ColaSiguiente
        /\ \A g \in Hilos \ {Ready} : hilo'[g].pc = hilo[g].pc
    BY <1>1, <1>t, VaMueve DEF ReadyEspera
  <2>2. ColaSiguiente \in {"sacaNew", "sacaDesalojo"}
    BY DEF ColaSiguiente
  <2>3. CuantosReady' = CuantosReady + 1
    <3>1. "esperar" \notin PendienteReady /\ ColaSiguiente \in PendienteReady
      BY <2>2 DEF PendienteReady
    <3> QED
      BY <2>1, <3>1, Entra DEF CuantosReady
  <2>4. CuantosExit' = CuantosExit
    <3>1. "esperar" \notin PendienteExit /\ ColaSiguiente \notin PendienteExit
      BY <2>2 DEF PendienteExit
    <3> QED
      BY <2>1, <3>1, Queda DEF CuantosExit
  <2>5. /\ SemReady' = SemReady - 1 /\ SemExit' = SemExit
        /\ colas' = colas /\ SemReady > 0
    BY <1>1, <1>t DEF ReadyEspera, SemOK, SemReady, SemExit
  <2>6. LargoReady' = LargoReady /\ LargoExit' = LargoExit
    BY <2>5 DEF LargoReady, LargoExit
  <2>7. (Cuenta /\ AgingAparte)'
    <3>1. /\ SemReady' = SemReady + (-1) /\ CuantosReady' = CuantosReady + 1
          /\ LargoReady' = LargoReady + (-1) + 1 /\ SemExit' = SemExit + 0
          /\ CuantosExit' = CuantosExit + 0 /\ LargoExit' = LargoExit + 0 + 0
      BY <2>3, <2>4, <2>5, <2>6, ConteoTipos, SMTT(30)
    <3> QED
      BY <1>r, <1>t, <2>1, <3>1, Mueve
  <2>8. LargoReady > 0
    BY <2>5, ConteoTipos DEF Cuenta
  <2>9. colas["desalojo"] = <<>> => colas["new"] # <<>>
    BY <2>8, <1>t DEF LargoReady, ColasOK, Colas
  <2>10. Elegida'
    BY <2>1, <2>5, <2>9 DEF Elegida, ColaSiguiente
  <2> QED
    BY <2>7, <2>10
<1>2. ASSUME NEW cola \in {"new", "desalojo"}, NEW desde \in {"sacaNew", "sacaDesalojo"},
             ReadySaca(cola, desde)
      PROVE  (Cuenta /\ Elegida /\ AgingAparte)'
  <2>1. /\ hilo[Ready].pc = desde /\ hilo'[Ready].pc = "codEspera"
        /\ \A g \in Hilos \ {Ready} : hilo'[g].pc = hilo[g].pc
    BY <1>2, <1>t DEF ReadySaca, HiloOK, Hilo
  <2>2. CuantosReady' = CuantosReady - 1
    <3>1. desde \in PendienteReady /\ "codEspera" \notin PendienteReady
      BY DEF PendienteReady
    <3> QED
      BY <2>1, <3>1, Sale DEF CuantosReady
  <2>3. CuantosExit' = CuantosExit
    <3>1. desde \notin PendienteExit /\ "codEspera" \notin PendienteExit
      BY DEF PendienteExit
    <3> QED
      BY <2>1, <3>1, Queda DEF CuantosExit
  <2>4. /\ colas'[cola] = Tail(colas[cola])
        /\ \A c \in {"new", "desalojo", "exit"} \ {cola} : colas'[c] = colas[c]
    BY <1>2, <1>t DEF ReadySaca, ColasOK, Colas
  <2>5. Len(Tail(colas[cola])) = Len(colas[cola]) - 1
    <3>1. colas[cola] # <<>> /\ colas[cola] \in Seq(Queries)
      BY <1>2, ConteoTipos DEF ReadySaca
    <3> QED
      BY <3>1, CabezaTipo
  <2>6. SemReady' = SemReady /\ SemExit' = SemExit
    BY <1>2 DEF ReadySaca, SemReady, SemExit
  <2>7. LargoReady' = LargoReady - 1
    <3>1. colas["new"] \in Seq(Queries) /\ colas["desalojo"] \in Seq(Queries)
      BY <1>t DEF ColasOK, Colas
    <3>2. Tail(colas[cola]) \in Seq(Queries)
      BY <1>2, <3>1, CabezaTipo DEF ReadySaca
    <3>3. CASE cola = "new"
      <4>1. colas'["new"] = Tail(colas["new"]) /\ colas'["desalojo"] = colas["desalojo"]
        BY <2>4, <3>3
      <4>2. LargoReady' = Len(Tail(colas["new"])) + Len(colas["desalojo"])
        BY <4>1, Zenon DEF LargoReady
      <4> DEFINE x == Len(colas["new"])
                 y == Len(colas["desalojo"])
                 z == Len(Tail(colas["new"]))
      <4>3. x \in Nat /\ y \in Nat
        BY <1>t DEF ColasOK, Colas
      <4>4. z = x - 1
        BY <2>5, <3>3, Zenon
      <4>5. LargoReady = x + y /\ LargoReady' = z + y
        BY <4>2, Zenon DEF LargoReady
      <4> HIDE DEF x, y, z
      <4> QED
        BY <4>3, <4>4, <4>5
    <3>4. CASE cola = "desalojo"
      <4>1. colas'["desalojo"] = Tail(colas["desalojo"]) /\ colas'["new"] = colas["new"]
        BY <2>4, <3>4
      <4>2. LargoReady' = Len(colas["new"]) + Len(Tail(colas["desalojo"]))
        BY <4>1, Zenon DEF LargoReady
      <4> DEFINE x == Len(colas["desalojo"])
                 y == Len(colas["new"])
                 z == Len(Tail(colas["desalojo"]))
      <4>3. x \in Nat /\ y \in Nat
        BY <1>t DEF ColasOK, Colas
      <4>4. z = x - 1
        BY <2>5, <3>4, Zenon
      <4>5. LargoReady = y + x /\ LargoReady' = y + z
        BY <4>2, Zenon DEF LargoReady
      <4> HIDE DEF x, y, z
      <4> QED
        BY <4>3, <4>4, <4>5
    <3> QED
      BY <3>3, <3>4
  <2>8. LargoExit' = LargoExit
    BY <2>4 DEF LargoExit
  <2>9. (Cuenta /\ AgingAparte)'
    <3>1. /\ SemReady' = SemReady + 0 /\ CuantosReady' = CuantosReady + (-1)
          /\ LargoReady' = LargoReady + 0 + (-1) /\ SemExit' = SemExit + 0
          /\ CuantosExit' = CuantosExit + 0 /\ LargoExit' = LargoExit + 0 + 0
      BY <2>2, <2>3, <2>6, <2>7, <2>8, ConteoTipos
    <3> QED
      BY <1>r, <1>t, <2>1, <3>1, Mueve
  <2> QED
    BY <2>1, <2>9 DEF Elegida
<1>3. CASE ReadyCodEspera
  <2> DEFINE hasta == IF Algoritmo = "FIFO" THEN "comenzarAging" ELSE "hayExecute"
  <2>1. Va(Ready, "codEspera", hasta) /\ colas' = colas /\ sem' = sem
    BY <1>3 DEF ReadyCodEspera, PonCampo
  <2>2. "codEspera" \notin Pendiente /\ hasta \notin Pendiente
    BY DEF Pendiente, PendienteReady, PendienteExit
  <2> HIDE DEF hasta
  <2> QED
    BY <2>1, <2>2, VaAjeno
<1>4. CASE ReadyPublica
  <2> DEFINE q == hilo[Ready].actual
             ocioso == [hilo EXCEPT ![Ready] = Inicial(Ready)]
  <2>1. hilo[Ready].pc = "comenzarAging" /\ Inicial(Ready).pc = "esperar"
    BY <1>4 DEF ReadyPublica, Inicial, Ready
  <2>2. \A g \in Hilos : ocioso[g].pc # hilo[g].pc =>
          hilo[g].pc \notin Pendiente /\ ocioso[g].pc \notin Pendiente
    BY <1>t, <2>1 DEF HiloOK, Pendiente, PendienteReady, PendienteExit
  <2>3. q \in Queries /\ hilo[Aging(q)].pc \notin Pendiente /\ "condicion" \notin Pendiente
    BY <1>t, <2>1 DEF HiloOK, HiloBien, SinActual, Conteo, AgingAparte, Pendiente, PendienteReady,
                      PendienteExit
  <2>4. ocioso \in [Hilos -> Hilo]
    <3>1. HiloBien(Ready, Inicial(Ready))
      BY DEF HiloBien, Inicial, Ready, Hilo, Etiquetas, SinActual, ConVictima
    <3> QED
      BY <1>t, <3>1 DEF HiloOK, HiloBien
  <2>5. \A g \in Hilos : hilo'[g].pc # hilo[g].pc =>
          hilo[g].pc \notin Pendiente /\ hilo'[g].pc \notin Pendiente
    <3> HIDE DEF ocioso, q
    <3>1. CASE hilo' = ocioso
      BY <2>2, <3>1, Zenon
    <3>2. CASE hilo' = [ocioso EXCEPT ![Aging(q)].pc = "condicion"]
      <4>1. \A g \in Hilos : hilo'[g].pc = IF g = Aging(q) THEN "condicion" ELSE ocioso[g].pc
        BY <2>4, <3>2 DEF Hilo
      <4> QED
        <5> TAKE g \in Hilos
        <5>1. CASE g = Aging(q)
          BY <2>3, <2>2, <4>1, <5>1
        <5>2. CASE g # Aging(q)
          BY <2>2, <4>1, <5>2
        <5> QED
          BY <5>1, <5>2
    <3> QED
      BY <1>4, <3>1, <3>2 DEF ReadyPublica, ocioso, q
  <2>6. \A s \in {"esperandoReady", "exit"} : sem'[s] = sem[s]
    BY <1>4, <1>t DEF ReadyPublica, SemOK
  <2>7. colas' = colas
    BY <1>4 DEF ReadyPublica
  <2>8. Ajeno
    BY <2>5, <2>6, <2>7 DEF Ajeno
  <2> QED
    BY <2>8, AjenoConteo
<1> QED
  BY <1>1, <1>2, <1>3, <1>4 DEF MasterReady, PasoReady

\* Thread exitStatus: the wait and the pop together.
LEMMA ExitConteo == ASSUME Conteo, MasterExit PROVE (Cuenta /\ Elegida /\ AgingAparte)'
<1> USE HilosTipo
<1>t. Conteo /\ HiloOK /\ SemOK /\ ColasOK
  BY ConteoTipos
<1>1. CASE ExitLibera
  <2>1. /\ hilo[Exit].pc = "esperar" /\ hilo'[Exit].pc = "cerrar"
        /\ \A g \in Hilos \ {Exit} : hilo'[g].pc = hilo[g].pc
    BY <1>1, <1>t DEF ExitLibera, HiloOK, Hilo
  <2>2. CuantosReady' = CuantosReady /\ CuantosExit' = CuantosExit
    <3>1. \A L \in {PendienteReady, PendienteExit} : "esperar" \notin L /\ "cerrar" \notin L
      BY DEF PendienteReady, PendienteExit
    <3> QED
      BY <2>1, <3>1, Queda DEF CuantosReady, CuantosExit
  <2>3. /\ colas'["new"] = colas["new"] /\ colas'["desalojo"] = colas["desalojo"]
        /\ colas'["exit"] = Tail(colas["exit"]) /\ colas["exit"] # <<>>
    BY <1>1, <1>t DEF ExitLibera, ColasOK, Colas
  <2>4. LargoReady' = LargoReady
    BY <2>3 DEF LargoReady
  <2>5. LargoExit' = LargoExit - 1
    <3>1. Len(Tail(colas["exit"])) = Len(colas["exit"]) - 1
      BY <2>3, CabezaTipo, ConteoTipos
    <3> QED
      BY <2>3, <3>1, Zenon DEF LargoExit
  <2>6. SemReady' = SemReady /\ SemExit' = SemExit - 1
    BY <1>1, <1>t DEF ExitLibera, SemOK, SemReady, SemExit
  <2>7. (Cuenta /\ AgingAparte)'
    <3>1. /\ SemReady' = SemReady + 0 /\ CuantosReady' = CuantosReady + 0
          /\ LargoReady' = LargoReady + 0 + 0 /\ SemExit' = SemExit + (-1)
          /\ CuantosExit' = CuantosExit + 0 /\ LargoExit' = LargoExit + (-1) + 0
      BY <2>2, <2>4, <2>5, <2>6, ConteoTipos, SMTT(30)
    <3>2. Exit[1] # "aging"
      BY DEF Exit
    <3> QED
      BY <1>t, <2>1, <3>1, <3>2, Mueve
  <2>8. Elegida'
    <3>1. Ready \in Hilos \ {Exit}
      BY DEF Ready, Exit
    <3> QED
      BY <2>1, <2>3, <3>1 DEF Conteo, Elegida
  <2> QED
    BY <2>7, <2>8
<1>2. CASE ExitCierra
  <2>1. Va(Exit, "cerrar", "esperar") /\ colas' = colas /\ sem' = sem
    BY <1>2 DEF ExitCierra, PonCampo
  <2>2. "cerrar" \notin Pendiente /\ "esperar" \notin Pendiente
    BY DEF Pendiente, PendienteReady, PendienteExit
  <2> QED
    BY <2>1, <2>2, VaAjeno
<1> QED
  BY <1>1, <1>2 DEF MasterExit, PasoExit

\* A post of semQueryExit by a thread that had pushed.
LEMMA PublicaCuenta ==
  ASSUME Conteo, NEW h \in Hilos, h[1] # "aging", NEW desde \in PendienteExit, NEW hasta,
         hasta \notin Pendiente, Va(h, desde, hasta), colas' = colas,
         sem' = [sem EXCEPT !["exit"] = @ + 1]
  PROVE  (Cuenta /\ Elegida /\ AgingAparte)'
<1>1. SemReady' = SemReady /\ SemExit' = SemExit + 1
  BY ConteoTipos DEF SemOK, SemReady, SemExit
<1>2. LargoReady' = LargoReady /\ LargoExit' = LargoExit
  BY DEF LargoReady, LargoExit
<1>3. CuantosReady' = CuantosReady /\ CuantosExit' = CuantosExit - 1
  <2>1. /\ Uno(hasta \in PendienteReady) = 0 /\ Uno(desde \in PendienteReady) = 0
        /\ Uno(hasta \in PendienteExit) = 0 /\ Uno(desde \in PendienteExit) = 1
    BY DEF Uno, Pendiente, PendienteReady, PendienteExit
  <2> QED
    BY <2>1, VaCuantos, ConteoTipos
<1>4. /\ SemReady' = SemReady + 0 /\ CuantosReady' = CuantosReady + 0
      /\ LargoReady' = LargoReady + 0 + 0 /\ SemExit' = SemExit + 1
      /\ CuantosExit' = CuantosExit + (-1) /\ LargoExit' = LargoExit + 1 + (-1)
  BY <1>1, <1>2, <1>3, ConteoTipos, SMTT(30)
<1>5. hasta \notin {"sacaNew", "sacaDesalojo"}
  BY DEF Pendiente, PendienteReady
<1> QED
  BY <1>4, <1>5, VaCuenta

\* The code of the threads that may evict.
LEMMA DesalojoConteo ==
  ASSUME Conteo, NEW h \in Hilos, MasterDesalojo(h)
  PROVE  (Cuenta /\ Elegida /\ AgingAparte)'
<1>r. Retorno(h) \in {"comenzarAging", "condicion", "registrar"}
  BY DEF Retorno
<1> USE DEF Pendiente, PendienteReady, PendienteExit
<1>1. CASE VerificaHayExecute(h)
  <2> DEFINE hasta == IF colas["execute"] # <<>> THEN "todosTienen" ELSE Retorno(h)
  <2>1. hasta \notin Pendiente /\ "hayExecute" \notin Pendiente
    BY <1>r
  <2>2. Va(h, "hayExecute", hasta) /\ colas' = colas /\ sem' = sem
    BY <1>1 DEF VerificaHayExecute, Mira
  <2> HIDE DEF hasta, Pendiente
  <2> QED
    BY <2>1, <2>2, VaAjeno
<1>2. CASE VerificaTodosTienen(h)
  <2> DEFINE hasta == IF TodosLosWorkersTienenQuery THEN "ultima" ELSE Retorno(h)
  <2>1. hasta \notin Pendiente /\ "todosTienen" \notin Pendiente
    BY <1>r
  <2>2. Va(h, "todosTienen", hasta) /\ colas' = colas /\ sem' = sem
    BY <1>2 DEF VerificaTodosTienen, Mira
  <2> HIDE DEF hasta, Pendiente
  <2> QED
    BY <2>1, <2>2, VaAjeno
<1>3. CASE VerificaUltima(h) \/ VerificaToma(h) \/ VerificaPropia(h) \/ DesalojoBusca(h) \/ Serializa(h)
  <2>1. \E desde \in {"ultima", "tomar", "propia", "buscar", "serializar"},
           hasta \in {"tomar", "propia", "comparar", "marcar", "enviar"},
           campo \in {"numero", "victima", "destino", "mensaje"} :
             \E valor : Anota(h, desde, hasta, campo, valor)
    BY <1>3, Zenon DEF VerificaUltima, VerificaToma, VerificaPropia, DesalojoBusca, Serializa
  <2> QED
    BY <2>1, AnotaAjeno
<1>4. CASE VerificaCompara(h) \/ Envia(h)
  <2>1. /\ hilo[h].pc \in {"comparar", "enviar"}
        /\ colas' = colas /\ sem' = sem
    BY <1>4 DEF VerificaCompara, Envia
  <2>2. PICK r : /\ hilo' = [hilo EXCEPT ![h] = r]
                 /\ r.pc \in {"buscar", "recibir", "comenzarAging", "condicion", "registrar"}
    <3>1. CASE VerificaCompara(h)
      <4> DEFINE d == EsMasPrioritaria(hilo[h].numero, qm[hilo[h].victima].prioridad)
                 e == IF d THEN "buscar" ELSE Retorno(h)
                 v == IF d THEN hilo[h].victima ELSE Ninguna
                 r == [hilo[h] EXCEPT !.pc = e, !.numero = 0, !.victima = v]
      <4>1. hilo' = [hilo EXCEPT ![h] = r]
        BY <3>1, Zenon DEF VerificaCompara
      <4>2. e \in {"buscar", "comenzarAging", "condicion", "registrar"}
        BY <1>r
      <4> HIDE DEF d, e, v
      <4>3. r.pc = e
        BY ConteoTipos DEF HiloOK, Hilo
      <4> QED
        BY <4>1, <4>2, <4>3
    <3>2. CASE Envia(h)
      <4> DEFINE e == IF Desaloja(h) THEN Retorno(h) ELSE "recibir"
                 r == [hilo[h] EXCEPT !.pc = e, !.mensaje = Ninguna, !.victima = Ninguna,
                                      !.destino = Ninguna]
      <4>1. hilo' = [hilo EXCEPT ![h] = r]
        BY <3>2, Zenon DEF Envia
      <4>2. e \in {"recibir", "comenzarAging", "condicion", "registrar"}
        BY <1>r
      <4> HIDE DEF e
      <4>3. r.pc = e
        BY ConteoTipos DEF HiloOK, Hilo
      <4> QED
        BY <4>1, <4>2, <4>3
    <3> QED
      BY <1>4, <3>1, <3>2
  <2>3. hilo'[h].pc = r.pc /\ \A g \in Hilos \ {h} : hilo'[g].pc = hilo[g].pc
    BY <2>2, ConteoTipos DEF HiloOK
  <2>4. Ajeno
    BY <2>1, <2>2, <2>3 DEF Ajeno
  <2> QED
    BY <2>4, AjenoConteo
<1>5. CASE DesalojoMarca(h)
  <2>1. PonCampo(h, "marcar", "serializar", hilo[h].victima, "cod", "DESALOJO")
    BY <1>5 DEF DesalojoMarca
  <2> QED
    BY <2>1, PonCampoAjeno
<1>6. CASE PublicaExit(h)
  <2> DEFINE hasta == IF h[1] = "worker" THEN "liberarId" ELSE "fin"
  <2>1. /\ Va(h, "postExit", hasta) /\ colas' = colas /\ sem' = [sem EXCEPT !["exit"] = @ + 1]
        /\ hasta \notin Pendiente /\ "postExit" \in PendienteExit
    BY <1>6 DEF PublicaExit
  <2>2. h[1] # "aging"
    <3>1. h[1] = "aging" => h = Aging(h[2]) /\ h[2] \in Queries
      BY DEF Hilos, Aging
    <3>2. hilo[h].pc = "postExit"
      BY <2>1 DEF Va
    <3> QED
      BY <3>1, <3>2 DEF Conteo, AgingAparte
  <2> HIDE DEF hasta, Pendiente, PendienteExit
  <2> QED
    BY <2>1, <2>2, PublicaCuenta
<1> QED
  BY <1>1, <1>2, <1>3, <1>4, <1>5, <1>6 DEF MasterDesalojo, PasoDesalojo

\* The aging threads neither push nor post.
LEMMA AgingConteo ==
  ASSUME Conteo, NEW q \in Queries, MasterAging(q)
  PROVE  (Cuenta /\ Elegida /\ AgingAparte)'
<1> DEFINE h == Aging(q)
<1>h. h \in Hilos
  BY HilosTipo
<1>p. \A e \in {"condicion", "dormido", "disminuir", "ordenar", "saliendo", "hayExecute", "fin"} :
        e \notin Pendiente
  BY DEF Pendiente, PendienteReady, PendienteExit
<1> HIDE DEF h
<1>1. CASE AgingCondicion(q)
  <2> DEFINE hasta == IF SigueEnvejeciendo(q) THEN "dormido" ELSE "saliendo"
  <2>1. Va(h, "condicion", hasta) /\ colas' = colas /\ sem' = sem
    BY <1>1 DEF AgingCondicion, Mira, h
  <2>2. hasta \notin Pendiente
    BY <1>p
  <2> HIDE DEF hasta
  <2> QED
    BY <1>h, <1>p, <2>1, <2>2, VaAjeno
<1>2. CASE AgingDespierta(q)
  <2> DEFINE hasta == IF SigueEnvejeciendo(q) THEN "disminuir" ELSE "condicion"
  <2>1. Va(h, "dormido", hasta) /\ colas' = colas /\ sem' = sem
    BY <1>2 DEF AgingDespierta, Mira, h
  <2>2. hasta \notin Pendiente
    BY <1>p
  <2> HIDE DEF hasta
  <2> QED
    BY <1>h, <1>p, <2>1, <2>2, VaAjeno
<1>3. CASE AgingDisminuye(q) \/ AgingSale(q)
  <2>1. \E desde \in {"disminuir", "saliendo"}, hasta \in {"ordenar", "fin"},
           campo \in {"prioridad", "agingIniciado"} : \E valor :
             PonCampo(h, desde, hasta, q, campo, valor)
    BY <1>3, Zenon DEF AgingDisminuye, AgingSale, h
  <2> QED
    BY <1>h, <1>p, <2>1, PonCampoAjeno
<1>4. CASE AgingOrdena(q)
  <2>1. \E V : PonCola(h, "ordenar", "hayExecute", "ready", V)
    BY <1>4, Zenon DEF AgingOrdena, h
  <2> QED
    BY <1>h, <1>p, <2>1, PonColaAjeno
<1> QED
  BY <1>1, <1>2, <1>3, <1>4 DEF MasterAging, PasoAging

\* The thread of a Query Control: the arrival pushes and posts at once.
LEMMA QueryConteo ==
  ASSUME Conteo, NEW q \in Queries, MasterQuery(q)
  PROVE  (Cuenta /\ Elegida /\ AgingAparte)'
<1> DEFINE h == DeQuery(q)
<1>h. h \in Hilos /\ h[1] # "aging"
  BY HilosTipo DEF DeQuery
<1>p. \A e \in {"conectar", "escuchar", "desconectar", "buscarReady", "buscar", "registrar", "fin",
          "desconectarReady", "sacarReady", "codFinReady", "exitReady"} : e \notin Pendiente
  BY DEF Pendiente, PendienteReady, PendienteExit
<1> HIDE DEF h
<1>1. CASE ConectaQuery(q)
  <2>1. /\ Va(h, "conectar", "escuchar") /\ sem' = [sem EXCEPT !["esperandoReady"] = @ + 1]
        /\ colas' = [colas EXCEPT !["new"] = Append(colas["new"], q)]
    BY <1>1 DEF ConectaQuery, h
  <2>2. /\ colas'["new"] = Append(colas["new"], q) /\ colas'["desalojo"] = colas["desalojo"]
        /\ colas'["exit"] = colas["exit"]
    BY <2>1, ConteoTipos DEF ColasOK, Colas
  <2>3. Len(Append(colas["new"], q)) = Len(colas["new"]) + 1 /\ Append(colas["new"], q) # <<>>
    BY ConteoTipos, AppendProperties
  <2>4. LargoReady' = LargoReady + 1
    <3> DEFINE x == Len(colas["new"])
               y == Len(colas["desalojo"])
               z == Len(Append(colas["new"], q))
    <3>1. x \in Nat /\ y \in Nat
      BY ConteoTipos
    <3>2. z = x + 1
      BY <2>3, Zenon
    <3>3. LargoReady = x + y /\ LargoReady' = z + y
      BY <2>2, Zenon DEF LargoReady
    <3> HIDE DEF x, y, z
    <3> QED
      BY <3>1, <3>2, <3>3
  <2>5. LargoExit' = LargoExit
    BY <2>2 DEF LargoExit
  <2>6. SemReady' = SemReady + 1 /\ SemExit' = SemExit
    BY <2>1, ConteoTipos DEF SemOK, SemReady, SemExit
  <2>7. CuantosReady' = CuantosReady /\ CuantosExit' = CuantosExit
    <3>1. \A L \in {PendienteReady, PendienteExit} :
            Uno("conectar" \in L) = 0 /\ Uno("escuchar" \in L) = 0
      BY DEF PendienteReady, PendienteExit, Uno
    <3> QED
      BY <1>h, <2>1, <3>1, VaCuantos, ConteoTipos
  <2>8. /\ SemReady' = SemReady + 1 /\ CuantosReady' = CuantosReady + 0
        /\ LargoReady' = LargoReady + 1 + 0 /\ SemExit' = SemExit + 0
        /\ CuantosExit' = CuantosExit + 0 /\ LargoExit' = LargoExit + 0 + 0
    BY <2>4, <2>5, <2>6, <2>7, ConteoTipos
  <2> QED
    BY <1>h, <2>1, <2>2, <2>3, <2>8, VaCuenta, SMTT(30)
<1>2. CASE DetectaDesconexion(q)
  <2> DEFINE hasta == IF WorkerEjecutandoQuery(q) # Ninguna THEN "desconectar" ELSE "buscarReady"
  <2>1. Va(h, "escuchar", hasta) /\ colas' = colas /\ sem' = sem
    BY <1>2 DEF DetectaDesconexion, Mira, h
  <2>2. hasta \notin Pendiente
    BY <1>p
  <2> HIDE DEF hasta
  <2> QED
    BY <1>h, <1>p, <2>1, <2>2, VaAjeno
<1>3. CASE DesconectaEnExecute(q)
  <2>1. /\ hilo[h].pc = "desconectar" /\ hilo'[h].pc = "buscar" /\ colas' = colas /\ sem' = sem
        /\ \A g \in Hilos \ {h} : hilo'[g].pc = hilo[g].pc
    BY <1>3, <1>h, ConteoTipos DEF DesconectaEnExecute, HiloOK, Hilo, h
  <2>2. Ajeno
    BY <1>p, <2>1 DEF Ajeno
  <2> QED
    BY <2>2, AjenoConteo
<1>4. CASE RegistraDesconexion(q)
  <2>1. Va(h, "registrar", "fin") /\ colas' = colas /\ sem' = sem
    BY <1>4 DEF RegistraDesconexion, Mira, h
  <2> QED
    BY <1>h, <1>p, <2>1, VaAjeno
<1>5. CASE BuscaEnReady(q)
  <2> DEFINE hasta == IF Contains(colas["ready"], q) THEN "desconectarReady" ELSE "fin"
  <2>1. Va(h, "buscarReady", hasta) /\ colas' = colas /\ sem' = sem
    BY <1>5 DEF BuscaEnReady, Mira, h
  <2>2. hasta \notin Pendiente
    BY <1>p
  <2> HIDE DEF hasta
  <2> QED
    BY <1>h, <1>p, <2>1, <2>2, VaAjeno
<1>6. CASE DesconectaEnReady(q) \/ PoneFinReady(q)
  <2>1. \E desde \in {"desconectarReady", "codFinReady"}, hasta \in {"sacarReady", "exitReady"},
           campo \in {"desconectado", "cod"} : \E valor :
             PonCampo(h, desde, hasta, q, campo, valor)
    BY <1>6, Zenon DEF DesconectaEnReady, PoneFinReady, h
  <2> QED
    BY <1>h, <1>p, <2>1, PonCampoAjeno
<1>7. CASE SacaDeReady(q)
  <2>1. \E V : PonCola(h, "sacarReady", "codFinReady", "ready", V)
    BY <1>7, Zenon DEF SacaDeReady, h
  <2> QED
    BY <1>h, <1>p, <2>1, PonColaAjeno
<1>8. CASE ExitDeReady(q)
  <2>1. EncolaExit(h, "exitReady", "postExit") /\ "postExit" \in PendienteExit
    BY <1>8 DEF ExitDeReady, PendienteExit, h
  <2> QED
    BY <1>h, <1>p, <2>1, EncolaCuenta
<1> QED
  BY <1>1, <1>2, <1>3, <1>4, <1>5, <1>6, <1>7, <1>8 DEF MasterQuery, PasoQuery

\* The thread of a Worker: an eviction pushes and then posts, and so do an end
\* and an eviction of a query whose Query Control left.
LEMMA WorkerConteo ==
  ASSUME Conteo, NEW w \in Workers, MasterWorker(w)
  PROVE  (Cuenta /\ Elegida /\ AgingAparte)'
<1> DEFINE h == DeWorker(w)
           fuera == {"conectar", "esperar", "agregar", "codEjecucion", "asignar", "serializar",
                     "recibir", "responder", "desalojar", "mirarQC", "reencolar", "codQCFin",
                     "codDesconectada",
                     "liberarId", "finalizar", "avisar", "sacarExecute", "agregarExit", "fin"}
<1>h. h \in Hilos /\ h[1] # "aging"
  BY HilosTipo DEF DeWorker
<1>p. \A e \in fuera : e \notin Pendiente
  BY DEF Pendiente, PendienteReady, PendienteExit
<1>1. CASE \/ ConectaWorker(w) \/ AsignaQuery(w) \/ RecibeRespuesta(w) \/ Responde(w) \/ Finaliza(w)
           \/ DesalojaLiberaId(w) \/ DetectaCaida(w) \/ AvisaFin(w)
  <2>1. \E desde \in fuera, hasta \in fuera : Va(h, desde, hasta) /\ colas' = colas /\ sem' = sem
    <3>1. \A cod : Destino(cod) \in fuera
      BY DEF Destino
    <3> HIDE DEF h
    <3>2. CASE ConectaWorker(w)
      BY <3>2 DEF ConectaWorker, h
    <3>3. CASE AsignaQuery(w) \/ Finaliza(w) \/ DesalojaLiberaId(w)
      BY <3>3 DEF AsignaQuery, Finaliza, DesalojaLiberaId, PoneIdQuery, h
    <3>4. CASE RecibeRespuesta(w)
      BY <3>1, <3>4 DEF RecibeRespuesta, h
    <3>5. CASE Responde(w) \/ DetectaCaida(w) \/ AvisaFin(w)
      BY <3>5 DEF Responde, DetectaCaida, AvisaFin, h
    <3> QED
      BY <1>1, <3>2, <3>3, <3>4, <3>5
  <2> HIDE DEF h, fuera
  <2> QED
    BY <1>h, <1>p, <2>1, VaAjeno
<1>2. CASE TomaReady(w)
  <2>1. /\ hilo[h].pc = "esperar" /\ hilo'[h].pc = "agregar"
        /\ \A g \in Hilos \ {h} : hilo'[g].pc = hilo[g].pc
    BY <1>2, <1>h, ConteoTipos DEF TomaReady, HiloOK, Hilo
  <2>2. /\ \A c \in {"new", "desalojo", "exit"} : colas'[c] = colas[c]
        /\ \A s \in {"esperandoReady", "exit"} : sem'[s] = sem[s]
    BY <1>2, ConteoTipos DEF TomaReady, ColasOK, SemOK, Colas
  <2>3. Ajeno
    <3> HIDE DEF h
    <3> QED
      BY <1>p, <2>1, <2>2 DEF Ajeno
  <2> QED
    BY <2>3, AjenoConteo
<1>3. CASE AgregaExecute(w) \/ DesalojaSacaExecute(w) \/ SacaExecute(w)
  <2>1. \E desde \in fuera, hasta \in fuera \cup {"codEjecucion"} : \E V :
          PonCola(h, desde, hasta, "execute", V)
    <3> HIDE DEF h
    <3>1. \E V : \/ PonCola(h, "agregar", "codEjecucion", "execute", V)
                 \/ PonCola(h, "desalojar", "mirarQC", "execute", V)
                 \/ PonCola(h, "sacarExecute", "agregarExit", "execute", V)
      BY <1>3, Zenon DEF AgregaExecute, DesalojaSacaExecute, SacaExecute, h
    <3> QED
      BY <3>1
  <2> HIDE DEF h, fuera
  <2> QED
    BY <1>h, <1>p, <2>1, PonColaAjeno DEF fuera
<1>4. CASE PoneEjecucion(w) \/ DesalojaDesconectada(w)
  <2>1. \E desde \in fuera, hasta \in fuera : \E valor :
          PonCampo(h, desde, hasta, Suya(w), "cod", valor)
    <3> HIDE DEF h
    <3>1. \E valor : \/ PonCampo(h, "codEjecucion", "asignar", Suya(w), "cod", valor)
                     \/ PonCampo(h, "codQCFin", "codDesconectada", Suya(w), "cod", valor)
      BY <1>4, Zenon DEF PoneEjecucion, DesalojaDesconectada, h
    <3> QED
      BY <3>1
  <2> HIDE DEF h, fuera
  <2> QED
    BY <1>h, <1>p, <2>1, PonCampoAjeno
<1>5. CASE DesalojaReencola(w)
  <2> HIDE DEF h
  <2> DEFINE s == Append(colas["desalojo"], Suya(w))
  <2>1. /\ Va(h, "reencolar", "codReencolada") /\ sem' = sem
        /\ colas' = [colas EXCEPT !["desalojo"] = s]
    BY <1>5 DEF DesalojaReencola, PonCola, h
  <2>2. /\ colas'["new"] = colas["new"] /\ colas'["desalojo"] = s
        /\ colas'["exit"] = colas["exit"]
    BY <2>1, ConteoTipos DEF ColasOK, Colas
  <2>3. Len(s) = Len(colas["desalojo"]) + 1 /\ s # <<>>
    <3>1. Suya(w) \in Queries
      <4>1. hilo[h].pc = "reencolar" /\ hilo[h].actual = Suya(w)
        BY <2>1 DEF Va, Suya, h
      <4> QED
        BY <1>h, <4>1, ConteoTipos DEF HiloOK, HiloBien, SinActual
    <3>2. PICK d \in Seq(Queries) : d = colas["desalojo"]
      BY ConteoTipos
    <3>3. Append(d, Suya(w)) # <<>> /\ Len(Append(d, Suya(w))) = Len(d) + 1
      BY <3>1, AppendProperties
    <3> QED
      BY <3>2, <3>3
  <2>4. LargoReady' = LargoReady + 1
    <3> DEFINE x == Len(colas["desalojo"])
               y == Len(colas["new"])
               z == Len(s)
    <3>1. x \in Nat /\ y \in Nat
      BY ConteoTipos
    <3>2. z = x + 1
      BY <2>3, Zenon
    <3>3. LargoReady = y + x /\ LargoReady' = y + z
      BY <2>2, Zenon DEF LargoReady
    <3> HIDE DEF x, y, z
    <3> QED
      BY <3>1, <3>2, <3>3
  <2>5. LargoExit' = LargoExit
    BY <2>2 DEF LargoExit
  <2>6. SemReady' = SemReady /\ SemExit' = SemExit
    BY <2>1 DEF SemReady, SemExit
  <2>7. CuantosReady' = CuantosReady + 1 /\ CuantosExit' = CuantosExit
    <3>1. /\ Uno("reencolar" \in PendienteReady) = 0 /\ Uno("codReencolada" \in PendienteReady) = 1
          /\ Uno("reencolar" \in PendienteExit) = 0 /\ Uno("codReencolada" \in PendienteExit) = 0
      BY DEF PendienteReady, PendienteExit, Uno
    <3> QED
      BY <1>h, <2>1, <3>1, VaCuantos, ConteoTipos
  <2>8. /\ SemReady' = SemReady + 0 /\ CuantosReady' = CuantosReady + 1
        /\ LargoReady' = LargoReady + 0 + 1 /\ SemExit' = SemExit + 0
        /\ CuantosExit' = CuantosExit + 0 /\ LargoExit' = LargoExit + 0 + 0
    BY <2>4, <2>5, <2>6, <2>7, ConteoTipos
  <2> HIDE DEF s
  <2> QED
    BY <1>h, <2>1, <2>2, <2>3, <2>8, VaCuenta
<1>6. CASE DesalojaPublica(w)
  <2> HIDE DEF h
  <2>1. /\ Va(h, "codReencolada", "liberarId") /\ colas' = colas
        /\ sem' = [sem EXCEPT !["esperandoReady"] = @ + 1]
    BY <1>6 DEF DesalojaPublica, h
  <2>2. LargoReady' = LargoReady /\ LargoExit' = LargoExit
    BY <2>1 DEF LargoReady, LargoExit
  <2>3. SemReady' = SemReady + 1 /\ SemExit' = SemExit
    BY <2>1, ConteoTipos DEF SemOK, SemReady, SemExit
  <2>4. CuantosReady' = CuantosReady - 1 /\ CuantosExit' = CuantosExit
    <3>1. /\ Uno("liberarId" \in PendienteReady) = 0 /\ Uno("codReencolada" \in PendienteReady) = 1
          /\ Uno("liberarId" \in PendienteExit) = 0 /\ Uno("codReencolada" \in PendienteExit) = 0
      BY DEF PendienteReady, PendienteExit, Uno
    <3> QED
      BY <1>h, <2>1, <3>1, VaCuantos, ConteoTipos
  <2>5. /\ SemReady' = SemReady + 1 /\ CuantosReady' = CuantosReady + (-1)
        /\ LargoReady' = LargoReady + 1 + (-1) /\ SemExit' = SemExit + 0
        /\ CuantosExit' = CuantosExit + 0 /\ LargoExit' = LargoExit + 0 + 0
    BY <2>2, <2>3, <2>4, ConteoTipos
  <2> QED
    BY <1>h, <2>1, <2>5, VaCuenta
<1>7. CASE DesalojaExit(w) \/ AgregaExit(w)
  <2> HIDE DEF h
  <2>1. \/ EncolaExit(h, "codDesconectada", "postExit")
        \/ EncolaExit(h, "agregarExit", "codFin")
    BY <1>7 DEF DesalojaExit, AgregaExit, h
  <2>2. "postExit" \in PendienteExit /\ "codFin" \in PendienteExit
    BY DEF PendienteExit
  <2> QED
    BY <1>h, <1>p, <2>1, <2>2, EncolaCuenta
<1>8. CASE PoneFin(w)
  <2> HIDE DEF h
  <2> DEFINE hasta == IF Contains(listaWorker, w) THEN "esperar" ELSE "fin"
  <2>1. Va(h, "codFin", hasta) /\ colas' = colas /\ sem' = [sem EXCEPT !["exit"] = @ + 1]
    BY <1>8 DEF PoneFin, h
  <2>2. hasta \notin Pendiente /\ "codFin" \in PendienteExit
    BY <1>p DEF PendienteExit
  <2> HIDE DEF hasta
  <2> QED
    BY <1>h, <2>1, <2>2, PublicaCuenta
<1>9. CASE DesalojaMiraQC(w)
  <2> DEFINE hasta == IF qm[Suya(w)].desconectado THEN "codQCFin" ELSE "reencolar"
  <2>1. Va(h, "mirarQC", hasta) /\ colas' = colas /\ sem' = sem
    BY <1>9 DEF DesalojaMiraQC, Mira, h
  <2>2. hasta \notin Pendiente /\ "mirarQC" \notin Pendiente
    BY <1>p
  <2> HIDE DEF hasta, h
  <2> QED
    BY <1>h, <2>1, <2>2, VaAjeno
<1> QED
  BY <1>1, <1>2, <1>3, <1>4, <1>5, <1>6, <1>7, <1>8, <1>9 DEF MasterWorker, PasoWorker

-----------------------------------------------------------------------------
(* The theorem.                                                            *)

\* Nothing is queued, posted or pending at the start.
LEMMA ConteoInit == Init => Conteo
<1> SUFFICES ASSUME Init PROVE Conteo
  OBVIOUS
<1>1. Tipos
  BY TiposInit
<1>2. \A h \in Hilos : hilo[h].pc \in {"esperar", "conectar", "fin"}
  <2>1. \A h \in Hilos : Inicial(h).pc \in {"esperar", "conectar", "fin"}
    BY DEF Inicial
  <2> QED
    BY <2>1 DEF Init, InitMaster
<1>3. HilosEn(PendienteReady) = {} /\ HilosEn(PendienteExit) = {}
  BY <1>2 DEF HilosEn, PendienteReady, PendienteExit
<1>4. CuantosReady = 0 /\ CuantosExit = 0
  BY <1>3, FS_EmptySet DEF CuantosReady, CuantosExit
<1>5. \A c \in {"new", "desalojo", "exit"} : colas[c] = <<>>
  BY DEF Init, InitMaster, Colas
<1>6. LargoReady = 0 /\ LargoExit = 0
  <2>1. Len(colas["new"]) = 0 /\ Len(colas["desalojo"]) = 0 /\ Len(colas["exit"]) = 0
    BY <1>5
  <2> QED
    BY <1>5, <2>1 DEF LargoReady, LargoExit
<1>7. SemReady = 0 /\ SemExit = 0
  BY DEF Init, InitMaster, SemReady, SemExit
<1>8. Elegida
  BY <1>2, HilosTipo DEF Elegida
<1>9. AgingAparte
  BY <1>2, HilosTipo DEF AgingAparte, Pendiente, PendienteReady, PendienteExit
<1> QED
  BY <1>1, <1>4, <1>6, <1>7, <1>8, <1>9 DEF Conteo, Cuenta

\* Every step keeps the count.
LEMMA ConteoPaso == Conteo /\ [Next]_vars => Conteo'
<1> SUFFICES ASSUME Conteo, [Next]_vars PROVE Conteo'
  OBVIOUS
<1>1. Tipos'
  BY TiposPaso DEF Conteo
<1>2. ASSUME hilo' = hilo, colas' = colas, sem' = sem PROVE (Cuenta /\ Elegida /\ AgingAparte)'
  BY <1>2, AjenoConteo DEF Ajeno
<1>3. ASSUME NEW h \in Hilos, MasterFalla(h) PROVE (Cuenta /\ Elegida /\ AgingAparte)'
  BY <1>2, <1>3 DEF MasterFalla, PasoFalla, FallaPunteroNulo, FallaUsoTrasLiberar,
         FallaDobleLiberacion, FallaSIGPIPE, Muere
<1>4. ASSUME NEW q \in Queries, QCTermina(q) \/ QCAbandona(q)
      PROVE  (Cuenta /\ Elegida /\ AgingAparte)'
  BY <1>2, <1>4 DEF QCTermina, QCAbandona, CierraQC, varsMaster
<1>5. ASSUME NEW w \in Workers, Worker(w) \/ WorkerCae(w)
      PROVE  (Cuenta /\ Elegida /\ AgingAparte)'
  BY <1>2, <1>5 DEF Worker, WorkerCae, varsMaster
<1>6. ASSUME UNCHANGED vars PROVE (Cuenta /\ Elegida /\ AgingAparte)'
  BY <1>2, <1>6 DEF vars, varsMaster
<1>7. (Cuenta /\ Elegida /\ AgingAparte)'
  BY <1>3, <1>4, <1>5, <1>6, ReadyConteo, ExitConteo, DesalojoConteo, AgingConteo, QueryConteo,
     WorkerConteo DEF Next
<1> QED
  BY <1>1, <1>7 DEF Conteo

\* Whatever the number of queries and Workers, and whoever leaves or crashes,
\* ready never pops colaNew or colaDesalojo while it is empty, though it looks
\* at them and pops in different mutex sections, and exitStatus never finds
\* colaExit empty behind a post.
THEOREM ColasNuncaVacias == Spec => []ReadyYExitEncuentran
<1>1. Spec => []Conteo
  BY ConteoInit, ConteoPaso, PTL DEF Spec
<1>2. Conteo => ReadyYExitEncuentran
  <2> SUFFICES ASSUME Conteo PROVE ReadyYExitEncuentran
    OBVIOUS
  <2>1. SemExit <= LargoExit
    BY ConteoTipos DEF Cuenta
  <2>2. sem["exit"] <= Len(colas["exit"])
    BY <2>1, Zenon DEF SemExit, LargoExit
  <2> QED
    BY <2>2 DEF Conteo, Elegida, ReadyYExitEncuentran
<1> QED
  BY <1>1, <1>2, PTL
=============================================================================
