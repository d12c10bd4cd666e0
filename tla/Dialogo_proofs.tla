--------------------------- MODULE Dialogo_proofs ---------------------------
(***************************************************************************)
(* Under FIFO, with Query Controls that stay, the Master and each Worker   *)
(* agree on the query that is executed: one order, then its answers, then  *)
(* its end, whichever Workers crash.  So what is sent is an order to       *)
(* execute, each reply is of the query it is applied to, nobody waits in   *)
(* vain, no two Workers have the same query, and a query that was freed is *)
(* touched only by the end of enviarExit; with one Worker that stays, not  *)
(* even there.                                                             *)
(***************************************************************************)
EXTENDS Lugares_proofs

Fifo == Algoritmo = "FIFO"

-----------------------------------------------------------------------------
(* The invariant.                                                          *)

\* Who is at which label when nobody evicts, ages or leaves.
DeFifo == [
  ready  |-> {"esperar", "sacaNew", "sacaDesalojo", "codEspera", "comenzarAging"},
  exit   |-> {"esperar", "cerrar"},
  aging  |-> {"fin"},
  query  |-> {"conectar", "escuchar", "buscarReady", "fin"},
  worker |-> {"fin", "conectar", "esperar", "agregar", "codEjecucion", "asignar", "serializar",
              "enviar", "recibir", "responder", "finalizar", "avisar", "sacarExecute",
              "agregarExit", "codFin"}]
EnFifo == \A h \in Hilos : hilo[h].pc \in DeFifo[h[1]]

\* A connected Worker that seems busy is: its idQuery is the query its thread
\* has, so that nobody is sent to evict one that ended.
ConId == {"serializar", "enviar", "recibir", "responder", "finalizar"}
Conectados ==
  /\ IsInjective(listaWorker)
  /\ \A w \in ToSet(listaWorker) : Etiqueta(w) # "conectar"
  /\ \A w \in Workers : Etiqueta(w) = "conectar" => idQuery[w] = Ninguna
  /\ \A w \in ToSet(listaWorker) :
       idQuery[w] # Ninguna => idQuery[w] = Suya(w) /\ Etiqueta(w) \in ConId

\* The mark of a query holds from its writing to its packet.
Pedido(w) == [q |-> Suya(w), cod |-> "EJECUCION", pc |-> 0]
Marca(w) ==
  /\ Etiqueta(w) \in {"asignar", "serializar"} => qm[Suya(w)].cod = "EJECUCION"
  /\ Etiqueta(w) = "enviar" => hilo[DeWorker(w)].mensaje = Pedido(w)
  /\ Etiqueta(w) = "codFin" => Avisada(Suya(w))
Marcas ==
  /\ \A q \in Queries : qm[q].pc = 0
  /\ \A w \in Workers : Marca(w)

\* The query that ready marks ESPERA after the insertion is still the last one
\* of listaReady: nobody takes it before the post.
Ultima(s, q) == s # <<>> /\ s[Len(s)] = q
Recien ==
  hilo[Ready].pc \in {"codEspera", "comenzarAging"} =>
    Ultima(colas["ready"], hilo[Ready].actual)

\* What the process of w has of the query that its thread sent: nothing, the
\* packet, queryActual and a post, or the query in execution.  After END it
\* goes once through the label verificar with nothing left.
Activo(w) == ejec[w].en = "ejecutar" \/ (ejec[w].en = "verificar" /\ ejec[w].pc < Largo - 1)
Libre(w) == aWorker[w] = <<>> /\ semQuery[w] = 0 /\ queryActual[w] = NULL /\ ~Activo(w)
EnCamino(w) ==
  aWorker[w] = <<Pedido(w)>> /\ semQuery[w] = 0 /\ queryActual[w] = NULL /\ ~Activo(w)
Recibida(w) ==
  /\ aWorker[w] = <<>> /\ semQuery[w] = 1 /\ ~Activo(w)
  /\ queryActual[w] = [q |-> Suya(w), pc |-> 0]
EnCurso(w) ==
  /\ aWorker[w] = <<>> /\ semQuery[w] = 0 /\ Activo(w) /\ ejec[w].q = Suya(w)
  /\ queryActual[w].q = Suya(w)
Trabaja(w) == EnCamino(w) \/ Recibida(w) \/ EnCurso(w)

\* What comes back: answers of the query, and its end at the end.
Mensajes(s, q) ==
  \A i \in 1 .. Len(s) :
    s[i].q = q /\ (s[i].cod = "RESPUESTA" \/ (s[i].cod = "FIN" /\ i = Len(s)))
Contestada(s) == s # <<>> /\ s[Len(s)].cod = "FIN"

Muerto(w) == socketWorker[w] # "abierto"
Habla == {"recibir", "responder"}
Conversa(w) ==
  /\ Mensajes(aMaster[w], Suya(w))
  /\ \/ Trabaja(w) /\ ~Contestada(aMaster[w])
     \/ Libre(w) /\ (Contestada(aMaster[w]) \/ Muerto(w))
Platica(w) ==
  /\ ~interrupcion[w] /\ ejec[w].en # "persistir"
  /\ Muerto(w) <=> ejec[w].en = "muerto"
  /\ Muerto(w) => Libre(w)
  /\ IF Etiqueta(w) \in Habla THEN Conversa(w) ELSE aMaster[w] = <<>> /\ Libre(w)

Dialogo == EnFifo /\ Conectados /\ Marcas /\ Recien /\ \A w \in Workers : Platica(w)
EnDialogo == Ubicadas /\ Dialogo

-----------------------------------------------------------------------------
(* What a step leaves alone.                                               *)

\* The labels of each kind of thread.
LEMMA FifoEtiquetas ==
  ASSUME EnFifo
  PROVE  /\ hilo[Ready].pc \in DeFifo.ready /\ hilo[Exit].pc \in DeFifo.exit
         /\ \A q \in Queries : hilo[Aging(q)].pc = "fin" /\ hilo[DeQuery(q)].pc \in DeFifo.query
         /\ \A w \in Workers : Etiqueta(w) \in DeFifo.worker
BY HilosTipo, HilosNombres DEF EnFifo, DeFifo, Etiqueta

\* One thread moves to a label of its own.
LEMMA FifoPaso ==
  ASSUME EnFifo, NEW h \in Hilos, SoloHilo(h), hilo'[h].pc \in DeFifo[h[1]]
  PROVE  EnFifo'
BY DEF EnFifo, SoloHilo

\* The process of w and its channels stay as they were.
Callado(w) ==
  /\ aWorker'[w] = aWorker[w] /\ aMaster'[w] = aMaster[w] /\ socketWorker'[w] = socketWorker[w]
  /\ queryActual'[w] = queryActual[w] /\ semQuery'[w] = semQuery[w]
  /\ interrupcion'[w] = interrupcion[w] /\ ejec'[w] = ejec[w]

\* Its thread goes on waiting for the answer, or for something else.
LEMMA PlaticaIgual ==
  ASSUME NEW w \in Workers, Platica(w), Callado(w),
         Etiqueta(w)' \in Habla <=> Etiqueta(w) \in Habla,
         Etiqueta(w) \in Habla => Suya(w)' = Suya(w)
  PROVE  Platica(w)'
<1>1. (Muerto(w)' <=> Muerto(w)) /\ (Activo(w)' <=> Activo(w)) /\ (Libre(w)' <=> Libre(w))
  BY DEF Callado, Muerto, Activo, Libre, NULL
<1>2. CASE Etiqueta(w) \in Habla
  <2>1. Suya(w)' = Suya(w) /\ Pedido(w)' = Pedido(w)
    BY <1>2 DEF Pedido
  <2>2. Trabaja(w)' <=> Trabaja(w)
    BY <1>1, <2>1 DEF Callado, Trabaja, EnCamino, Recibida, EnCurso, NULL
  <2>3. Mensajes(aMaster[w], Suya(w))' <=> Mensajes(aMaster[w], Suya(w))
    BY <2>1 DEF Callado, Mensajes
  <2>4. Contestada(aMaster[w])' <=> Contestada(aMaster[w])
    BY DEF Callado, Contestada
  <2>5. Conversa(w)' <=> Conversa(w)
    BY <1>1, <2>2, <2>3, <2>4 DEF Conversa
  <2> QED
    BY <1>1, <1>2, <2>5 DEF Platica, Callado
<1>3. CASE Etiqueta(w) \notin Habla
  BY <1>1, <1>3 DEF Platica, Callado
<1> QED
  BY <1>2, <1>3

\* A step of the Master that sends and receives nothing of the Workers.
EnSilencio == UNCHANGED <<aWorker, aMaster, socketWorker, varsInterprete>>
LEMMA SilencioCallado ==
  ASSUME EnSilencio
  PROVE  \A w : Callado(w)
BY DEF EnSilencio, Callado, varsInterprete

\* The Query Controls are told of an end once and for all.
NadieOlvida == \A q \in Queries : Avisada(q) => Avisada(q)'

\* The marks of the query of a Worker whose thread does not move.
LEMMA MarcaIgual ==
  ASSUME Ubicadas, NEW w \in Workers, Marca(w), hilo'[DeWorker(w)] = hilo[DeWorker(w)], NadieOlvida,
         Etiqueta(w) \in {"asignar", "serializar"} => qm'[Suya(w)].cod = qm[Suya(w)].cod
  PROVE  Marca(w)'
<1>1. Etiqueta(w)' = Etiqueta(w) /\ Suya(w)' = Suya(w) /\ Pedido(w)' = Pedido(w)
  BY DEF Etiqueta, Suya, Pedido
<1>2. Etiqueta(w) = "codFin" => Suya(w) \in Queries
  <2>1. HiloBien(DeWorker(w), hilo[DeWorker(w)])
    BY HilosTipo DEF Ubicadas, Tipos, MasterOK, HiloOK
  <2> QED
    BY <2>1 DEF HiloBien, SinActual, Etiqueta, Suya
<1> QED
  BY <1>1, <1>2 DEF Marca, NadieOlvida

\* A step of a thread that is not of a Worker.
LEMMA OtroDialogo ==
  ASSUME EnDialogo, NEW h \in Hilos, h[1] # "worker", SoloHilo(h), hilo'[h].pc \in DeFifo[h[1]],
         EnSilencio, UNCHANGED varsWorkers, NadieOlvida,
         \A q \in Queries : qm'[q].pc = qm[q].pc,
         \A w \in Workers :
           Etiqueta(w) \in {"asignar", "serializar"} => qm'[Suya(w)].cod = qm[Suya(w)].cod,
         Recien'
  PROVE  Dialogo'
<1>1. \A w \in Workers : hilo'[DeWorker(w)] = hilo[DeWorker(w)]
  BY HilosTipo, HilosNombres DEF SoloHilo
<1>2. \A w \in Workers : Etiqueta(w)' = Etiqueta(w) /\ Suya(w)' = Suya(w)
  BY <1>1 DEF Etiqueta, Suya
<1>3. EnFifo'
  BY FifoPaso DEF EnDialogo, Dialogo
<1>4. Conectados'
  <2>1. listaWorker' = listaWorker /\ idQuery' = idQuery /\ ToSet(listaWorker) \subseteq Workers
    BY DEF varsWorkers, EnDialogo, Ubicadas, Tipos, MasterOK, WorkersOK, ToSet
  <2> QED
    BY <1>2, <2>1 DEF EnDialogo, Dialogo, Conectados
<1>5. Marcas'
  <2>1. \A w \in Workers : Marca(w)'
    BY <1>1, MarcaIgual DEF EnDialogo, Dialogo, Marcas
  <2> QED
    BY <2>1 DEF EnDialogo, Dialogo, Marcas
<1>6. \A w \in Workers : Platica(w)'
  BY <1>2, SilencioCallado, PlaticaIgual DEF EnDialogo, Dialogo
<1> QED
  BY <1>3, <1>4, <1>5, <1>6 DEF Dialogo

\* The query that entered listaReady is there still.
LEMMA RecienIgual ==
  ASSUME Recien, colas'["ready"] = colas["ready"], hilo'[Ready] = hilo[Ready]
  PROVE  Recien'
BY DEF Recien, Ultima

-----------------------------------------------------------------------------
(* The threads of the Master that speak with no Worker.                    *)

\* A query is in one list.
LEMMA UnaCola ==
  ASSUME Ubicadas, NEW c \in Colas, NEW d \in Colas, c # d
  PROVE  ToSet(colas[c]) \cap ToSet(colas[d]) = {}
<1>1. EnCola(c) \in Lugares /\ EnCola(d) \in Lugares /\ EnCola(c) # EnCola(d)
  BY LugarForma
<1> QED
  BY <1>1, LugarContenido DEF Ubicadas, UnLugar

\* The query that just entered listaReady is executed by nobody.
LEMMA RecienAparte ==
  ASSUME EnDialogo, hilo[Ready].pc \in {"codEspera", "comenzarAging"}
  PROVE  /\ hilo[Ready].actual \in ToSet(colas["ready"])
         /\ \A w \in Workers : Etiqueta(w) \in ConExecute => Suya(w) # hilo[Ready].actual
<1>1. Ultima(colas["ready"], hilo[Ready].actual)
  BY DEF EnDialogo, Dialogo, Recien
<1>2. colas["ready"] \in Seq(Queries)
  BY DEF EnDialogo, Ubicadas, Tipos, MasterOK, ColasOK, Colas
<1>3. Len(colas["ready"]) \in DOMAIN colas["ready"]
  BY <1>1, <1>2, EmptySeq, LenProperties DEF Ultima
<1>4. hilo[Ready].actual \in ToSet(colas["ready"])
  BY <1>1, <1>3 DEF Ultima, ToSet
<1>5. ToSet(colas["ready"]) \cap ToSet(colas["execute"]) = {}
  BY UnaCola DEF EnDialogo, Colas
<1> QED
  BY <1>4, <1>5 DEF EnDialogo, Ubicadas, Ejecutores

\* ReadyEspera chooses a queue.
LEMMA ReadyEsperaDialogo ==
  ASSUME EnDialogo, ReadyEspera, UNCHANGED varsInterprete
  PROVE  Dialogo'
<1>1. Ready \in Hilos /\ Ready[1] = "ready"
  BY HilosTipo, HilosNombres
<1>2. /\ SoloHilo(Ready) /\ hilo'[Ready].pc = ColaSiguiente
      /\ UNCHANGED <<colas, varsWorkers, qm, varsCanales>>
  BY <1>1, VaSolo DEF ReadyEspera, EnDialogo, Ubicadas, Tipos, MasterOK
<1>3. hilo'[Ready].pc \in {"sacaNew", "sacaDesalojo"}
  BY <1>2 DEF ColaSiguiente
<1>4. hilo'[Ready].pc \in DeFifo[Ready[1]] /\ Recien'
  BY <1>1, <1>3 DEF DeFifo, Recien
<1>5. EnSilencio /\ NadieOlvida
  BY <1>2 DEF EnSilencio, NadieOlvida, Avisada, varsCanales
<1> QED
  BY <1>1, <1>2, <1>4, <1>5, OtroDialogo

\* ReadySaca leaves its query at the end of listaReady.
LEMMA ReadySacaDialogo ==
  ASSUME Fifo, EnDialogo, NEW cola \in {"new", "desalojo"}, NEW desde, ReadySaca(cola, desde),
         UNCHANGED varsInterprete
  PROVE  Dialogo'
<1> DEFINE q == Head(colas[cola])
<1>1. Ready \in Hilos /\ Ready[1] = "ready"
  BY HilosTipo, HilosNombres
<1>2. colas["ready"] \in Seq(Queries) /\ q \in Queries /\ colas \in [Colas -> Seq(Queries)]
      /\ cola \in Colas \ {"ready"} /\ "ready" \in Colas
  BY CabezaTipo DEF ReadySaca, EnDialogo, Ubicadas, Tipos, MasterOK, ColasOK, Colas
<1> HIDE DEF q
<1>3. colas' = [colas EXCEPT !["ready"] = Append(colas["ready"], q), ![cola] = Tail(@)]
  BY DEF ReadySaca, Inserciones, Fifo, q
<1>4. colas'["ready"] = Append(colas["ready"], q)
  BY <1>2, <1>3
<1>5. /\ hilo' = [hilo EXCEPT ![Ready].pc = "codEspera", ![Ready].actual = q]
      /\ UNCHANGED <<sem, varsWorkers, qm, vivo, varsCanales>>
  BY DEF ReadySaca, q
<1>6. SoloHilo(Ready) /\ hilo'[Ready].pc = "codEspera" /\ hilo'[Ready].actual = q
  BY <1>1, <1>5 DEF SoloHilo, EnDialogo, Ubicadas, Tipos, MasterOK, HiloOK, Hilo
<1>7. Ultima(colas'["ready"], q)
  <2>1. Len(colas'["ready"]) = Len(colas["ready"]) + 1 /\ colas'["ready"][Len(colas["ready"]) + 1] = q
        /\ Len(colas["ready"]) \in Nat
    BY <1>2, <1>4, AppendProperties, LenProperties
  <2> QED
    BY <1>2, <1>4, <2>1, AppendProperties DEF Ultima
<1>8. hilo'[Ready].pc \in DeFifo[Ready[1]] /\ Recien'
  BY <1>1, <1>6, <1>7 DEF DeFifo, Recien
<1>9. EnSilencio /\ NadieOlvida
  BY <1>5 DEF EnSilencio, NadieOlvida, Avisada, varsCanales
<1> QED
  BY <1>1, <1>5, <1>6, <1>8, <1>9, OtroDialogo

\* Thread ready marks ESPERA a query that no Worker has.
LEMMA ReadyCodEsperaDialogo ==
  ASSUME Fifo, EnDialogo, ReadyCodEspera, UNCHANGED varsInterprete
  PROVE  Dialogo'
<1>1. Ready \in Hilos /\ Ready[1] = "ready"
  BY HilosTipo, HilosNombres
<1>2. /\ Va(Ready, "codEspera", "comenzarAging")
      /\ qm' = [qm EXCEPT ![hilo[Ready].actual]["cod"] = "ESPERA"]
      /\ UNCHANGED <<colas, sem, varsWorkers, varsCanales>>
  BY DEF ReadyCodEspera, PonCampo, Fifo
<1>3. /\ SoloHilo(Ready) /\ hilo[Ready].pc = "codEspera" /\ hilo'[Ready].pc = "comenzarAging"
      /\ hilo'[Ready].actual = hilo[Ready].actual
  BY <1>1, <1>2, VaSolo DEF EnDialogo, Ubicadas, Tipos, MasterOK
<1>4. hilo'[Ready].pc \in DeFifo[Ready[1]]
  BY <1>1, <1>3 DEF DeFifo
<1>5. Recien'
  BY <1>2, <1>3 DEF EnDialogo, Dialogo, Recien, Ultima
<1>6. EnSilencio /\ NadieOlvida
  BY <1>2 DEF EnSilencio, NadieOlvida, Avisada, varsCanales
<1>7. qm \in [Queries -> Registro]
  BY DEF EnDialogo, Ubicadas, Tipos, MasterOK, QmOK
<1>8. \A p \in Queries : qm'[p].pc = qm[p].pc /\ (p # hilo[Ready].actual => qm'[p].cod = qm[p].cod)
  BY <1>2, <1>7 DEF Registro
<1>9. \A w \in Workers :
        Etiqueta(w) \in {"asignar", "serializar"} => qm'[Suya(w)].cod = qm[Suya(w)].cod
  BY <1>3, <1>8, RecienAparte, SuyaTipo DEF ConExecute, EnDialogo
<1> QED
  BY <1>1, <1>2, <1>3, <1>4, <1>5, <1>6, <1>8, <1>9, OtroDialogo

\* Under FIFO no aging thread starts.
LEMMA ReadyPublicaDialogo ==
  ASSUME Fifo, EnDialogo, ReadyPublica, UNCHANGED varsInterprete
  PROVE  Dialogo'
<1>1. Ready \in Hilos /\ Ready[1] = "ready"
  BY HilosTipo, HilosNombres
<1>2. ~DebeEnvejecer(hilo[Ready].actual)
  BY DEF DebeEnvejecer, Fifo
<1>3. /\ hilo' = [hilo EXCEPT ![Ready] = Inicial(Ready)] /\ UNCHANGED <<colas, varsWorkers, varsCanales>>
      /\ qm' = [qm EXCEPT ![hilo[Ready].actual].agingIniciado = @ \/ DebeEnvejecer(hilo[Ready].actual)]
  BY <1>2 DEF ReadyPublica
<1>4. SoloHilo(Ready) /\ hilo'[Ready].pc = "esperar"
  BY <1>1, <1>3 DEF SoloHilo, Inicial, EnDialogo, Ubicadas, Tipos, MasterOK, HiloOK
<1>5. hilo'[Ready].pc \in DeFifo[Ready[1]] /\ Recien'
  BY <1>1, <1>4 DEF DeFifo, Recien
<1>6. EnSilencio /\ NadieOlvida
  BY <1>3 DEF EnSilencio, NadieOlvida, Avisada, varsCanales
<1>7. qm \in [Queries -> Registro]
  BY DEF EnDialogo, Ubicadas, Tipos, MasterOK, QmOK
<1>8. \A p \in Queries : qm'[p].pc = qm[p].pc /\ qm'[p].cod = qm[p].cod
  BY <1>3, <1>7 DEF Registro
<1>9. \A w \in Workers :
        Etiqueta(w) \in {"asignar", "serializar"} => qm'[Suya(w)].cod = qm[Suya(w)].cod
  BY <1>8, SuyaTipo DEF ConExecute, EnDialogo
<1> QED
  BY <1>1, <1>3, <1>4, <1>5, <1>6, <1>8, <1>9, OtroDialogo

\* Thread ready.
LEMMA ReadyDialogo ==
  ASSUME Fifo, EnDialogo, MasterReady
  PROVE  Dialogo'
BY ReadyEsperaDialogo, ReadySacaDialogo, ReadyCodEsperaDialogo, ReadyPublicaDialogo
   DEF MasterReady, PasoReady

\* Thread exitStatus frees what ended.
LEMMA ExitDialogo ==
  ASSUME EnDialogo, MasterExit
  PROVE  Dialogo'
<1>1. Exit \in Hilos /\ Exit[1] = "exit" /\ Exit # Ready /\ Ready \in Hilos
  BY HilosTipo, HilosNombres
<1>2. qm \in [Queries -> Registro] /\ colas \in [Colas -> Seq(Queries)]
  BY DEF EnDialogo, Ubicadas, Tipos, MasterOK, QmOK, ColasOK
<1>3. /\ SoloHilo(Exit) /\ hilo'[Exit].pc \in {"cerrar", "esperar"}
      /\ colas'["ready"] = colas["ready"] /\ UNCHANGED <<varsWorkers, varsCanales, varsInterprete>>
      /\ \A q \in Queries : qm'[q].pc = qm[q].pc /\ qm'[q].cod = qm[q].cod
  <2>1. CASE ExitLibera
    <3>1. /\ hilo' = [hilo EXCEPT ![Exit].pc = "cerrar", ![Exit].actual = Head(colas["exit"])]
          /\ colas' = [colas EXCEPT !["exit"] = Tail(@)] /\ UNCHANGED <<varsWorkers, varsCanales>>
          /\ qm' = [qm EXCEPT ![Head(colas["exit"])].liberada = "query"]
      BY <2>1 DEF ExitLibera
    <3>2. SoloHilo(Exit) /\ hilo'[Exit].pc = "cerrar"
      BY <1>1, <3>1 DEF SoloHilo, EnDialogo, Ubicadas, Tipos, MasterOK, HiloOK, Hilo
    <3>3. colas'["ready"] = colas["ready"]
      BY <1>2, <3>1 DEF Colas
    <3>4. \A q \in Queries : qm'[q].pc = qm[q].pc /\ qm'[q].cod = qm[q].cod
      BY <1>2, <3>1 DEF Registro
    <3> QED
      BY <3>1, <3>2, <3>3, <3>4 DEF MasterExit
  <2>2. CASE ExitCierra
    <3>1. /\ Va(Exit, "cerrar", "esperar") /\ UNCHANGED <<colas, varsWorkers, varsCanales>>
          /\ qm' = [qm EXCEPT ![hilo[Exit].actual]["liberada"] = "todo"]
      BY <2>2 DEF ExitCierra, PonCampo
    <3>2. SoloHilo(Exit) /\ hilo'[Exit].pc = "esperar"
      BY <1>1, <3>1, VaSolo DEF EnDialogo, Ubicadas, Tipos, MasterOK
    <3>3. \A q \in Queries : qm'[q].pc = qm[q].pc /\ qm'[q].cod = qm[q].cod
      BY <1>2, <3>1 DEF Registro
    <3> QED
      BY <3>1, <3>2, <3>3 DEF MasterExit
  <2> QED
    BY <2>1, <2>2 DEF MasterExit, PasoExit
<1>4. hilo'[Exit].pc \in DeFifo[Exit[1]]
  BY <1>1, <1>3 DEF DeFifo
<1>5. Recien'
  <2>1. hilo'[Ready] = hilo[Ready]
    BY <1>1, <1>3 DEF SoloHilo
  <2> QED
    BY <1>3, <2>1, RecienIgual DEF EnDialogo, Dialogo
<1>6. EnSilencio /\ NadieOlvida
  BY <1>3 DEF EnSilencio, NadieOlvida, Avisada, varsCanales
<1>7. \A w \in Workers :
        Etiqueta(w) \in {"asignar", "serializar"} => qm'[Suya(w)].cod = qm[Suya(w)].cod
  BY <1>3, SuyaTipo DEF ConExecute, EnDialogo
<1> QED
  BY <1>1, <1>3, <1>4, <1>5, <1>6, <1>7, OtroDialogo

\* The aging threads never run.
LEMMA AgingDialogo ==
  ASSUME EnDialogo, NEW q \in Queries, MasterAging(q)
  PROVE  FALSE
<1>1. hilo[Aging(q)].pc = "fin"
  BY FifoEtiquetas DEF EnDialogo, Dialogo
<1> QED
  BY <1>1 DEF MasterAging, PasoAging, AgingCondicion, AgingDespierta, AgingDisminuye, AgingOrdena,
              AgingSale, Mira, PonCampo, PonCola, Va

\* A query whose Query Control is told of the end is no connected Worker's.
LEMMA NadieLaTiene ==
  ASSUME EnDialogo, NEW q \in Queries, Avisada(q)
  PROVE  WorkerEjecutandoQuery(q) = Ninguna
<1>1. SUFFICES ASSUME PosicionesConQuery(q) # {} PROVE FALSE
  BY DEF WorkerEjecutandoQuery
<1>2. PICK i \in DOMAIN listaWorker : idQuery[listaWorker[i]] = q
  BY <1>1 DEF PosicionesConQuery
<1>3. listaWorker[i] \in ToSet(listaWorker) /\ listaWorker[i] \in Workers /\ q # Ninguna
  BY <1>2, CanalesAssumption DEF ToSet, EnDialogo, Ubicadas, Tipos, MasterOK, WorkersOK
<1>4. q = Suya(listaWorker[i]) /\ Etiqueta(listaWorker[i]) \in Corriendo
  BY <1>2, <1>3 DEF EnDialogo, Dialogo, Conectados, ConId, Corriendo
<1> QED
  BY <1>3, <1>4 DEF EnDialogo, Ubicadas, Avisos

\* A Query Control arrives, or its thread sees it gone and finds nothing to do.
LEMMA QueryDialogo ==
  ASSUME EnDialogo, NEW q \in Queries, MasterQuery(q)
  PROVE  Dialogo'
<1> DEFINE h == DeQuery(q)
<1>1. h \in Hilos /\ h[1] = "query" /\ h # Ready /\ Ready \in Hilos
  BY HilosTipo, HilosNombres
<1>2. hilo[h].pc \in DeFifo.query
  BY FifoEtiquetas DEF EnDialogo, Dialogo
<1>3. qm \in [Queries -> Registro] /\ colas \in [Colas -> Seq(Queries)] /\ HiloOK
  BY DEF EnDialogo, Ubicadas, Tipos, MasterOK, QmOK, ColasOK
<1>4. ConectaQuery(q) \/ DetectaDesconexion(q) \/ BuscaEnReady(q)
  BY <1>2 DEF MasterQuery, PasoQuery, DeFifo, DesconectaEnExecute, RegistraDesconexion,
              DesconectaEnReady, SacaDeReady, PoneFinReady, ExitDeReady, EncolaExit, Mira, PonCampo,
              PonCola, Va
<1>5. /\ SoloHilo(h) /\ hilo'[h].pc \in {"escuchar", "buscarReady", "fin"}
      /\ colas'["ready"] = colas["ready"] /\ UNCHANGED <<varsWorkers, varsCanales>>
      /\ \A p \in Queries : qm'[p].pc = qm[p].pc /\ qm'[p].cod = qm[p].cod
  <2>1. CASE ConectaQuery(q)
    <3>1. /\ Va(h, "conectar", "escuchar") /\ UNCHANGED <<varsWorkers, varsCanales>>
          /\ \E p \in Pedidas : qm' = [qm EXCEPT ![q].prioridad = p]
          /\ colas' = [colas EXCEPT !["new"] = Append(@, q)]
      BY <2>1 DEF ConectaQuery
    <3>2. \A p \in Queries : qm'[p].pc = qm[p].pc /\ qm'[p].cod = qm[p].cod
      BY <1>3, <3>1 DEF Registro
    <3>3. colas'["ready"] = colas["ready"]
      BY <1>3, <3>1 DEF Colas
    <3>4. SoloHilo(h) /\ hilo'[h].pc = "escuchar"
      BY <1>1, <1>3, <3>1, VaSolo
    <3> QED
      BY <3>1, <3>2, <3>3, <3>4
  <2>2. CASE DetectaDesconexion(q)
    <3>1. socketQC[q] # "abierto"
          /\ Mira(h, "escuchar", WorkerEjecutandoQuery(q) # Ninguna, "desconectar", "buscarReady")
      BY <2>2 DEF DetectaDesconexion
    <3>2. WorkerEjecutandoQuery(q) = Ninguna
      BY <3>1, NadieLaTiene DEF EnDialogo, Ubicadas, Avisos
    <3>3. Va(h, "escuchar", "buscarReady") /\ UNCHANGED <<colas, sem, varsWorkers, qm, varsCanales>>
      BY <3>1, <3>2 DEF Mira
    <3>4. SoloHilo(h) /\ hilo'[h].pc = "buscarReady"
      BY <1>1, <1>3, <3>3, VaSolo
    <3> QED
      BY <3>3, <3>4
  <2>3. CASE BuscaEnReady(q)
    <3>1. Mira(h, "buscarReady", Contains(colas["ready"], q), "desconectarReady", "fin")
      BY <2>3 DEF BuscaEnReady
    <3>2. Avisada(q)
      BY <3>1 DEF Mira, Va, EnDialogo, Ubicadas, Avisos
    <3>3. ~Contains(colas["ready"], q)
      <4>1. q \notin ToSet(colas["ready"])
        BY <3>2 DEF EnDialogo, Ubicadas, Avisos
      <4> QED
        BY <1>3, <4>1 DEF Contains, ToSet, Colas
    <3>4. Va(h, "buscarReady", "fin") /\ UNCHANGED <<colas, sem, varsWorkers, qm, varsCanales>>
      BY <3>1, <3>3 DEF Mira
    <3>5. SoloHilo(h) /\ hilo'[h].pc = "fin"
      BY <1>1, <1>3, <3>4, VaSolo
    <3> QED
      BY <3>4, <3>5
  <2> QED
    BY <1>4, <2>1, <2>2, <2>3
<1>6. hilo'[h].pc \in DeFifo[h[1]]
  BY <1>1, <1>5 DEF DeFifo
<1>7. Recien'
  <2>1. hilo'[Ready] = hilo[Ready]
    BY <1>1, <1>5 DEF SoloHilo
  <2> QED
    BY <1>5, <2>1, RecienIgual DEF EnDialogo, Dialogo
<1>8. EnSilencio /\ NadieOlvida
  BY <1>5 DEF EnSilencio, NadieOlvida, Avisada, varsCanales, MasterQuery
<1>9. \A w \in Workers :
        Etiqueta(w) \in {"asignar", "serializar"} => qm'[Suya(w)].cod = qm[Suya(w)].cod
  BY <1>5, SuyaTipo DEF ConExecute, EnDialogo
<1> HIDE DEF h
<1> QED
  BY <1>1, <1>5, <1>6, <1>7, <1>8, <1>9, OtroDialogo

\* Nothing of the Master and the Workers moves: a Query Control ends, or the
\* Master does.
LEMMA QuietoDialogo ==
  ASSUME EnDialogo, UNCHANGED <<hilo, colas, qm, varsWorkers, avisos>>, EnSilencio
  PROVE  Dialogo'
<1>1. Exit \in Hilos /\ Exit[1] = "exit" /\ Exit # Ready /\ SoloHilo(Exit)
  BY HilosTipo, HilosNombres DEF SoloHilo
<1>2. hilo'[Exit].pc \in DeFifo[Exit[1]]
  BY <1>1 DEF EnDialogo, Dialogo, EnFifo
<1>3. Recien' /\ NadieOlvida
  BY RecienIgual DEF EnDialogo, Dialogo, NadieOlvida, Avisada
<1> QED
  BY <1>1, <1>2, <1>3, OtroDialogo

-----------------------------------------------------------------------------
(* The Worker threads of the Master.                                       *)

\* The step of one Worker thread.
LEMMA WorkerPaso ==
  ASSUME EnDialogo, NEW w \in Workers, SoloHilo(DeWorker(w)), Etiqueta(w)' \in DeFifo.worker,
         NadieOlvida, Conectados', \A q \in Queries : qm'[q].pc = 0,
         \A u \in Workers \ {w} :
           Etiqueta(u) \in {"asignar", "serializar"} => qm'[Suya(u)].cod = qm[Suya(u)].cod,
         \A u \in Workers \ {w} : Callado(u),
         Marca(w)', Platica(w)', Recien'
  PROVE  Dialogo'
<1>1. DeWorker(w) \in Hilos /\ DeWorker(w)[1] = "worker"
  BY HilosTipo, HilosNombres
<1>2. EnFifo'
  <2>1. hilo'[DeWorker(w)].pc \in DeFifo[DeWorker(w)[1]]
    BY <1>1 DEF Etiqueta
  <2> QED
    BY <1>1, <2>1, FifoPaso DEF EnDialogo, Dialogo
<1>3. ASSUME NEW u \in Workers \ {w} PROVE Marca(u)' /\ Platica(u)'
  <2>1. DeWorker(u) \in Hilos /\ DeWorker(u) # DeWorker(w)
    BY HilosTipo, HilosNombres
  <2>2. hilo'[DeWorker(u)] = hilo[DeWorker(u)]
    BY <2>1 DEF SoloHilo
  <2>3. Etiqueta(u)' = Etiqueta(u) /\ Suya(u)' = Suya(u)
    BY <2>2 DEF Etiqueta, Suya
  <2>4. Marca(u)'
    BY <2>2, MarcaIgual DEF EnDialogo, Dialogo, Marcas
  <2>5. Platica(u)'
    BY <2>3, PlaticaIgual DEF EnDialogo, Dialogo
  <2> QED
    BY <2>4, <2>5
<1>4. Marcas'
  BY <1>3 DEF Marcas
<1>5. \A u \in Workers : Platica(u)'
  BY <1>3
<1> QED
  BY <1>2, <1>4, <1>5 DEF Dialogo

\* The threads of the other Workers stay.
LEMMA OtrasEtiquetas ==
  ASSUME NEW w \in Workers, SoloHilo(DeWorker(w))
  PROVE  /\ \A u \in Workers \ {w} : Etiqueta(u)' = Etiqueta(u) /\ Suya(u)' = Suya(u)
         /\ hilo'[Ready] = hilo[Ready]
<1>1. \A u \in Workers : DeWorker(u) \in Hilos /\ (u # w => DeWorker(u) # DeWorker(w))
  BY HilosTipo, HilosNombres
<1>2. Ready \in Hilos /\ Ready # DeWorker(w)
  BY HilosTipo, HilosNombres
<1> QED
  BY <1>1, <1>2 DEF SoloHilo, Etiqueta, Suya

\* The Workers that are connected are the same, and w keeps its query while it
\* seems busy.
LEMMA ConectadosIgual ==
  ASSUME EnDialogo, NEW w \in Workers, SoloHilo(DeWorker(w)), UNCHANGED varsWorkers,
         Etiqueta(w)' # "conectar",
         Etiqueta(w) \in ConId => Etiqueta(w)' \in ConId /\ Suya(w)' = Suya(w)
  PROVE  Conectados'
<1>1. listaWorker' = listaWorker /\ idQuery' = idQuery /\ ToSet(listaWorker) \subseteq Workers
  BY DEF varsWorkers, EnDialogo, Ubicadas, Tipos, MasterOK, WorkersOK, ToSet
<1>2. \A u \in Workers \ {w} : Etiqueta(u)' = Etiqueta(u) /\ Suya(u)' = Suya(u)
  BY OtrasEtiquetas
<1> QED
  BY <1>1, <1>2 DEF EnDialogo, Dialogo, Conectados

\* A step that sends and receives nothing, of a thread that keeps to its part.
LEMMA SilencioPaso ==
  ASSUME EnDialogo, NEW w \in Workers, SoloHilo(DeWorker(w)), Etiqueta(w)' \in DeFifo.worker \ {"conectar"},
         NadieOlvida, EnSilencio, Conectados', colas'["ready"] = colas["ready"],
         \A q \in Queries : qm'[q].pc = 0,
         \A u \in Workers \ {w} :
           Etiqueta(u) \in {"asignar", "serializar"} => qm'[Suya(u)].cod = qm[Suya(u)].cod,
         Etiqueta(w)' \in Habla <=> Etiqueta(w) \in Habla,
         Etiqueta(w) \in Habla => Suya(w)' = Suya(w),
         Marca(w)'
  PROVE  Dialogo'
<1>1. \A u : Callado(u)
  BY SilencioCallado
<1>2. Platica(w)'
  BY <1>1, PlaticaIgual DEF EnDialogo, Dialogo
<1>3. Recien'
  BY OtrasEtiquetas, RecienIgual DEF EnDialogo, Dialogo
<1> QED
  BY <1>1, <1>2, <1>3, WorkerPaso

\* A step that writes no query.
LEMMA MismasQueries ==
  ASSUME EnDialogo, qm' = qm
  PROVE  /\ \A q \in Queries : qm'[q].pc = 0
         /\ \A w \in Workers : qm'[Suya(w)].cod = qm[Suya(w)].cod
BY DEF EnDialogo, Dialogo, Marcas

\* A step of w that writes the mark of its query.
LEMMA SoloSuQuery ==
  ASSUME EnDialogo, NEW w \in Workers, Etiqueta(w) \in Mano \cup ConExecute \cup {"codFin"},
         NEW cod, qm' = [qm EXCEPT ![Suya(w)].cod = cod]
  PROVE  /\ Suya(w) \in Queries /\ qm'[Suya(w)].cod = cod
         /\ \A q \in Queries : qm'[q].pc = 0
         /\ \A u \in Workers \ {w} :
              Etiqueta(u) \in {"asignar", "serializar"} => qm'[Suya(u)].cod = qm[Suya(u)].cod
<1>1. qm \in [Queries -> Registro] /\ Ubicadas
  BY DEF EnDialogo, Ubicadas, Tipos, MasterOK, QmOK
<1>2. Suya(w) \in Queries
  <2>1. HiloBien(DeWorker(w), hilo[DeWorker(w)])
    BY HilosTipo DEF EnDialogo, Ubicadas, Tipos, MasterOK, HiloOK
  <2> QED
    BY <2>1 DEF HiloBien, SinActual, Mano, ConExecute, Etiqueta, Suya
<1>3. /\ qm'[Suya(w)].cod = cod /\ \A q \in Queries : qm'[q].pc = qm[q].pc
      /\ \A q \in Queries \ {Suya(w)} : qm'[q].cod = qm[q].cod
  BY <1>1, <1>2 DEF Registro
<1>4. ASSUME NEW u \in Workers \ {w}, Etiqueta(u) \in {"asignar", "serializar"}
      PROVE  Suya(u) \in Queries /\ Suya(u) # Suya(w)
  <2>1. Etiqueta(u) \in ConExecute /\ Etiqueta(u) \in Corriendo
    BY <1>4 DEF ConExecute, Corriendo
  <2>2. Suya(u) \in Queries /\ ~Avisada(Suya(u))
    BY <1>1, <2>1, SuyaTipo DEF Ubicadas, Avisos
  <2>3. CASE Etiqueta(w) = "codFin"
    BY <2>2, <2>3 DEF EnDialogo, Dialogo, Marcas, Marca
  <2>4. CASE Etiqueta(w) \in Mano \cup ConExecute
    BY <1>1, <2>1, <2>2, <2>4, DosWorkers
  <2> QED
    BY <2>2, <2>3, <2>4
<1> QED
  BY <1>2, <1>3, <1>4 DEF EnDialogo, Dialogo, Marcas

\* The moves of Va, as the properties see them.
LEMMA VaWorker ==
  ASSUME EnDialogo, NEW w \in Workers, NEW d, NEW e, Va(DeWorker(w), d, e)
  PROVE  /\ SoloHilo(DeWorker(w)) /\ Etiqueta(w) = d /\ Etiqueta(w)' = e
         /\ e # "esperar" => Suya(w)' = Suya(w)
<1>1. DeWorker(w) \in Hilos /\ HiloOK
  BY HilosTipo DEF EnDialogo, Ubicadas, Tipos, MasterOK
<1> QED
  BY <1>1, VaSolo DEF Etiqueta, Suya

\* A Worker connects.
LEMMA ConectaWorkerDialogo ==
  ASSUME EnDialogo, NEW w \in Workers, ConectaWorker(w), UNCHANGED varsInterprete
  PROVE  Dialogo'
<1>1. /\ Va(DeWorker(w), "conectar", "esperar") /\ UNCHANGED <<colas, sem, idQuery, qm, varsCanales>>
      /\ listaWorker' = Append(listaWorker, w)
  BY DEF ConectaWorker
<1>2. SoloHilo(DeWorker(w)) /\ Etiqueta(w) = "conectar" /\ Etiqueta(w)' = "esperar"
  BY <1>1, VaWorker
<1>3. Conectados'
  <2>1. listaWorker \in Seq(Workers)
    BY DEF EnDialogo, Ubicadas, Tipos, MasterOK, WorkersOK
  <2>2. w \notin ToSet(listaWorker) /\ IsInjective(listaWorker) /\ idQuery[w] = Ninguna
    BY <1>2 DEF EnDialogo, Dialogo, Conectados
  <2>3. ToSet(listaWorker') = ToSet(listaWorker) \cup {w} /\ IsInjective(listaWorker')
    BY <1>1, <2>1, <2>2, AppendConjunto
  <2>4. \A u \in Workers \ {w} : Etiqueta(u)' = Etiqueta(u) /\ Suya(u)' = Suya(u)
    BY <1>2, OtrasEtiquetas
  <2>5. ToSet(listaWorker) \subseteq Workers
    BY <2>1 DEF ToSet
  <2> QED
    BY <1>1, <1>2, <2>2, <2>3, <2>4, <2>5 DEF EnDialogo, Dialogo, Conectados
<1>4. EnSilencio /\ NadieOlvida
  BY <1>1 DEF EnSilencio, NadieOlvida, Avisada, varsCanales
<1>5. Etiqueta(w)' \in DeFifo.worker \ {"conectar"} /\ Etiqueta(w)' \notin Habla
      /\ Etiqueta(w) \notin Habla /\ Marca(w)'
  BY <1>2 DEF DeFifo, Habla, Marca
<1> QED
  BY <1>1, <1>2, <1>3, <1>4, <1>5, MismasQueries, SilencioPaso

\* What is left of a sequence without its first element.
LEMMA TailCorre ==
  ASSUME NEW S, NEW s \in Seq(S), s # <<>>
  PROVE  /\ Tail(s) \in Seq(S) /\ Len(s) \in Nat /\ Len(s) > 0 /\ Len(Tail(s)) = Len(s) - 1
         /\ \A k \in 1 .. Len(s) - 1 : Tail(s)[k] = s[k + 1]
         /\ Tail(s) = <<>> <=> Len(s) = 1
<1>1. SinUno(Tail(s), s, 1)
  BY TailElementos
<1>2. Len(s) \in Nat /\ Len(s) > 0 /\ Tail(s) \in Seq(S) /\ Len(Tail(s)) = Len(s) - 1
  BY CabezaTipo, LenProperties
<1>3. Tail(s) = <<>> <=> Len(Tail(s)) = 0
  BY <1>2, EmptySeq
<1>4. \A k \in 1 .. Len(s) - 1 : Tail(s)[k] = s[k + 1]
  BY <1>1, <1>2 DEF SinUno
<1> QED
  BY <1>2, <1>3, <1>4

\* A Worker thread takes the first of listaReady, which is not the one that
\* ready has just put there: there are more queries than posts.
LEMMA TomaReadyDialogo ==
  ASSUME EnDialogo, NEW w \in Workers, TomaReady(w), UNCHANGED varsInterprete
  PROVE  Dialogo'
<1>1. /\ hilo[DeWorker(w)].pc = "esperar" /\ sem["ready"] > 0 /\ colas["ready"] # <<>>
      /\ colas' = [colas EXCEPT !["ready"] = Tail(@)] /\ UNCHANGED <<varsWorkers, qm, vivo, varsCanales>>
      /\ hilo' = [hilo EXCEPT ![DeWorker(w)].pc = "agregar",
                              ![DeWorker(w)].actual = Head(colas["ready"])]
  BY DEF TomaReady
<1>2. DeWorker(w) \in Hilos
  BY HilosTipo
<1>3. SoloHilo(DeWorker(w)) /\ Etiqueta(w) = "esperar" /\ Etiqueta(w)' = "agregar"
  BY <1>1, <1>2 DEF SoloHilo, Etiqueta, EnDialogo, Ubicadas, Tipos, MasterOK, HiloOK, Hilo
<1>4. Recien'
  <2>1. hilo'[Ready] = hilo[Ready]
    BY <1>3, OtrasEtiquetas
  <2>2. SUFFICES ASSUME hilo[Ready].pc \in {"codEspera", "comenzarAging"}
                 PROVE  Ultima(colas'["ready"], hilo[Ready].actual)
    BY <2>1 DEF Recien
  <2> DEFINE s == colas["ready"]
  <2>3. s \in Seq(Queries) /\ sem["ready"] \in Nat /\ colas'["ready"] = Tail(s) /\ s # <<>>
    BY <1>1 DEF EnDialogo, Ubicadas, Tipos, MasterOK, ColasOK, SemOK, Colas
  <2>4. Len(s) = sem["ready"] + 1 /\ s[Len(s)] = hilo[Ready].actual
    BY <2>2 DEF EnDialogo, Ubicadas, Fichas, Uno, ReadyTrae, Dialogo, Recien, Ultima
  <2>5. sem["ready"] >= 1
    BY <1>1, <2>3
  <2> HIDE DEF s
  <2>6. Len(Tail(s)) = Len(s) - 1 /\ Len(s) \in Nat /\ Len(s) >= 2
    BY <2>3, <2>4, <2>5, CabezaTipo, LenProperties
  <2>7. Tail(s)[Len(s) - 1] = s[Len(s)]
    <3>1. Len(s) - 1 \in 1 .. Len(s) - 1 /\ Len(s) - 1 + 1 = Len(s)
      BY <2>6
    <3>2. \A k \in 1 .. Len(s) - 1 : Tail(s)[k] = s[k + 1]
      BY <2>3, TailCorre
    <3> QED
      BY <3>1, <3>2
  <2>8. Tail(s) # <<>>
    BY <2>3, <2>6, TailCorre
  <2> QED
    BY <2>3, <2>4, <2>6, <2>7, <2>8 DEF Ultima
<1>5. EnSilencio /\ NadieOlvida
  BY <1>1 DEF EnSilencio, NadieOlvida, Avisada, varsCanales
<1>6. Etiqueta(w)' \in DeFifo.worker /\ Etiqueta(w)' \notin Habla
      /\ Etiqueta(w) \notin Habla \cup ConId /\ Etiqueta(w)' # "conectar" /\ Marca(w)'
  BY <1>3 DEF DeFifo, Habla, Marca, ConId
<1>7. Conectados'
  BY <1>1, <1>3, <1>6, ConectadosIgual
<1>8. Platica(w)'
  BY <1>5, <1>6, SilencioCallado, PlaticaIgual DEF EnDialogo, Dialogo
<1> QED
  BY <1>1, <1>3, <1>4, <1>5, <1>6, <1>7, <1>8, MismasQueries, SilencioCallado, WorkerPaso

\* A Worker thread puts its query in a list, or takes it out.
LEMMA ColaDialogo ==
  ASSUME EnDialogo, NEW w \in Workers, NEW c \in {"execute", "exit"}, NEW valores,
         NEW d, NEW e, <<d, e>> \in {<<"agregar", "codEjecucion">>, <<"sacarExecute", "agregarExit">>,
                                     <<"agregarExit", "codFin">>},
         PonCola(DeWorker(w), d, e, c, valores), UNCHANGED varsInterprete
  PROVE  Dialogo'
<1>1. Va(DeWorker(w), d, e) /\ UNCHANGED <<sem, varsWorkers, qm, varsCanales>>
  BY DEF PonCola
<1>2. /\ SoloHilo(DeWorker(w)) /\ Etiqueta(w) = d /\ Etiqueta(w)' = e
      /\ e # "esperar" => Suya(w)' = Suya(w)
  BY <1>1, VaWorker
<1>3. colas'["ready"] = colas["ready"]
  BY PonColaWorker DEF Colas, EnDialogo
<1>4. EnSilencio /\ NadieOlvida
  BY <1>1 DEF EnSilencio, NadieOlvida, Avisada, varsCanales
<1>5. /\ d \in {"agregar", "sacarExecute", "agregarExit"}
      /\ e \in {"codEjecucion", "agregarExit", "codFin"} /\ (e = "codFin" => d = "agregarExit")
  OBVIOUS
<1>6. Etiqueta(w)' \in DeFifo.worker \ {"conectar"} /\ Etiqueta(w)' \notin Habla
      /\ Etiqueta(w) \notin Habla \cup ConId
  BY <1>2, <1>5 DEF DeFifo, Habla, ConId
<1>7. Marca(w)'
  <2>1. e = "codFin" => Avisada(Suya(w))
    BY <1>2, <1>5 DEF EnDialogo, Ubicadas, Avisos
  <2>2. e = "codFin" => Suya(w)' = Suya(w) /\ avisos' = avisos
    BY <1>1, <1>2 DEF varsCanales
  <2> QED
    BY <1>2, <1>5, <2>1, <2>2 DEF Marca, Avisada
<1>8. Conectados'
  BY <1>1, <1>2, <1>6, ConectadosIgual
<1> QED
  BY <1>1, <1>2, <1>3, <1>4, <1>6, <1>7, <1>8, MismasQueries, SilencioPaso

\* The EJECUCION_QUERY mark.
LEMMA PoneEjecucionDialogo ==
  ASSUME EnDialogo, NEW w \in Workers, PoneEjecucion(w), UNCHANGED varsInterprete
  PROVE  Dialogo'
<1>1. /\ Va(DeWorker(w), "codEjecucion", "asignar") /\ qm' = [qm EXCEPT ![Suya(w)]["cod"] = "EJECUCION"]
      /\ UNCHANGED <<colas, sem, varsWorkers, varsCanales>>
  BY DEF PoneEjecucion, PonCampo
<1>2. /\ SoloHilo(DeWorker(w)) /\ Etiqueta(w) = "codEjecucion" /\ Etiqueta(w)' = "asignar"
      /\ Suya(w)' = Suya(w)
  BY <1>1, VaWorker
<1>3. qm' = [qm EXCEPT ![Suya(w)].cod = "EJECUCION"]
  BY <1>1
<1>4. /\ qm'[Suya(w)].cod = "EJECUCION" /\ \A q \in Queries : qm'[q].pc = 0
      /\ \A u \in Workers \ {w} :
           Etiqueta(u) \in {"asignar", "serializar"} => qm'[Suya(u)].cod = qm[Suya(u)].cod
  BY <1>2, <1>3, SoloSuQuery DEF ConExecute
<1>5. EnSilencio /\ NadieOlvida
  BY <1>1 DEF EnSilencio, NadieOlvida, Avisada, varsCanales
<1>6. Etiqueta(w)' \in DeFifo.worker \ {"conectar"} /\ Etiqueta(w)' \notin Habla
      /\ Etiqueta(w) \notin Habla \cup ConId
  BY <1>2 DEF DeFifo, Habla, ConId
<1>7. Marca(w)'
  BY <1>2, <1>4 DEF Marca
<1>8. Conectados'
  BY <1>1, <1>2, <1>6, ConectadosIgual
<1> QED
  BY <1>1, <1>2, <1>4, <1>5, <1>6, <1>7, <1>8, SilencioPaso

\* idQuery is written before the order and cleared after the end.
LEMMA PoneIdDialogo ==
  ASSUME EnDialogo, NEW w \in Workers, NEW d, NEW e, NEW id, PoneIdQuery(w, d, e, id),
         \/ d = "asignar" /\ e = "serializar" /\ id = Suya(w)
         \/ d = "finalizar" /\ e = "avisar" /\ id = Ninguna,
         UNCHANGED varsInterprete
  PROVE  Dialogo'
<1>1. /\ Va(DeWorker(w), d, e) /\ idQuery' = [idQuery EXCEPT ![w] = id]
      /\ UNCHANGED <<colas, sem, listaWorker, qm, varsCanales>>
  BY DEF PoneIdQuery
<1>2. SoloHilo(DeWorker(w)) /\ Etiqueta(w) = d /\ Etiqueta(w)' = e /\ Suya(w)' = Suya(w)
  BY <1>1, VaWorker
<1>3. Conectados'
  <2>1. listaWorker' = listaWorker /\ ToSet(listaWorker) \subseteq Workers
        /\ idQuery'[w] = id /\ \A u \in Workers \ {w} : idQuery'[u] = idQuery[u]
    BY <1>1 DEF EnDialogo, Ubicadas, Tipos, MasterOK, WorkersOK, ToSet
  <2>2. \A u \in Workers \ {w} : Etiqueta(u)' = Etiqueta(u) /\ Suya(u)' = Suya(u)
    BY <1>2, OtrasEtiquetas
  <2>3. e # "conectar" /\ (id = Ninguna \/ (id = Suya(w) /\ e \in ConId))
    BY DEF ConId
  <2> QED
    BY <1>2, <2>1, <2>2, <2>3 DEF EnDialogo, Dialogo, Conectados
<1>4. EnSilencio /\ NadieOlvida
  BY <1>1 DEF EnSilencio, NadieOlvida, Avisada, varsCanales
<1>5. Etiqueta(w)' \in DeFifo.worker \ {"conectar"} /\ Etiqueta(w)' \notin Habla /\ Etiqueta(w) \notin Habla
  BY <1>2 DEF DeFifo, Habla
<1>6. Marca(w)'
  BY <1>1, <1>2 DEF Marca, EnDialogo, Dialogo, Marcas
<1> QED
  BY <1>1, <1>2, <1>3, <1>4, <1>5, <1>6, MismasQueries, SilencioPaso

\* The packet is the order to execute the query.
LEMMA SerializaDialogo ==
  ASSUME EnDialogo, NEW w \in Workers, Serializa(DeWorker(w)), UNCHANGED varsInterprete
  PROVE  Dialogo'
<1> DEFINE h == DeWorker(w)
<1>1. h \in Hilos /\ ~Desaloja(h) /\ QueryEnviada(h) = Suya(w)
  BY HilosTipo, HilosNombres DEF QueryEnviada, Desaloja, Suya
<1>2. /\ hilo[h].pc = "serializar" /\ UNCHANGED <<colas, sem, varsWorkers, qm, varsCanales>>
      /\ hilo' = [hilo EXCEPT ![h].pc = "enviar",
                   ![h]["mensaje"] = [q |-> Suya(w), cod |-> qm[Suya(w)].cod, pc |-> qm[Suya(w)].pc]]
  BY <1>1 DEF Serializa, Anota
<1>3. Suya(w) \in Queries /\ qm[Suya(w)].cod = "EJECUCION" /\ qm[Suya(w)].pc = 0
  <2>1. Etiqueta(w) = "serializar"
    BY <1>2 DEF Etiqueta
  <2>2. Suya(w) \in Queries
    BY <2>1, SuyaTipo DEF ConExecute, EnDialogo
  <2> QED
    BY <2>1, <2>2 DEF EnDialogo, Dialogo, Marcas, Marca
<1>4. hilo' = [hilo EXCEPT ![h].pc = "enviar", ![h].mensaje = Pedido(w)]
  BY <1>2, <1>3 DEF Pedido
<1>5. SoloHilo(h) /\ hilo'[h].pc = "enviar" /\ hilo'[h].mensaje = Pedido(w) /\ hilo'[h].actual = hilo[h].actual
  BY <1>1, <1>4 DEF SoloHilo, EnDialogo, Ubicadas, Tipos, MasterOK, HiloOK, Hilo
<1>6. Etiqueta(w) = "serializar" /\ Etiqueta(w)' = "enviar" /\ Suya(w)' = Suya(w)
  BY <1>2, <1>5 DEF Etiqueta, Suya
<1>7. Etiqueta(w)' \in DeFifo.worker \ {"conectar"} /\ Etiqueta(w)' \in ConId
      /\ Etiqueta(w)' \notin Habla /\ Etiqueta(w) \notin Habla
  BY <1>6 DEF DeFifo, Habla, ConId
<1>8. Marca(w)'
  BY <1>5, <1>6 DEF Marca, Pedido
<1>9. EnSilencio /\ NadieOlvida
  BY <1>2 DEF EnSilencio, NadieOlvida, Avisada, varsCanales
<1> HIDE DEF h
<1>10. SoloHilo(DeWorker(w))
  BY <1>5 DEF h
<1>11. Conectados'
  BY <1>2, <1>6, <1>7, <1>10, ConectadosIgual
<1> QED
  BY <1>2, <1>6, <1>7, <1>8, <1>9, <1>10, <1>11, MismasQueries, SilencioPaso

\* It reaches the Worker, or the Worker is dead.
LEMMA EnviaDialogo ==
  ASSUME EnDialogo, NEW w \in Workers, Envia(DeWorker(w)), UNCHANGED varsInterprete
  PROVE  Dialogo'
<1> DEFINE h == DeWorker(w)
<1>1. h \in Hilos /\ ~Desaloja(h) /\ WorkerDestino(h) = w
  BY HilosTipo, HilosNombres DEF WorkerDestino, Desaloja
<1>2. /\ hilo[h].pc = "enviar" /\ UNCHANGED <<colas, sem, varsWorkers, qm>>
      /\ EnviaAWorker(w, hilo[h].mensaje)
      /\ hilo' = [hilo EXCEPT ![h] = [@ EXCEPT !.pc = "recibir", !.mensaje = Ninguna,
                                               !.victima = Ninguna, !.destino = Ninguna]]
  BY <1>1 DEF Envia
<1>3. SoloHilo(h) /\ hilo'[h].pc = "recibir" /\ hilo'[h].actual = hilo[h].actual
  BY <1>1, <1>2 DEF SoloHilo, EnDialogo, Ubicadas, Tipos, MasterOK, HiloOK, Hilo
<1>4. Etiqueta(w) = "enviar" /\ Etiqueta(w)' = "recibir" /\ Suya(w)' = Suya(w)
  BY <1>2, <1>3 DEF Etiqueta, Suya
<1>5. hilo[h].mensaje = Pedido(w)
  BY <1>4 DEF EnDialogo, Dialogo, Marcas, Marca
<1> HIDE DEF h
<1>6. /\ aWorker' = IF socketWorker[w] = "abierto" THEN [aWorker EXCEPT ![w] = Append(aWorker[w], Pedido(w))]
                    ELSE aWorker
      /\ socketWorker' = [socketWorker EXCEPT ![w] = TrasEnviar(socketWorker[w])]
      /\ UNCHANGED <<aMaster, socketQC, avisos>>
  BY <1>2, <1>5 DEF EnviaAWorker
<1>7. aWorker \in [Workers -> Seq(Paquete)] /\ socketWorker \in [Workers -> EstadoSocket]
  BY DEF EnDialogo, Ubicadas, Tipos, TypeOKCanales
<1>8. UNCHANGED <<queryActual, semQuery, interrupcion, ejec>>
  BY DEF varsInterprete
<1>9. \A u \in Workers \ {w} : Callado(u)
  BY <1>6, <1>7, <1>8 DEF Callado
<1>10. Etiqueta(w)' \in DeFifo.worker /\ Etiqueta(w)' \in ConId /\ Etiqueta(w)' \in Habla
       /\ Etiqueta(w) \notin Habla /\ Etiqueta(w)' # "conectar"
  BY <1>4 DEF DeFifo, Habla, ConId
<1>11. aMaster[w] = <<>> /\ Libre(w) /\ ~interrupcion[w] /\ ejec[w].en # "persistir"
       /\ (Muerto(w) <=> ejec[w].en = "muerto")
  BY <1>10 DEF EnDialogo, Dialogo, Platica
<1>12. Mensajes(aMaster[w], Suya(w))' /\ ~Contestada(aMaster[w])'
  BY <1>6, <1>11 DEF Mensajes, Contestada
<1>13. Muerto(w)' <=> Muerto(w)
  BY <1>6, <1>7 DEF Muerto, TrasEnviar
<1>14. Conversa(w)' /\ (Muerto(w)' => Libre(w)')
  <2>1. CASE Muerto(w)
    <3>1. Libre(w)'
      BY <1>6, <1>8, <1>11, <2>1 DEF Libre, Activo, Muerto, NULL
    <3> QED
      BY <1>12, <1>13, <2>1, <3>1 DEF Conversa
  <2>2. CASE ~Muerto(w)
    <3>1. aWorker'[w] = <<Pedido(w)>>
      BY <1>6, <1>7, <1>11, <2>2 DEF Libre, Muerto
    <3>2. EnCamino(w)'
      BY <1>4, <1>8, <1>11, <3>1 DEF Libre, EnCamino, Activo, NULL, Pedido
    <3> QED
      BY <1>12, <1>13, <2>2, <3>2 DEF Conversa, Trabaja
  <2> QED
    BY <2>1, <2>2
<1>15. Platica(w)'
  BY <1>8, <1>10, <1>11, <1>13, <1>14 DEF Platica
<1>16. Marca(w)' /\ NadieOlvida
  BY <1>4, <1>6 DEF Marca, NadieOlvida, Avisada
<1>17. SoloHilo(DeWorker(w))
  BY <1>3 DEF h
<1>18. Conectados'
  BY <1>2, <1>4, <1>10, <1>17, ConectadosIgual
<1>19. Recien'
  <2>1. colas'["ready"] = colas["ready"] /\ hilo'[Ready] = hilo[Ready]
    BY <1>2, <1>17, OtrasEtiquetas
  <2> QED
    BY <2>1, RecienIgual DEF EnDialogo, Dialogo
<1> QED
  BY <1>2, <1>9, <1>10, <1>15, <1>16, <1>17, <1>18, <1>19, MismasQueries, WorkerPaso

\* Packets: the first one is read.
LEMMA MensajesCabeza ==
  ASSUME NEW s \in Seq(Paquete), s # <<>>, NEW q, Mensajes(s, q)
  PROVE  /\ Head(s).q = q
         /\ \/ Head(s).cod = "RESPUESTA" /\ Mensajes(Tail(s), q) /\ (Contestada(Tail(s)) <=> Contestada(s))
            \/ Head(s).cod = "FIN" /\ Tail(s) = <<>> /\ Contestada(s)
<1>1. Len(s) \in Nat /\ Len(s) > 0 /\ DOMAIN s = 1 .. Len(s) /\ Head(s) = s[1]
  BY CabezaTipo, LenProperties
<1>2. /\ Tail(s) \in Seq(Paquete) /\ Len(s) \in Nat /\ Len(s) > 0 /\ Len(Tail(s)) = Len(s) - 1
      /\ \A k \in 1 .. Len(s) - 1 : Tail(s)[k] = s[k + 1]
      /\ Tail(s) = <<>> <=> Len(s) = 1
  BY TailCorre
<1>3. Head(s).q = q /\ (Head(s).cod = "RESPUESTA" \/ (Head(s).cod = "FIN" /\ 1 = Len(s)))
  <2>1. 1 \in 1 .. Len(s)
    BY <1>2
  <2> QED
    BY <1>1, <2>1 DEF Mensajes
<1>4. CASE Head(s).cod = "RESPUESTA"
  <2>1. Mensajes(Tail(s), q)
    <3>1. SUFFICES ASSUME NEW i \in 1 .. Len(Tail(s))
                   PROVE  /\ Tail(s)[i].q = q
                          /\ \/ Tail(s)[i].cod = "RESPUESTA"
                             \/ Tail(s)[i].cod = "FIN" /\ i = Len(Tail(s))
      BY DEF Mensajes
    <3>2. i \in 1 .. Len(s) - 1 /\ i + 1 \in 1 .. Len(s) /\ (i + 1 = Len(s) <=> i = Len(Tail(s)))
      BY <1>1, <1>2
    <3>3. Tail(s)[i] = s[i + 1]
      BY <1>2, <3>2
    <3> QED
      BY <3>2, <3>3 DEF Mensajes
  <2>2. Contestada(Tail(s)) <=> Contestada(s)
    <3>1. CASE Len(s) = 1
      <4>1. Tail(s) = <<>>
        BY <1>2, <3>1
      <4> QED
        BY <1>1, <1>4, <3>1, <4>1 DEF Contestada
    <3>2. CASE Len(s) # 1
      <4>1. Len(s) - 1 \in 1 .. Len(s) - 1 /\ Len(s) - 1 + 1 = Len(s)
        BY <1>1, <3>2
      <4>2. Tail(s)[Len(s) - 1] = s[Len(s)] /\ Tail(s) # <<>>
        BY <1>2, <3>2, <4>1
      <4> QED
        BY <1>2, <4>2 DEF Contestada
    <3> QED
      BY <3>1, <3>2
  <2> QED
    BY <1>3, <1>4, <2>1, <2>2
<1>5. CASE Head(s).cod = "FIN"
  <2>1. Len(s) = 1
    BY <1>3, <1>5
  <2>2. Tail(s) = <<>>
    BY <1>2, <2>1
  <2>3. Contestada(s)
    BY <1>1, <1>5, <2>1 DEF Contestada
  <2> QED
    BY <1>3, <1>5, <2>2, <2>3
<1> QED
  BY <1>3, <1>4, <1>5

\* One more is sent before the end.
LEMMA MensajesMas ==
  ASSUME NEW s \in Seq(Paquete), NEW q, Mensajes(s, q), ~Contestada(s),
         NEW p \in Paquete, p.q = q, p.cod \in {"RESPUESTA", "FIN"}
  PROVE  Mensajes(Append(s, p), q) /\ (Contestada(Append(s, p)) <=> p.cod = "FIN")
<1> DEFINE t == Append(s, p)
<1>1. /\ Len(s) \in Nat /\ t \in Seq(Paquete) /\ Len(t) = Len(s) + 1
      /\ \A i \in 1 .. Len(s) : t[i] = s[i]
      /\ t[Len(s) + 1] = p
  BY AppendProperties, LenProperties
<1> HIDE DEF t
<1>2. Contestada(t) <=> p.cod = "FIN"
  <2>1. t # <<>>
    BY <1>1, EmptySeq
  <2> QED
    BY <1>1, <2>1 DEF Contestada
<1>3. ASSUME NEW i \in 1 .. Len(t)
      PROVE  t[i].q = q /\ (t[i].cod = "RESPUESTA" \/ (t[i].cod = "FIN" /\ i = Len(t)))
  <2>1. CASE i = Len(t)
    BY <1>1, <2>1
  <2>2. CASE i # Len(t)
    <3>1. i \in 1 .. Len(s) /\ t[i] = s[i]
      BY <1>1, <2>2
    <3>2. s[i].cod # "FIN" \/ i # Len(s)
      <4>1. s # <<>>
        BY <3>1, EmptySeq
      <4> QED
        BY <4>1 DEF Contestada
    <3> QED
      BY <3>1, <3>2 DEF Mensajes
  <2> QED
    BY <2>1, <2>2
<1>4. Mensajes(t, q)
  BY <1>3 DEF Mensajes
<1> QED
  BY <1>2, <1>4 DEF t

\* A reply: an answer leaves the rest as it was, the end leaves nothing.
LEMMA RecibeDialogo ==
  ASSUME EnDialogo, NEW w \in Workers, RecibeRespuesta(w), UNCHANGED varsInterprete
  PROVE  Dialogo'
<1> DEFINE s == aMaster[w]
           r == Head(s)
           q == Suya(w)
<1>1. /\ s # <<>> /\ Va(DeWorker(w), "recibir", Destino(r.cod)) /\ aMaster' = [aMaster EXCEPT ![w] = Tail(s)]
      /\ qm' = [qm EXCEPT ![q].cod = r.cod, ![q].pc = IF r.cod = "DESALOJO" THEN r.pc ELSE @]
      /\ UNCHANGED <<colas, sem, varsWorkers, aWorker, socketWorker, socketQC, avisos>>
  BY DEF RecibeRespuesta
<1>2. /\ SoloHilo(DeWorker(w)) /\ Etiqueta(w) = "recibir" /\ Etiqueta(w)' = Destino(r.cod)
      /\ Destino(r.cod) # "esperar" => Suya(w)' = q
  BY <1>1, VaWorker
<1>3. aMaster \in [Workers -> Seq(Paquete)] /\ qm \in [Queries -> Registro] /\ q \in Queries
  BY <1>2, SuyaTipo DEF EnDialogo, Ubicadas, Tipos, TypeOKCanales, MasterOK, QmOK, ConExecute
<1>4. Conversa(w) /\ ~interrupcion[w] /\ ejec[w].en # "persistir"
      /\ (Muerto(w) <=> ejec[w].en = "muerto") /\ (Muerto(w) => Libre(w))
  BY <1>2 DEF EnDialogo, Dialogo, Platica, Habla
<1>5. s \in Seq(Paquete) /\ Mensajes(s, q)
  BY <1>3, <1>4 DEF Conversa
<1> HIDE DEF s
<1>6. /\ r.q = q
      /\ \/ r.cod = "RESPUESTA" /\ Mensajes(Tail(s), q) /\ (Contestada(Tail(s)) <=> Contestada(s))
         \/ r.cod = "FIN" /\ Tail(s) = <<>> /\ Contestada(s)
  BY <1>1, <1>5, MensajesCabeza
<1>7. aMaster'[w] = Tail(s) /\ \A u \in Workers \ {w} : aMaster'[u] = aMaster[u]
  BY <1>1, <1>3
<1>8. UNCHANGED <<aWorker, socketWorker, queryActual, semQuery, interrupcion, ejec>>
  BY <1>1 DEF varsInterprete
<1> HIDE DEF r, q
<1>9. /\ Etiqueta(w)' = (IF r.cod = "RESPUESTA" THEN "responder" ELSE "finalizar")
      /\ Suya(w)' = Suya(w) /\ q = Suya(w)
  BY <1>2, <1>6 DEF Destino, q
<1>10. qm' = [qm EXCEPT ![Suya(w)].cod = r.cod]
  BY <1>1, <1>3, <1>6, <1>9 DEF Registro
<1>11. /\ \A p \in Queries : qm'[p].pc = 0
       /\ \A u \in Workers \ {w} :
            Etiqueta(u) \in {"asignar", "serializar"} => qm'[Suya(u)].cod = qm[Suya(u)].cod
  BY <1>2, <1>10, SoloSuQuery DEF ConExecute
<1>12. \A u \in Workers \ {w} : Callado(u)
  BY <1>7, <1>8 DEF Callado
<1>13. /\ Etiqueta(w)' \in DeFifo.worker /\ Etiqueta(w)' # "conectar" /\ Etiqueta(w)' \in ConId
       /\ (Etiqueta(w)' \in Habla <=> r.cod = "RESPUESTA")
  BY <1>9 DEF DeFifo, Habla, ConId
<1>14. (Muerto(w)' <=> Muerto(w)) /\ (Libre(w)' <=> Libre(w)) /\ (Trabaja(w)' <=> Trabaja(w))
  <2>1. Pedido(w)' = Pedido(w)
    BY <1>9 DEF Pedido
  <2> QED
    BY <1>8, <1>9, <2>1 DEF Muerto, Libre, Activo, Trabaja, EnCamino, Recibida, EnCurso, NULL
<1>15. Platica(w)'
  <2>1. CASE r.cod = "RESPUESTA"
    <3>1. Mensajes(Tail(s), Suya(w)) /\ (Contestada(Tail(s)) <=> Contestada(aMaster[w]))
      BY <1>6, <1>9, <2>1 DEF s
    <3>2. Mensajes(aMaster[w], Suya(w))' /\ (Contestada(aMaster[w])' <=> Contestada(aMaster[w]))
      BY <1>7, <1>9, <3>1 DEF Mensajes, Contestada
    <3>3. Conversa(w)'
      BY <1>4, <1>14, <3>2 DEF Conversa
    <3> QED
      BY <1>4, <1>8, <1>13, <1>14, <2>1, <3>3 DEF Platica
  <2>2. CASE r.cod = "FIN"
    <3>1. Libre(w)
      BY <1>4, <1>6, <2>2 DEF Conversa, s
    <3> QED
      BY <1>4, <1>6, <1>7, <1>8, <1>13, <1>14, <2>2, <3>1 DEF Platica
  <2> QED
    BY <1>6, <2>1, <2>2
<1>16. Marca(w)' /\ NadieOlvida
  BY <1>1, <1>9 DEF Marca, NadieOlvida, Avisada
<1>17. Conectados'
  BY <1>1, <1>2, <1>9, <1>13, ConectadosIgual
<1>18. Recien'
  BY <1>1, <1>2, OtrasEtiquetas, RecienIgual DEF EnDialogo, Dialogo
<1> QED
  BY <1>2, <1>11, <1>12, <1>13, <1>15, <1>16, <1>17, <1>18, WorkerPaso

\* The Worker is told to go on.
LEMMA RespondeDialogo ==
  ASSUME EnDialogo, NEW w \in Workers, Responde(w), UNCHANGED varsInterprete
  PROVE  Dialogo'
<1>1. /\ Va(DeWorker(w), "responder", "recibir") /\ EnviaAQC(Suya(w), "RESPUESTA")
      /\ qm' = [qm EXCEPT ![Suya(w)].cod = "EJECUCION"] /\ UNCHANGED <<colas, sem, varsWorkers>>
  BY DEF Responde
<1>2. /\ SoloHilo(DeWorker(w)) /\ Etiqueta(w) = "responder" /\ Etiqueta(w)' = "recibir"
      /\ Suya(w)' = Suya(w)
  BY <1>1, VaWorker
<1>3. /\ \A q \in Queries : qm'[q].pc = 0
      /\ \A u \in Workers \ {w} :
           Etiqueta(u) \in {"asignar", "serializar"} => qm'[Suya(u)].cod = qm[Suya(u)].cod
  BY <1>1, <1>2, SoloSuQuery DEF ConExecute
<1>4. EnSilencio /\ NadieOlvida
  BY <1>1 DEF EnSilencio, NadieOlvida, Avisada, EnviaAQC
<1>5. Etiqueta(w)' \in DeFifo.worker \ {"conectar"} /\ Etiqueta(w)' \in Habla \cap ConId
      /\ Etiqueta(w) \in Habla /\ Marca(w)'
  BY <1>2 DEF DeFifo, Habla, ConId, Marca
<1>6. Conectados'
  BY <1>1, <1>2, <1>5, ConectadosIgual
<1> QED
  BY <1>1, <1>2, <1>3, <1>4, <1>5, <1>6, SilencioPaso

\* The Worker is gone, and was free.
LEMMA DetectaCaidaDialogo ==
  ASSUME EnDialogo, NEW w \in Workers, DetectaCaida(w), UNCHANGED varsInterprete
  PROVE  Dialogo'
<1>1. /\ socketWorker[w] # "abierto" /\ aMaster[w] = <<>> /\ Va(DeWorker(w), "recibir", "avisar")
      /\ listaWorker' = RemoveFirst(listaWorker, w)
      /\ UNCHANGED <<colas, sem, idQuery, qm, varsCanales>>
  BY DEF DetectaCaida
<1>2. SoloHilo(DeWorker(w)) /\ Etiqueta(w) = "recibir" /\ Etiqueta(w)' = "avisar"
  BY <1>1, VaWorker
<1>3. EnSilencio /\ NadieOlvida
  BY <1>1 DEF EnSilencio, NadieOlvida, Avisada, varsCanales
<1>4. Conectados'
  <2>1. listaWorker \in Seq(Workers) /\ IsInjective(listaWorker) /\ ToSet(listaWorker) \subseteq Workers
    BY DEF EnDialogo, Ubicadas, Tipos, MasterOK, WorkersOK, ToSet, Dialogo, Conectados
  <2>2. ToSet(listaWorker') = ToSet(listaWorker) \ {w} /\ IsInjective(listaWorker')
    <3>1. CASE w \in ToSet(listaWorker)
      BY <1>1, <2>1, <3>1, RemoveFirstConjunto
    <3>2. CASE w \notin ToSet(listaWorker)
      <4>1. DOMAIN listaWorker = 1 .. Len(listaWorker)
        BY <2>1, LenProperties
      <4>2. ~\E k \in 1 .. Len(listaWorker) : listaWorker[k] = w
        BY <3>2, <4>1 DEF ToSet
      <4>3. listaWorker' = listaWorker
        BY <1>1, <4>2 DEF RemoveFirst
      <4> QED
        BY <2>1, <3>2, <4>3
    <3> QED
      BY <3>1, <3>2
  <2>3. \A u \in Workers \ {w} : Etiqueta(u)' = Etiqueta(u) /\ Suya(u)' = Suya(u)
    BY <1>2, OtrasEtiquetas
  <2> QED
    BY <1>1, <1>2, <2>1, <2>2, <2>3 DEF EnDialogo, Dialogo, Conectados
<1>5. Platica(w)'
  <2>1. Platica(w) /\ Muerto(w)
    BY <1>1 DEF EnDialogo, Dialogo, Muerto
  <2>2. UNCHANGED <<aWorker, aMaster, socketWorker, queryActual, semQuery, interrupcion, ejec>>
    BY <1>3 DEF EnSilencio, varsInterprete
  <2>3. (Muerto(w)' <=> Muerto(w)) /\ (Libre(w)' <=> Libre(w))
    BY <2>2 DEF Muerto, Libre, Activo, NULL
  <2>4. Etiqueta(w)' \notin Habla
    BY <1>2 DEF Habla
  <2> QED
    BY <1>1, <2>1, <2>2, <2>3, <2>4 DEF Platica
<1>6. Etiqueta(w)' \in DeFifo.worker /\ Marca(w)'
  BY <1>2 DEF DeFifo, Marca
<1>7. Recien'
  BY <1>1, <1>2, OtrasEtiquetas, RecienIgual DEF EnDialogo, Dialogo
<1> QED
  BY <1>1, <1>2, <1>3, <1>4, <1>5, <1>6, <1>7, MismasQueries, SilencioCallado, WorkerPaso

\* The Query Control is told of the end.
LEMMA AvisaFinDialogo ==
  ASSUME EnDialogo, NEW w \in Workers, AvisaFin(w), UNCHANGED varsInterprete
  PROVE  Dialogo'
<1>1. /\ Va(DeWorker(w), "avisar", "sacarExecute") /\ EnviaAQC(Suya(w), "FIN")
      /\ UNCHANGED <<colas, sem, varsWorkers, qm>>
  BY DEF AvisaFin
<1>2. SoloHilo(DeWorker(w)) /\ Etiqueta(w) = "avisar" /\ Etiqueta(w)' = "sacarExecute"
  BY <1>1, VaWorker
<1>3. EnSilencio
  BY <1>1 DEF EnSilencio, EnviaAQC
<1>4. NadieOlvida
  <2>1. avisos \in [Queries -> Nat]
    BY DEF EnDialogo, Ubicadas, Tipos, TypeOKCanales
  <2> QED
    BY <1>1, <2>1 DEF EnviaAQC, NadieOlvida, Avisada
<1>5. Etiqueta(w)' \in DeFifo.worker \ {"conectar"} /\ Etiqueta(w)' \notin Habla
      /\ Etiqueta(w) \notin Habla \cup ConId /\ Marca(w)'
  BY <1>2 DEF DeFifo, Habla, ConId, Marca
<1>6. Conectados'
  BY <1>1, <1>2, <1>5, ConectadosIgual
<1> QED
  BY <1>1, <1>2, <1>3, <1>4, <1>5, <1>6, MismasQueries, SilencioPaso

\* enviarExit is done.
LEMMA PoneFinDialogo ==
  ASSUME EnDialogo, NEW w \in Workers, PoneFin(w), UNCHANGED varsInterprete
  PROVE  Dialogo'
<1> DEFINE e == IF Contains(listaWorker, w) THEN "esperar" ELSE "fin"
<1>1. /\ Va(DeWorker(w), "codFin", e) /\ qm' = [qm EXCEPT ![Suya(w)].cod = "FIN"]
      /\ UNCHANGED <<colas, varsWorkers, varsCanales>>
  BY DEF PoneFin
<1>2. e \in {"esperar", "fin"}
  OBVIOUS
<1> HIDE DEF e
<1>3. SoloHilo(DeWorker(w)) /\ Etiqueta(w) = "codFin" /\ Etiqueta(w)' = e
  BY <1>1, VaWorker
<1>4. /\ \A q \in Queries : qm'[q].pc = 0
      /\ \A u \in Workers \ {w} :
           Etiqueta(u) \in {"asignar", "serializar"} => qm'[Suya(u)].cod = qm[Suya(u)].cod
  BY <1>1, <1>3, SoloSuQuery
<1>5. EnSilencio /\ NadieOlvida
  BY <1>1 DEF EnSilencio, NadieOlvida, Avisada, varsCanales
<1>6. Etiqueta(w)' \in DeFifo.worker \ {"conectar"} /\ Etiqueta(w)' \notin Habla
      /\ Etiqueta(w) \notin Habla \cup ConId /\ Marca(w)'
  BY <1>2, <1>3 DEF DeFifo, Habla, ConId, Marca
<1>7. Conectados'
  BY <1>1, <1>3, <1>6, ConectadosIgual
<1> QED
  BY <1>1, <1>3, <1>4, <1>5, <1>6, <1>7, SilencioPaso

\* One atenderWorker.
LEMMA WorkerDialogo ==
  ASSUME EnDialogo, NEW w \in Workers, MasterWorker(w)
  PROVE  Dialogo'
<1>1. Etiqueta(w) \in DeFifo.worker
  BY FifoEtiquetas DEF EnDialogo, Dialogo
<1>2. PasoWorker(w) /\ UNCHANGED varsInterprete
  BY DEF MasterWorker
<1>3. CASE AsignaQuery(w) \/ Finaliza(w)
  BY <1>2, <1>3, PoneIdDialogo DEF AsignaQuery, Finaliza
<1>4. CASE AgregaExecute(w) \/ SacaExecute(w) \/ AgregaExit(w)
  <2>1. PICK c \in {"execute", "exit"}, d \in {"agregar", "sacarExecute", "agregarExit"},
             e \in {"codEjecucion", "agregarExit", "codFin"} :
          /\ <<d, e>> \in {<<"agregar", "codEjecucion">>, <<"sacarExecute", "agregarExit">>,
                           <<"agregarExit", "codFin">>}
          /\ \E valores : PonCola(DeWorker(w), d, e, c, valores)
    BY <1>4 DEF AgregaExecute, SacaExecute, AgregaExit, EncolaExit
  <2> QED
    BY <1>2, <2>1, ColaDialogo
<1>5. CASE DesalojaSacaExecute(w) \/ DesalojaMiraQC(w) \/ DesalojaReencola(w) \/ DesalojaPublica(w)
           \/ DesalojaDesconectada(w) \/ DesalojaExit(w) \/ DesalojaLiberaId(w)
  <2>1. Etiqueta(w) \in {"desalojar", "mirarQC", "reencolar", "codReencolada", "codQCFin", "codDesconectada",
                       "liberarId"}
    BY <1>5 DEF DesalojaSacaExecute, DesalojaMiraQC, DesalojaReencola, DesalojaPublica,
                DesalojaDesconectada, DesalojaExit, DesalojaLiberaId, EncolaExit, Mira, PonCola, PonCampo, PoneIdQuery, Va, Etiqueta
  <2> QED
    BY <1>1, <2>1 DEF DeFifo
<1> QED
  BY <1>2, <1>3, <1>4, <1>5, ConectaWorkerDialogo, TomaReadyDialogo, PoneEjecucionDialogo, RecibeDialogo,
     RespondeDialogo, DetectaCaidaDialogo, AvisaFinDialogo, PoneFinDialogo DEF PasoWorker

\* Serialising and sending: under FIFO only the Worker threads do.
LEMMA SoloEnvian ==
  ASSUME EnDialogo, NEW h \in Hilos, MasterDesalojo(h)
  PROVE  \E w \in Workers : h = DeWorker(w) /\ (Serializa(h) \/ Envia(h))
<1>1. hilo[h].pc \in DeFifo[h[1]] /\ h[1] \in {"ready", "exit", "aging", "query", "worker"}
  BY HilosNombres DEF EnDialogo, Dialogo, EnFifo
<1>2. hilo[h].pc \in {"hayExecute", "todosTienen", "ultima", "tomar", "propia", "comparar", "buscar",
                      "marcar", "postExit"} \/ Serializa(h) \/ Envia(h)
  BY DEF MasterDesalojo, PasoDesalojo, VerificaHayExecute, VerificaTodosTienen, VerificaUltima, VerificaToma,
         VerificaPropia, VerificaCompara, DesalojoBusca, DesalojoMarca, PublicaExit, Mira, Anota,
         PonCampo, Va
<1>3. Serializa(h) => hilo[h].pc = "serializar"
  BY DEF Serializa, Anota
<1>4. Envia(h) => hilo[h].pc = "enviar"
  BY DEF Envia
<1>5. h[1] = "worker" /\ (Serializa(h) \/ Envia(h))
  BY <1>1, <1>2, <1>3, <1>4 DEF DeFifo
<1> QED
  BY <1>5, HilosNombres

\* One of them does.
LEMMA DesalojoDialogo ==
  ASSUME EnDialogo, NEW h \in Hilos, MasterDesalojo(h)
  PROVE  Dialogo'
<1>1. PICK w \in Workers : h = DeWorker(w) /\ (Serializa(h) \/ Envia(h))
  BY SoloEnvian
<1> QED
  BY <1>1, SerializaDialogo, EnviaDialogo DEF MasterDesalojo

-----------------------------------------------------------------------------
(* The Workers.                                                            *)

\* The step of one Worker process.
LEMMA InterpreteSolo ==
  ASSUME EnDialogo, NEW w \in Workers, UNCHANGED <<varsMaster, avisos>>,
         \A u \in Workers \ {w} : Callado(u), Platica(w)'
  PROVE  Dialogo'
<1>1. UNCHANGED <<hilo, colas, qm, listaWorker, idQuery, avisos>>
  BY DEF varsMaster, varsWorkers
<1>2. \A u \in Workers : Etiqueta(u)' = Etiqueta(u) /\ Suya(u)' = Suya(u)
  BY <1>1 DEF Etiqueta, Suya
<1>3. EnFifo'
  BY <1>1 DEF EnDialogo, Dialogo, EnFifo
<1>4. Conectados'
  <2>1. ToSet(listaWorker) \subseteq Workers
    BY DEF EnDialogo, Ubicadas, Tipos, MasterOK, WorkersOK, ToSet
  <2> QED
    BY <1>1, <1>2, <2>1 DEF EnDialogo, Dialogo, Conectados
<1>5. Marcas' /\ Recien'
  <2>1. \A u \in Workers : Marca(u)'
    BY <1>1, <1>2 DEF EnDialogo, Dialogo, Marcas, Marca, Avisada, Pedido
  <2> QED
    BY <1>1, <2>1, RecienIgual DEF EnDialogo, Dialogo, Marcas
<1>6. \A u \in Workers : Platica(u)'
  <2>1. ASSUME NEW u \in Workers \ {w} PROVE Platica(u)'
    BY <1>2, PlaticaIgual DEF EnDialogo, Dialogo
  <2> QED
    BY <2>1
<1> QED
  BY <1>3, <1>4, <1>5, <1>6 DEF Dialogo

\* A process works or is free, and works only for a thread that waits.
Empleado(w) ==
  /\ Etiqueta(w) \in Habla /\ ~Muerto(w) /\ Trabaja(w) /\ ~Libre(w)
  /\ Mensajes(aMaster[w], Suya(w)) /\ ~Contestada(aMaster[w])
LEMMA EmpleadoOLibre ==
  ASSUME EnDialogo, NEW w \in Workers
  PROVE  /\ Empleado(w) \/ Libre(w)
         /\ ~interrupcion[w] /\ ejec[w].en # "persistir" /\ (Muerto(w) <=> ejec[w].en = "muerto")
<1>1. Platica(w)
  BY DEF EnDialogo, Dialogo
<1>2. Trabaja(w) => ~Libre(w)
  <2>1. <<Pedido(w)>> # <<>>
    OBVIOUS
  <2> QED
    BY <2>1 DEF Trabaja, EnCamino, Recibida, EnCurso, Libre
<1> QED
  BY <1>1, <1>2 DEF Platica, Conversa, Empleado

\* A process that works goes on.
LEMMA SigueEmpleado ==
  ASSUME NEW w \in Workers, UNCHANGED <<hilo, socketWorker>>, Empleado(w), Trabaja(w)',
         Mensajes(aMaster'[w], Suya(w)), ~Contestada(aMaster'[w]),
         ~interrupcion'[w], ejec'[w].en \notin {"persistir", "muerto"}
  PROVE  Platica(w)'
<1>1. Etiqueta(w)' = Etiqueta(w) /\ Suya(w)' = Suya(w) /\ (Muerto(w)' <=> Muerto(w))
  BY DEF Etiqueta, Suya, Muerto
<1>2. Mensajes(aMaster[w], Suya(w))' /\ ~Contestada(aMaster[w])'
  BY <1>1 DEF Mensajes, Contestada
<1>3. Conversa(w)'
  BY <1>2 DEF Conversa
<1> QED
  BY <1>1, <1>3 DEF Platica, Empleado

\* What types say of an interpreter.
LEMMA InterpreteEs ==
  ASSUME EnDialogo, NEW w \in Workers
  PROVE  /\ aWorker \in [Workers -> Seq(Paquete)] /\ aMaster \in [Workers -> Seq(Paquete)]
         /\ socketWorker \in [Workers -> EstadoSocket] /\ semQuery \in [Workers -> Nat]
         /\ interrupcion \in [Workers -> BOOLEAN] /\ DOMAIN queryActual = Workers
         /\ ejec \in [Workers -> [en : Etapas, q : Queries \cup {Ninguna}, pc : 0 .. Largo]]
         /\ ejec[w].en \in {"ejecutar", "verificar"} => ejec[w].pc < Largo /\ ejec[w].q \in Queries
         /\ Largo \in Nat \ {0}
BY CanalesAssumption DEF EnDialogo, Ubicadas, Tipos, TypeOKCanales, InterpreteOK, TypeOKInterprete, Etapas

\* escucharMaster takes the order.
LEMMA EscuchaDialogo ==
  ASSUME EnDialogo, NEW w \in Workers, Escucha(w), UNCHANGED varsMaster
  PROVE  Dialogo'
<1> DEFINE p == Head(aWorker[w])
<1>1. /\ Corre(w) /\ aWorker[w] # <<>> /\ aWorker' = [aWorker EXCEPT ![w] = Tail(@)]
      /\ p.cod = "EJECUCION" => /\ queryActual' = [queryActual EXCEPT ![w] = [q |-> p.q, pc |-> p.pc]]
                                /\ semQuery' = [semQuery EXCEPT ![w] = @ + 1]
      /\ interrupcion' = [interrupcion EXCEPT ![w] = @ \/ p.cod = "DESALOJO"]
      /\ UNCHANGED <<ejec, aMaster, socketWorker, socketQC, avisos>>
  BY DEF Escucha
<1>2. /\ semQuery \in [Workers -> Nat] /\ interrupcion \in [Workers -> BOOLEAN]
      /\ DOMAIN queryActual = Workers /\ aWorker \in [Workers -> Seq(Paquete)]
  BY InterpreteEs
<1>3. Empleado(w) /\ ~interrupcion[w] /\ ejec[w].en \notin {"persistir", "muerto"}
  BY <1>1, EmpleadoOLibre DEF Libre, Empleado
<1>4. EnCamino(w)
  BY <1>1, <1>3 DEF Empleado, Trabaja, Recibida, EnCurso
<1>5. p = Pedido(w) /\ Tail(aWorker[w]) = <<>>
  BY <1>4 DEF EnCamino
<1>6. p.cod = "EJECUCION" /\ p.q = Suya(w) /\ p.pc = 0
  BY <1>5 DEF Pedido
<1> HIDE DEF p
<1>7. /\ aWorker'[w] = <<>> /\ semQuery'[w] = 1 /\ queryActual'[w] = [q |-> Suya(w), pc |-> 0]
      /\ ~interrupcion'[w] /\ ejec' = ejec
  BY <1>1, <1>2, <1>3, <1>4, <1>5, <1>6 DEF EnCamino
<1>8. hilo' = hilo /\ Suya(w)' = Suya(w)
  BY DEF varsMaster, Suya
<1>9. Trabaja(w)'
  BY <1>4, <1>7, <1>8 DEF EnCamino, Trabaja, Recibida, Activo
<1>10. Platica(w)'
  BY <1>1, <1>3, <1>7, <1>8, <1>9, SigueEmpleado DEF Empleado
<1>11. \A u \in Workers \ {w} : Callado(u)
  BY <1>1, <1>2, <1>6 DEF Callado
<1> QED
  BY <1>1, <1>10, <1>11, InterpreteSolo

\* queryInterpreter takes it.
LEMMA TomaDialogo ==
  ASSUME EnDialogo, NEW w \in Workers, Toma(w), UNCHANGED varsMaster
  PROVE  Dialogo'
<1>1. /\ ejec[w].en = "esperar" /\ semQuery[w] > 0
      /\ semQuery' = [semQuery EXCEPT ![w] = @ - 1]
      /\ ejec' = [ejec EXCEPT ![w] = SigueEn(queryActual[w].q, queryActual[w].pc)]
      /\ UNCHANGED <<queryActual, interrupcion, varsCanales>>
  BY DEF Toma
<1>2. /\ semQuery \in [Workers -> Nat] /\ DOMAIN ejec = Workers /\ Largo \in Nat \ {0}
  BY InterpreteEs
<1>3. Empleado(w) /\ ~interrupcion[w]
  BY <1>1, EmpleadoOLibre DEF Libre
<1>4. Recibida(w)
  BY <1>1, <1>3 DEF Empleado, Trabaja, EnCamino, EnCurso
<1>5. queryActual[w].q = Suya(w) /\ queryActual[w].pc = 0 /\ semQuery[w] = 1 /\ aWorker[w] = <<>>
  BY <1>4 DEF Recibida
<1>6. /\ ejec'[w] = [en |-> "ejecutar", q |-> Suya(w), pc |-> 0] /\ semQuery'[w] = 0
      /\ UNCHANGED <<queryActual, interrupcion, varsCanales>>
  BY <1>1, <1>2, <1>5 DEF SigueEn
<1>7. hilo' = hilo /\ Suya(w)' = Suya(w) /\ UNCHANGED <<aWorker, aMaster, socketWorker, avisos>>
  BY <1>1 DEF varsMaster, Suya, varsCanales
<1>8. Trabaja(w)'
  BY <1>5, <1>6, <1>7 DEF Trabaja, EnCurso, Activo
<1>9. Platica(w)'
  BY <1>3, <1>6, <1>7, <1>8, SigueEmpleado DEF Empleado
<1>10. \A u \in Workers \ {w} : Callado(u)
  BY <1>1, <1>2, <1>7 DEF Callado
<1> QED
  BY <1>7, <1>9, <1>10, InterpreteSolo

\* A process that executes has the query of its thread.
LEMMA EjecutaLaSuya ==
  ASSUME EnDialogo, NEW w \in Workers, Activo(w)
  PROVE  Empleado(w) /\ EnCurso(w) /\ ~interrupcion[w]
<1>1. Empleado(w) /\ ~interrupcion[w]
  BY EmpleadoOLibre DEF Libre
<1> QED
  BY <1>1 DEF Empleado, Trabaja, EnCamino, Recibida

\* An instruction, and the answer of a READ.
LEMMA EjecutaDialogo ==
  ASSUME EnDialogo, NEW w \in Workers, Ejecuta(w) \/ EjecutaRead(w), UNCHANGED varsMaster
  PROVE  Dialogo'
<1> DEFINE p == [q |-> ejec[w].q, cod |-> "RESPUESTA", pc |-> ejec[w].pc + 1]
<1>1. /\ ejec[w].en = "ejecutar" /\ ~Es_END(w) /\ ejec' = [ejec EXCEPT ![w].en = "verificar"]
      /\ aMaster' = aMaster \/ aMaster' = [aMaster EXCEPT ![w] = Append(@, p)]
      /\ UNCHANGED <<queryActual, semQuery, interrupcion, aWorker, socketWorker, avisos>>
  BY DEF Ejecuta, EjecutaRead, EnviaAMaster, varsCanales
<1>2. /\ aMaster \in [Workers -> Seq(Paquete)] /\ Largo \in Nat \ {0}
      /\ ejec \in [Workers -> [en : Etapas, q : Queries \cup {Ninguna}, pc : 0 .. Largo]]
      /\ ejec[w].pc < Largo /\ ejec[w].q \in Queries
  BY <1>1, InterpreteEs
<1>3. Empleado(w) /\ EnCurso(w) /\ ~interrupcion[w]
  BY <1>1, EjecutaLaSuya DEF Activo
<1>4. ejec'[w].en = "verificar" /\ ejec'[w].q = ejec[w].q /\ ejec'[w].pc = ejec[w].pc
      /\ ejec[w].pc \in 0 .. Largo /\ ejec[w].pc < Largo - 1
  BY <1>1, <1>2 DEF Es_END
<1>5. hilo' = hilo /\ Suya(w)' = Suya(w)
  BY DEF varsMaster, Suya
<1>6. Trabaja(w)'
  BY <1>1, <1>3, <1>4, <1>5 DEF Trabaja, EnCurso, Activo
<1>7. Mensajes(aMaster'[w], Suya(w)) /\ ~Contestada(aMaster'[w])
  <2>1. p \in Paquete /\ p.q = Suya(w) /\ p.cod = "RESPUESTA"
    BY <1>2, <1>3, <1>4 DEF Paquete, CodAccion, EnCurso
  <2>2. Mensajes(aMaster[w], Suya(w)) /\ ~Contestada(aMaster[w]) /\ aMaster[w] \in Seq(Paquete)
    BY <1>2, <1>3 DEF Empleado
  <2> HIDE DEF p
  <2>3. Mensajes(Append(aMaster[w], p), Suya(w)) /\ ~Contestada(Append(aMaster[w], p))
    BY <2>1, <2>2, MensajesMas
  <2>4. aMaster'[w] = aMaster[w] \/ aMaster'[w] = Append(aMaster[w], p)
    BY <1>1, <1>2
  <2> QED
    BY <2>2, <2>3, <2>4
<1>8. Platica(w)'
  BY <1>1, <1>3, <1>4, <1>5, <1>6, <1>7, SigueEmpleado
<1>9. \A u \in Workers \ {w} : Callado(u)
  BY <1>1, <1>2 DEF Callado
<1> QED
  BY <1>1, <1>8, <1>9, InterpreteSolo

\* END, or an error: the process is free and has said so.
LEMMA SueltaDialogo ==
  ASSUME EnDialogo, NEW w \in Workers, ejec[w].en = "ejecutar",
         NEW n \in 0 .. Largo, NEW hasta, Suelta(w, "FIN", n, hasta), UNCHANGED varsMaster,
         hasta.en = "esperar" \/ (hasta.en = "verificar" /\ ~(hasta.pc < Largo - 1))
  PROVE  Dialogo'
<1> DEFINE p == [q |-> ejec[w].q, cod |-> "FIN", pc |-> n]
<1>1. /\ queryActual' = [queryActual EXCEPT ![w] = NULL] /\ ejec' = [ejec EXCEPT ![w] = hasta]
      /\ aMaster' = [aMaster EXCEPT ![w] = Append(@, p)]
      /\ UNCHANGED <<semQuery, interrupcion, aWorker, socketWorker, socketQC, avisos>>
  BY DEF Suelta, EnviaAMaster
<1>2. /\ aMaster \in [Workers -> Seq(Paquete)] /\ DOMAIN queryActual = Workers /\ DOMAIN ejec = Workers
      /\ ejec[w].q \in Queries
  BY InterpreteEs
<1>3. Empleado(w) /\ EnCurso(w) /\ ~interrupcion[w]
  BY EjecutaLaSuya DEF Activo
<1>4. ejec'[w] = hasta /\ queryActual'[w] = NULL /\ aMaster'[w] = Append(aMaster[w], p)
  BY <1>1, <1>2
<1>5. UNCHANGED <<hilo, socketWorker>> /\ Etiqueta(w)' = Etiqueta(w) /\ Suya(w)' = Suya(w)
      /\ (Muerto(w)' <=> Muerto(w))
  BY <1>1 DEF varsMaster, Etiqueta, Suya, Muerto
<1>6. Libre(w)'
  BY <1>1, <1>3, <1>4 DEF Libre, EnCurso, Activo, NULL
<1>7. Mensajes(aMaster'[w], Suya(w)) /\ Contestada(aMaster'[w])
  <2>1. p \in Paquete /\ p.q = Suya(w) /\ p.cod = "FIN"
    BY <1>2, <1>3 DEF Paquete, CodAccion, EnCurso
  <2>2. Mensajes(aMaster[w], Suya(w)) /\ ~Contestada(aMaster[w]) /\ aMaster[w] \in Seq(Paquete)
    BY <1>2, <1>3 DEF Empleado
  <2> HIDE DEF p
  <2>3. Mensajes(Append(aMaster[w], p), Suya(w)) /\ Contestada(Append(aMaster[w], p))
    BY <2>1, <2>2, MensajesMas
  <2> QED
    BY <1>4, <2>3
<1>8. Conversa(w)'
  <2>1. Mensajes(aMaster[w], Suya(w))' /\ Contestada(aMaster[w])'
    BY <1>5, <1>7 DEF Mensajes, Contestada
  <2> QED
    BY <1>6, <2>1 DEF Conversa
<1>9. Platica(w)'
  BY <1>1, <1>3, <1>4, <1>5, <1>6, <1>8 DEF Platica, Empleado
<1>10. \A u \in Workers \ {w} : Callado(u)
  BY <1>1, <1>2 DEF Callado
<1> QED
  BY <1>1, <1>9, <1>10, InterpreteSolo

\* The end of an instruction: the query goes on, or there was none.
LEMMA VerificaDialogo ==
  ASSUME EnDialogo, NEW w \in Workers, Verifica(w), UNCHANGED varsMaster
  PROVE  Dialogo'
<1> DEFINE n == ejec[w].pc + 1
<1>1. /\ ejec[w].en = "verificar" /\ ~interrupcion[w]
  BY EmpleadoOLibre DEF Verifica
<1>2. /\ ejec' = [ejec EXCEPT ![w] = SigueEn(ejec[w].q, n)]
      /\ interrupcion' = [interrupcion EXCEPT ![w] = FALSE]
      /\ UNCHANGED <<queryActual, semQuery, varsCanales>>
  BY <1>1 DEF Verifica
<1>3. /\ interrupcion \in [Workers -> BOOLEAN] /\ Largo \in Nat \ {0}
      /\ ejec \in [Workers -> [en : Etapas, q : Queries \cup {Ninguna}, pc : 0 .. Largo]]
      /\ ejec[w].pc < Largo
  BY <1>1, InterpreteEs
<1>4. ejec[w].pc \in Int /\ (n < Largo <=> ejec[w].pc < Largo - 1)
  BY <1>3
<1>5. /\ ejec'[w] = (IF ejec[w].pc < Largo - 1 THEN [en |-> "ejecutar", q |-> ejec[w].q, pc |-> n] ELSE Ocioso)
      /\ ~interrupcion'[w]
  BY <1>2, <1>3, <1>4 DEF SigueEn
<1> HIDE DEF n
<1>6. (Activo(w)' <=> Activo(w)) /\ (Activo(w) => ejec'[w].q = ejec[w].q)
      /\ ejec'[w].en \notin {"persistir", "muerto"}
  BY <1>1, <1>5 DEF Activo, Ocioso
<1>7. UNCHANGED <<hilo, aWorker, aMaster, socketWorker, queryActual, semQuery, avisos>>
  BY <1>2 DEF varsMaster, varsCanales
<1>8. /\ Etiqueta(w)' = Etiqueta(w) /\ Suya(w)' = Suya(w) /\ Pedido(w)' = Pedido(w)
      /\ (Muerto(w)' <=> Muerto(w)) /\ (Libre(w)' <=> Libre(w))
  BY <1>6, <1>7 DEF Etiqueta, Suya, Pedido, Muerto, Libre, NULL
<1>9. Trabaja(w)' <=> Trabaja(w)
  BY <1>6, <1>7, <1>8 DEF Trabaja, EnCamino, Recibida, EnCurso, NULL
<1>10. Conversa(w)' <=> Conversa(w)
  BY <1>7, <1>8, <1>9 DEF Conversa, Mensajes, Contestada
<1>11. Platica(w)'
  BY <1>1, <1>5, <1>6, <1>7, <1>8, <1>10 DEF EnDialogo, Dialogo, Platica
<1>12. \A u \in Workers \ {w} : Callado(u)
  BY <1>2, <1>3, <1>7 DEF Callado
<1> QED
  BY <1>7, <1>11, <1>12, InterpreteSolo

\* The process ends: what it was told and what it did are gone.
LEMMA CaeDialogo ==
  ASSUME EnDialogo, NEW w \in Workers, Cae(w), UNCHANGED varsMaster
  PROVE  Dialogo'
<1>1. /\ Corre(w) /\ ejec' = [ejec EXCEPT ![w] = [Ocioso EXCEPT !.en = "muerto"]]
      /\ queryActual' = [queryActual EXCEPT ![w] = NULL] /\ semQuery' = [semQuery EXCEPT ![w] = 0]
      /\ interrupcion' = [interrupcion EXCEPT ![w] = FALSE]
      /\ socketWorker' = [socketWorker EXCEPT ![w] = IF aWorker[w] = <<>> THEN "cerrado" ELSE "roto"]
      /\ aWorker' = [aWorker EXCEPT ![w] = <<>>] /\ UNCHANGED <<aMaster, socketQC, avisos>>
  BY DEF Cae, CierraWorker
<1>2. /\ aWorker \in [Workers -> Seq(Paquete)] /\ socketWorker \in [Workers -> EstadoSocket]
      /\ semQuery \in [Workers -> Nat] /\ interrupcion \in [Workers -> BOOLEAN]
      /\ DOMAIN queryActual = Workers /\ DOMAIN ejec = Workers
  BY InterpreteEs
<1>3. /\ ejec'[w].en = "muerto" /\ queryActual'[w] = NULL /\ semQuery'[w] = 0 /\ ~interrupcion'[w]
      /\ socketWorker'[w] # "abierto" /\ aWorker'[w] = <<>> /\ aMaster' = aMaster
  BY <1>1, <1>2 DEF Ocioso
<1>4. Libre(w)' /\ Muerto(w)'
  BY <1>3 DEF Libre, Activo, Muerto, NULL
<1>5. Etiqueta(w)' = Etiqueta(w) /\ Suya(w)' = Suya(w)
  BY DEF varsMaster, Etiqueta, Suya
<1>6. Platica(w)'
  <2>1. Platica(w)
    BY DEF EnDialogo, Dialogo
  <2>2. CASE Etiqueta(w) \in Habla
    <3>1. Mensajes(aMaster[w], Suya(w))'
      BY <1>3, <1>5, <2>1, <2>2 DEF Platica, Conversa, Mensajes
    <3>2. Conversa(w)'
      BY <1>4, <3>1 DEF Conversa
    <3> QED
      BY <1>3, <1>4, <1>5, <2>2, <3>2 DEF Platica
  <2>3. CASE Etiqueta(w) \notin Habla
    BY <1>3, <1>4, <1>5, <2>1, <2>3 DEF Platica
  <2> QED
    BY <2>2, <2>3
<1>7. \A u \in Workers \ {w} : Callado(u)
  BY <1>1, <1>2 DEF Callado
<1> QED
  BY <1>1, <1>6, <1>7, InterpreteSolo

\* The two threads of a Worker, and its end.
LEMMA InterpreteDialogo ==
  ASSUME EnDialogo, NEW w \in Workers, PasoInterprete(w) \/ CaeWorker(w), UNCHANGED varsMaster
  PROVE  Dialogo'
<1>1. ejec[w].en # "persistir"
  BY EmpleadoOLibre
<1>2. CASE EjecutaEnd(w)
  <2>1. /\ ejec[w].en = "ejecutar" /\ Es_END(w)
        /\ Suelta(w, "FIN", ejec[w].pc + 1, [ejec[w] EXCEPT !.en = "verificar"])
    BY <1>2 DEF EjecutaEnd
  <2>2. /\ Largo \in Nat \ {0}
        /\ ejec \in [Workers -> [en : Etapas, q : Queries \cup {Ninguna}, pc : 0 .. Largo]]
    BY InterpreteEs
  <2>3. ejec[w].pc + 1 \in 0 .. Largo /\ ejec[w].pc = Largo - 1
    BY <2>1, <2>2 DEF Es_END
  <2>4. [ejec[w] EXCEPT !.en = "verificar"].en = "verificar"
        /\ [ejec[w] EXCEPT !.en = "verificar"].pc = Largo - 1
    BY <2>2, <2>3
  <2> QED
    BY <2>1, <2>2, <2>3, <2>4, SueltaDialogo
<1>3. CASE ProcesaError(w)
  <2>1. ejec[w].en = "ejecutar" /\ Suelta(w, "FIN", 0, Ocioso) /\ 0 \in 0 .. Largo
    BY <1>1, <1>3, InterpreteEs DEF ProcesaError
  <2> QED
    BY <2>1, SueltaDialogo DEF Ocioso
<1>4. CASE FallaWorker(w) \/ CaeWorker(w)
  BY <1>4, CaeDialogo DEF FallaWorker, CaeWorker
<1>5. CASE ConfirmaDesalojo(w)
  BY <1>1, <1>5 DEF ConfirmaDesalojo
<1> QED
  BY <1>2, <1>3, <1>4, <1>5, EscuchaDialogo, TomaDialogo, EjecutaDialogo, VerificaDialogo DEF PasoInterprete

-----------------------------------------------------------------------------
(* The invariant holds.                                                    *)

\* Before the first query arrives.
LEMMA DialogoInit == Init => EnDialogo
<1> SUFFICES ASSUME Init PROVE EnDialogo
  OBVIOUS
<1>1. Ubicadas
  BY UbicadasInit
<1>2. /\ listaWorker = <<>> /\ hilo = [h \in Hilos |-> Inicial(h)]
      /\ idQuery = [w \in Workers |-> Ninguna] /\ \A q \in Queries : qm[q].pc = 0
  BY DEF Init, InitMaster
<1>3. \A w \in Workers :
        /\ aWorker[w] = <<>> /\ aMaster[w] = <<>> /\ socketWorker[w] = "abierto"
        /\ queryActual[w] = NULL /\ semQuery[w] = 0 /\ ~interrupcion[w] /\ ejec[w].en = "esperar"
  BY DEF Init, InitCanales, InitInterprete
<1>4. \A w \in Workers : Etiqueta(w) = "conectar"
  BY <1>2, HilosTipo, HilosNombres DEF Etiqueta, Inicial
<1>5. EnFifo
  <2>1. ASSUME NEW h \in Hilos PROVE hilo[h].pc \in DeFifo[h[1]]
    <3>1. h[1] \in {"ready", "exit", "aging", "query", "worker"}
      BY HilosNombres
    <3> QED
      BY <1>2, <3>1 DEF Inicial, DeFifo
  <2> QED
    BY <2>1 DEF EnFifo
<1>6. Conectados
  <2>1. ToSet(listaWorker) = {} /\ IsInjective(listaWorker)
    BY <1>2 DEF ToSet, IsInjective
  <2> QED
    BY <1>2, <2>1 DEF Conectados
<1>7. Marcas
  BY <1>2, <1>4 DEF Marcas, Marca
<1>8. Recien
  BY <1>2, HilosTipo, HilosNombres DEF Recien, Inicial
<1>9. \A w \in Workers : Platica(w)
  BY <1>3, <1>4 DEF Platica, Muerto, Libre, Activo, Habla
<1> QED
  BY <1>1, <1>5, <1>6, <1>7, <1>8, <1>9 DEF EnDialogo, Dialogo

\* Every step keeps it.
LEMMA DialogoPaso ==
  ASSUME Fifo, QCEstables, EnDialogo, [Next]_vars
  PROVE  EnDialogo'
<1>1. Ubicadas'
  BY UbicadasPaso DEF EnDialogo
<1>2. Dialogo'
  <2>1. CASE UNCHANGED vars
    <3>1. UNCHANGED <<hilo, colas, qm, varsWorkers, avisos>> /\ EnSilencio
      BY <2>1 DEF vars, varsMaster, varsCanales, EnSilencio
    <3> QED
      BY <3>1, QuietoDialogo
  <2>2. CASE MasterReady \/ MasterExit
    BY <2>2, ReadyDialogo, ExitDialogo
  <2>3. ASSUME NEW h \in Hilos, MasterDesalojo(h) PROVE Dialogo'
    BY <2>3, DesalojoDialogo
  <2>4. ASSUME NEW h \in Hilos, MasterFalla(h) PROVE Dialogo'
    <3>1. UNCHANGED <<hilo, colas, qm, varsWorkers, avisos>> /\ EnSilencio
      BY <2>4 DEF MasterFalla, PasoFalla, FallaPunteroNulo, FallaUsoTrasLiberar, FallaDobleLiberacion,
                  FallaSIGPIPE, Muere, varsCanales, EnSilencio
    <3> QED
      BY <3>1, QuietoDialogo
  <2>5. ASSUME NEW q \in Queries, MasterAging(q) \/ MasterQuery(q) PROVE Dialogo'
    BY <2>5, AgingDialogo, QueryDialogo
  <2>6. ASSUME NEW q \in Queries, QCTermina(q) \/ QCAbandona(q) PROVE Dialogo'
    <3>1. UNCHANGED <<hilo, colas, qm, varsWorkers, avisos>> /\ EnSilencio
      BY <2>6 DEF QCTermina, QCAbandona, CierraQC, varsMaster, EnSilencio
    <3> QED
      BY <3>1, QuietoDialogo
  <2>7. ASSUME NEW w \in Workers, MasterWorker(w) PROVE Dialogo'
    BY <2>7, WorkerDialogo
  <2>8. ASSUME NEW w \in Workers, Worker(w) \/ WorkerCae(w) PROVE Dialogo'
    BY <2>8, InterpreteDialogo DEF Worker, WorkerCae
  <2> QED
    BY <2>1, <2>2, <2>3, <2>4, <2>5, <2>6, <2>7, <2>8 DEF Next
<1> QED
  BY <1>1, <1>2 DEF EnDialogo

\* So it always holds.
LEMMA DialogoSiempre == ASSUME Fifo, QCEstables PROVE Spec => []EnDialogo
<1>1. Init => EnDialogo
  BY DialogoInit
<1>2. EnDialogo /\ [Next]_vars => EnDialogo'
  BY DialogoPaso
<1> QED
  BY <1>1, <1>2, PTL DEF Spec

\* Under FIFO what a Worker thread sends is the order to execute: no other
\* thread changes codAccion between its writing and the packet (167-169).
THEOREM SeEnviaEjecucionSiempre == ASSUME Fifo, QCEstables PROVE Spec => []SeEnviaEjecucion
<1>1. EnDialogo => SeEnviaEjecucion
  <2> SUFFICES ASSUME EnDialogo, NEW w \in Workers, Etiqueta(w) = "enviar"
               PROVE  hilo[DeWorker(w)].mensaje.cod = "EJECUCION"
    BY DEF SeEnviaEjecucion, Etiqueta
  <2>1. hilo[DeWorker(w)].mensaje = Pedido(w)
    BY DEF EnDialogo, Dialogo, Marcas, Marca
  <2> QED
    BY <2>1 DEF Pedido
<1> QED
  BY <1>1, DialogoSiempre, PTL

\* Under FIFO a reply, which names no query, is applied to the query it speaks
\* of, though Workers crash with replies on their way (172-203).
THEOREM RespuestaDeLaSuyaSiempre == ASSUME Fifo, QCEstables PROVE Spec => []RespuestaDeLaSuya
<1>1. EnDialogo => RespuestaDeLaSuya
  <2> SUFFICES ASSUME EnDialogo, NEW w \in Workers, Etiqueta(w) = "recibir", aMaster[w] # <<>>
               PROVE  Head(aMaster[w]).q = Suya(w)
    BY DEF RespuestaDeLaSuya, Etiqueta
  <2>1. Mensajes(aMaster[w], Suya(w)) /\ aMaster[w] \in Seq(Paquete)
    BY InterpreteEs DEF EnDialogo, Dialogo, Platica, Conversa, Habla
  <2> QED
    BY <2>1, MensajesCabeza
<1> QED
  BY <1>1, DialogoSiempre, PTL

\* Under FIFO a Worker thread that waits for a reply has one on its way, or a
\* Worker with the order, the query or its end (169-172; ejecucion.c 4-151).
THEOREM NadieEsperaEnVanoSiempre == ASSUME Fifo, QCEstables PROVE Spec => []NadieEsperaEnVano
<1>1. EnDialogo => NadieEsperaEnVano
  <2> SUFFICES ASSUME EnDialogo, NEW w \in Workers, Etiqueta(w) = "recibir"
               PROVE  \/ aWorker[w] # <<>> \/ aMaster[w] # <<>> \/ socketWorker[w] # "abierto"
                      \/ semQuery[w] > 0 \/ ejec[w].en # "esperar"
    BY DEF NadieEsperaEnVano, Etiqueta
  <2>1. Conversa(w)
    BY DEF EnDialogo, Dialogo, Platica, Habla
  <2>2. EnCamino(w) => aWorker[w] # <<>>
    BY DEF EnCamino
  <2> QED
    BY <2>1, <2>2 DEF Conversa, Trabaja, Recibida, EnCurso, Activo, Contestada, Muerto
<1> QED
  BY <1>1, DialogoSiempre, PTL

\* Under FIFO no two Workers hold the same query, whichever crash
\* (155-186; ejecucion.c 20-31).
THEOREM UnSoloEjecutorSiempre == ASSUME Fifo, QCEstables PROVE Spec => []UnSoloEjecutor
<1>1. EnDialogo => UnSoloEjecutor
  <2> SUFFICES ASSUME EnDialogo, NEW u \in Workers, NEW w \in Workers, u # w, queryActual[u] # NULL
               PROVE  queryActual[u].q # queryActual[w].q
    BY DEF UnSoloEjecutor
  <2>1. ASSUME NEW v \in Workers, queryActual[v] # NULL
        PROVE  queryActual[v].q = Suya(v) /\ Etiqueta(v) \in ConExecute
    <3>1. Empleado(v)
      BY <2>1, EmpleadoOLibre DEF Libre
    <3> QED
      BY <2>1, <3>1 DEF Empleado, Trabaja, EnCamino, Recibida, EnCurso, Habla, ConExecute
  <2>2. CASE queryActual[w] = NULL
    <3>1. queryActual[u].q \in Queries
      BY DEF EnDialogo, Ubicadas, Tipos, InterpreteOK
    <3> QED
      BY <2>2, <3>1, CanalesAssumption DEF NULL
  <2>3. CASE queryActual[w] # NULL
    BY <2>1, <2>3, DosWorkers DEF EnDialogo
  <2> QED
    BY <2>2, <2>3
<1> QED
  BY <1>1, DialogoSiempre, PTL

\* What is in a list or in the hand of a Worker thread is not freed.
LEMMA NoLiberada ==
  ASSUME EnDialogo, NEW h \in Hilos, hilo[h].pc # "codFin"
  PROVE  ~UsoTrasLiberar(h)
<1>1. hilo[h].pc \in DeFifo[h[1]] /\ h[1] \in {"ready", "exit", "aging", "query", "worker"}
  BY HilosNombres DEF EnDialogo, Dialogo, EnFifo
<1>2. ~(Desaloja(h) /\ hilo[h].pc \in {"serializar", "enviar"})
  BY <1>1 DEF DeFifo, Desaloja
<1>3. CASE hilo[h].pc \in SinQuery
  <2>1. hilo[h].pc \notin {"recibir", "comparar", "buscar", "marcar", "serializar"}
    BY <1>3 DEF SinQuery
  <2>2. Toca(h) = {}
    BY <1>3, <2>1 DEF Toca
  <2> QED
    BY <1>2, <2>2 DEF UsoTrasLiberar
<1>4. CASE hilo[h].pc \notin SinQuery
  <2>1. \/ h = Ready /\ hilo[h].pc \in {"codEspera", "comenzarAging"}
        \/ h[1] = "worker" /\ hilo[h].pc \in Mano \cup ConExecute
    BY <1>1, <1>4, HilosNombres DEF DeFifo, SinQuery, Mano, ConExecute
  <2>2. Toca(h) \subseteq {hilo[h].actual}
    BY <1>2, <2>1, HilosNombres DEF Toca, Mano, ConExecute, QueryEnviada, Desaloja
  <2>3. hilo[h].actual \in Queries /\ \E l \in Lugares : hilo[h].actual \in Contenido(l)
    <3>1. CASE h = Ready /\ hilo[h].pc \in {"codEspera", "comenzarAging"}
      <4>1. hilo[h].actual \in ToSet(colas["ready"]) /\ colas["ready"] \in Seq(Queries)
        BY <3>1, RecienAparte DEF EnDialogo, Ubicadas, Tipos, MasterOK, ColasOK, Colas
      <4>2. EnCola("ready") \in Lugares /\ Contenido(EnCola("ready")) = ToSet(colas["ready"])
        BY LugarForma, LugarContenido DEF Colas
      <4> QED
        BY <4>1, <4>2 DEF ToSet
    <3>2. CASE h[1] = "worker" /\ hilo[h].pc \in Mano \cup ConExecute
      <4>1. h[2] \in Workers /\ h = DeWorker(h[2])
        BY <3>2, HilosNombres
      <4>2. Etiqueta(h[2]) \in Mano \cup ConExecute /\ hilo[h].actual = Suya(h[2])
        BY <3>2, <4>1 DEF Etiqueta, Suya
      <4>3. Suya(h[2]) \in Queries /\ \E l \in Lugares : Suya(h[2]) \in Contenido(l)
        BY <4>1, <4>2, SuyaTipo, DondeEsta DEF EnDialogo
      <4> QED
        BY <4>2, <4>3
    <3> QED
      BY <2>1, <3>1, <3>2
  <2>4. qm[hilo[h].actual].liberada = "no"
    BY <2>3 DEF EnDialogo, Ubicadas, UnLugar
  <2> QED
    BY <1>2, <2>2, <2>4 DEF UsoTrasLiberar
<1> QED
  BY <1>3, <1>4

\* Under FIFO a freed query is touched by nobody but the last lines of
\* enviarExit, which push it before they are done (238-241).
THEOREM UsoTrasLiberarSoloEnExitSiempre ==
  ASSUME Fifo, QCEstables PROVE Spec => []UsoTrasLiberarSoloEnExit
<1>1. EnDialogo => UsoTrasLiberarSoloEnExit
  BY NoLiberada DEF UsoTrasLiberarSoloEnExit
<1> QED
  BY <1>1, DialogoSiempre, PTL

-----------------------------------------------------------------------------
(***************************************************************************)
(* One Worker that does not crash, and Query Controls that stay: nothing   *)
(* goes wrong under FIFO, however many queries there are.  The query that  *)
(* enviarExit still touches is the last of colaExit, and there is one more *)
(* in it than posts, so that exitStatus does not reach it.                 *)
(***************************************************************************)

UnWorker == \A u, w \in Workers : u = w
WorkersEstables == WorkersInestables = {}

Vivos == \A w \in Workers : ~Muerto(w)
UltimaExit == \A w \in Workers : Etiqueta(w) = "codFin" => Ultima(colas["exit"], Suya(w))
Sano == EnDialogo /\ Conteo /\ Vivos /\ UltimaExit

\* No Worker ends.
LEMMA VivosPaso ==
  ASSUME WorkersEstables, EnDialogo, Vivos, [Next]_vars
  PROVE  Vivos'
<1>1. socketWorker \in [Workers -> EstadoSocket]
  BY DEF EnDialogo, Ubicadas, Tipos, TypeOKCanales
<1>2. SUFFICES socketWorker' = socketWorker
  BY DEF Vivos, Muerto
<1>3. CASE UNCHANGED vars
  BY <1>3 DEF vars, varsCanales
<1>4. CASE MasterReady \/ MasterExit
  BY <1>4 DEF MasterReady, PasoReady, ReadyEspera, ReadySaca, ReadyCodEspera, ReadyPublica, MasterExit,
              PasoExit, ExitLibera, ExitCierra, PonCampo, varsCanales
<1>5. ASSUME NEW h \in Hilos, MasterDesalojo(h) PROVE socketWorker' = socketWorker
  <2>1. CASE Envia(h)
    <3>1. socketWorker' = [socketWorker EXCEPT ![WorkerDestino(h)] = TrasEnviar(@)]
      BY <2>1 DEF Envia, EnviaAWorker
    <3> QED
      BY <1>1, <3>1 DEF Vivos, Muerto, TrasEnviar
  <2>2. CASE ~Envia(h)
    BY <1>5, <2>2 DEF MasterDesalojo, PasoDesalojo, VerificaHayExecute, VerificaTodosTienen,
         VerificaUltima, VerificaToma, VerificaPropia, VerificaCompara, DesalojoBusca, DesalojoMarca,
         Serializa, PublicaExit, Mira, Anota, PonCampo, varsCanales
  <2> QED
    BY <2>1, <2>2
<1>6. ASSUME NEW h \in Hilos, MasterFalla(h) PROVE socketWorker' = socketWorker
  BY <1>6 DEF MasterFalla, PasoFalla, FallaPunteroNulo, FallaUsoTrasLiberar, FallaDobleLiberacion,
              FallaSIGPIPE, Muere, varsCanales
<1>7. ASSUME NEW q \in Queries, MasterAging(q) \/ MasterQuery(q) PROVE socketWorker' = socketWorker
  BY <1>7, AgingDialogo DEF MasterQuery, PasoQuery, ConectaQuery, DetectaDesconexion, DesconectaEnExecute,
       RegistraDesconexion, BuscaEnReady, DesconectaEnReady, SacaDeReady, PoneFinReady, ExitDeReady,
       EncolaExit, Mira, PonCampo, PonCola, varsCanales
<1>8. ASSUME NEW q \in Queries, QCTermina(q) \/ QCAbandona(q) PROVE socketWorker' = socketWorker
  BY <1>8 DEF QCTermina, QCAbandona, CierraQC
<1>9. ASSUME NEW w \in Workers, MasterWorker(w) PROVE socketWorker' = socketWorker
  BY <1>9 DEF MasterWorker, PasoWorker, ConectaWorker, TomaReady, AgregaExecute, PoneEjecucion, AsignaQuery,
       RecibeRespuesta, Responde, Finaliza, DesalojaSacaExecute, DesalojaMiraQC, DesalojaReencola,
       DesalojaPublica, DesalojaDesconectada, DesalojaExit, DesalojaLiberaId, DetectaCaida, AvisaFin,
       SacaExecute, AgregaExit, PoneFin, EncolaExit, Mira, PoneIdQuery, PonCampo, PonCola, EnviaAQC, varsCanales
<1>10. ASSUME NEW w \in Workers, Worker(w) \/ WorkerCae(w) PROVE socketWorker' = socketWorker
  <2>1. ~CaeWorker(w)
    BY DEF CaeWorker, WorkersEstables
  <2>2. ~FallaWorker(w)
    <3>1. SUFFICES ASSUME PunteroNuloWorker(w) PROVE FALSE
      BY DEF FallaWorker
    <3>2. ejec[w].en # "persistir" /\ ~Libre(w)
      BY <3>1, EmpleadoOLibre DEF PunteroNuloWorker, Libre, Activo
    <3>3. Trabaja(w) /\ ~EnCamino(w)
      BY <3>1, <3>2, EmpleadoOLibre DEF Empleado, EnCamino, Activo, PunteroNuloWorker
    <3>4. queryActual[w].q = Suya(w) /\ Etiqueta(w) \in Habla
      BY <3>2, <3>3, EmpleadoOLibre DEF Empleado, Trabaja, Recibida, EnCurso
    <3>5. Suya(w) \in Queries
      BY <3>4, SuyaTipo DEF EnDialogo, Habla, ConExecute
    <3> QED
      BY <3>1, <3>4, <3>5, CanalesAssumption DEF PunteroNuloWorker, NULL
  <2> QED
    BY <1>10, <2>1, <2>2 DEF Worker, WorkerCae, PasoInterprete, Escucha, Toma, Ejecuta, EjecutaRead,
         EjecutaEnd, ProcesaError, Verifica, ConfirmaDesalojo, Suelta, varsCanales
<1> QED
  BY <1>3, <1>4, <1>5, <1>6, <1>7, <1>8, <1>9, <1>10 DEF Next

\* colaExit and the thread stay.
LEMMA ExitIgual ==
  ASSUME UltimaExit, colas'["exit"] = colas["exit"],
         \A w \in Workers : hilo'[DeWorker(w)] = hilo[DeWorker(w)]
  PROVE  UltimaExit'
BY DEF UltimaExit, Ultima, Etiqueta, Suya

\* exitStatus takes the first, which is not the one that was just put there:
\* there are more queries than posts.
LEMMA ExitLiberaUltima ==
  ASSUME Sano, ExitLibera
  PROVE  UltimaExit'
<1>1. /\ colas["exit"] # <<>> /\ sem["exit"] > 0 /\ colas' = [colas EXCEPT !["exit"] = Tail(@)]
      /\ hilo' = [hilo EXCEPT ![Exit].pc = "cerrar", ![Exit].actual = Head(colas["exit"])]
  BY DEF ExitLibera
<1> DEFINE s == colas["exit"]
<1>2. s \in Seq(Queries) /\ colas'["exit"] = Tail(s) /\ sem["exit"] \in Nat
  BY <1>1 DEF Sano, Conteo, Tipos, MasterOK, ColasOK, SemOK, Colas
<1>3. \A w \in Workers : hilo'[DeWorker(w)] = hilo[DeWorker(w)]
  <2>1. \A w \in Workers : DeWorker(w) # Exit
    BY HilosNombres
  <2> QED
    BY <1>1, <2>1, HilosTipo DEF Sano, Conteo, Tipos, MasterOK, HiloOK
<1>4. \A w \in Workers : Etiqueta(w)' = Etiqueta(w) /\ Suya(w)' = Suya(w)
  BY <1>3 DEF Etiqueta, Suya
<1>5. SUFFICES ASSUME NEW w \in Workers, Etiqueta(w) = "codFin" PROVE Ultima(Tail(s), Suya(w))
  BY <1>2, <1>4 DEF UltimaExit, Ultima
<1>6. s[Len(s)] = Suya(w)
  BY <1>5 DEF Sano, UltimaExit, Ultima
<1>7. CuantosExit > 0 /\ CuantosExit \in Nat
  <2>1. DeWorker(w) \in HilosEn(PendienteExit)
    BY <1>5, HilosTipo DEF HilosEn, PendienteExit, Etiqueta
  <2>2. IsFiniteSet(HilosEn(PendienteExit)) /\ Cardinality(HilosEn(PendienteExit)) \in Nat
    BY HilosEnTipo
  <2> HIDE DEF HilosEn
  <2>3. Cardinality(HilosEn(PendienteExit)) # 0
    BY <2>1, <2>2, FS_EmptySet
  <2> QED
    BY <2>2, <2>3 DEF CuantosExit
<1>8. Len(s) = sem["exit"] + CuantosExit
  BY DEF Sano, Conteo, Cuenta, LargoExit, SemExit
<1> HIDE DEF s
<1>9. /\ Tail(s) \in Seq(Queries) /\ Len(s) \in Nat /\ Len(Tail(s)) = Len(s) - 1
      /\ \A k \in 1 .. Len(s) - 1 : Tail(s)[k] = s[k + 1]
      /\ Tail(s) = <<>> <=> Len(s) = 1
  <2>1. s # <<>>
    BY <1>1 DEF s
  <2> QED
    BY <1>2, <2>1, TailCorre
<1>10. Len(s) >= 2
  BY <1>1, <1>2, <1>7, <1>8, <1>9
<1>11. Len(s) - 1 \in 1 .. Len(s) - 1 /\ Len(s) - 1 + 1 = Len(s)
  BY <1>9, <1>10
<1>12. Tail(s)[Len(s) - 1] = s[Len(s)]
  BY <1>9, <1>11
<1> QED
  BY <1>6, <1>9, <1>10, <1>12 DEF Ultima

\* Its own thread puts it there.
LEMMA WorkerUltima ==
  ASSUME UnWorker, Sano, NEW w \in Workers, MasterWorker(w)
  PROVE  UltimaExit'
<1>1. SUFFICES Etiqueta(w)' = "codFin" => Ultima(colas["exit"], Suya(w))'
  BY DEF UltimaExit, UnWorker
<1>2. PasoWorker(w) /\ EnDialogo
  BY DEF MasterWorker, Sano
<1>3. Etiqueta(w) \in DeFifo.worker
  BY FifoEtiquetas DEF Sano, EnDialogo, Dialogo
<1>4. CASE AgregaExit(w)
  <2>1. Va(DeWorker(w), "agregarExit", "codFin")
        /\ colas' = [colas EXCEPT !["exit"] = Append(colas["exit"], hilo[DeWorker(w)].actual)]
    BY <1>4 DEF AgregaExit, EncolaExit, PonCola
  <2>2. Etiqueta(w) = "agregarExit" /\ Suya(w)' = Suya(w)
    BY <1>2, <2>1, VaWorker
  <2>3. Suya(w) \in Queries /\ colas["exit"] \in Seq(Queries) /\ colas \in [Colas -> Seq(Queries)]
    BY <1>2, <2>2, SuyaTipo DEF EnDialogo, Mano, Ubicadas, Tipos, MasterOK, ColasOK, Colas
  <2>4. colas'["exit"] = Append(colas["exit"], Suya(w))
    BY <2>1, <2>3 DEF Suya, Colas
  <2> DEFINE s == colas["exit"]
             t == Append(s, Suya(w))
  <2>5. Len(s) \in Nat /\ t \in Seq(Queries) /\ Len(t) = Len(s) + 1 /\ t[Len(s) + 1] = Suya(w)
    BY <2>3, AppendProperties, LenProperties
  <2> HIDE DEF s, t
  <2>6. Ultima(t, Suya(w))
    <3>1. t # <<>>
      BY <2>5, EmptySeq
    <3> QED
      BY <2>5, <3>1 DEF Ultima
  <2> QED
    BY <2>2, <2>4, <2>6 DEF s, t, Ultima
<1>5. CASE ~AgregaExit(w)
  <2>1. Etiqueta(w)' # "codFin"
    <3>1. DeWorker(w) \in Hilos /\ hilo \in [Hilos -> Hilo]
      BY <1>2, HilosTipo DEF EnDialogo, Ubicadas, Tipos, MasterOK, HiloOK
    <3>2. CASE TomaReady(w)
      BY <3>1, <3>2 DEF TomaReady, Etiqueta, Hilo
    <3>3. CASE ~TomaReady(w)
      <4> DEFINE Pasa == \E d, e : e # "codFin" /\ Va(DeWorker(w), d, e)
      <4>1. CASE ConectaWorker(w) \/ AsignaQuery(w) \/ Finaliza(w) \/ DesalojaLiberaId(w)
        <5>1. Pasa
          BY <4>1 DEF ConectaWorker, AsignaQuery, Finaliza, DesalojaLiberaId, PoneIdQuery
        <5> QED
          BY <1>2, <5>1, VaWorker
      <4>2. CASE AgregaExecute(w) \/ DesalojaSacaExecute(w) \/ DesalojaReencola(w) \/ SacaExecute(w)
                 \/ DesalojaExit(w)
        <5>1. Pasa
          BY <4>2 DEF AgregaExecute, DesalojaSacaExecute, DesalojaReencola, SacaExecute, DesalojaExit,
                      EncolaExit, PonCola
        <5> QED
          BY <1>2, <5>1, VaWorker
      <4>3. CASE PoneEjecucion(w) \/ DesalojaDesconectada(w) \/ Responde(w) \/ DesalojaPublica(w)
                 \/ DetectaCaida(w) \/ AvisaFin(w)
        <5>1. Pasa
          BY <4>3 DEF PoneEjecucion, DesalojaDesconectada, Responde, DesalojaPublica, DetectaCaida,
                      AvisaFin, PonCampo
        <5> QED
          BY <1>2, <5>1, VaWorker
      <4>4. CASE RecibeRespuesta(w)
        <5>1. Destino(Head(aMaster[w]).cod) # "codFin"
          BY DEF Destino
        <5>2. Pasa
          BY <4>4, <5>1 DEF RecibeRespuesta
        <5> QED
          BY <1>2, <5>2, VaWorker
      <4>5. CASE PoneFin(w)
        <5>1. Pasa
          BY <4>5 DEF PoneFin
        <5> QED
          BY <1>2, <5>1, VaWorker
      <4>6. CASE DesalojaMiraQC(w)
        <5>1. Pasa
          BY <4>6 DEF DesalojaMiraQC, Mira
        <5> QED
          BY <1>2, <5>1, VaWorker
      <4> QED
        BY <1>2, <1>5, <3>3, <4>1, <4>2, <4>3, <4>4, <4>5, <4>6 DEF PasoWorker
    <3> QED
      BY <3>2, <3>3
  <2> QED
    BY <2>1
<1> QED
  BY <1>4, <1>5

\* The other threads of the Master put nothing in colaExit.
LEMMA OtrosUltima ==
  ASSUME EnDialogo, UltimaExit, MasterReady \/ \E q \in Queries : MasterQuery(q)
  PROVE  UltimaExit'
<1>1. colas \in [Colas -> Seq(Queries)] /\ HiloOK
  BY DEF EnDialogo, Ubicadas, Tipos, MasterOK, ColasOK
<1>2. \A w \in Workers : DeWorker(w) \in Hilos /\ DeWorker(w) # Ready
                         /\ \A q : DeWorker(w) # DeQuery(q) /\ DeWorker(w) # Aging(q)
  BY HilosTipo, HilosNombres
<1>3. ASSUME colas'["exit"] = colas["exit"], NEW h \in Hilos, NEW d, NEW e, Va(h, d, e),
             \A w \in Workers : DeWorker(w) # h
      PROVE  UltimaExit'
  <2>1. \A w \in Workers : hilo'[DeWorker(w)] = hilo[DeWorker(w)]
    BY <1>1, <1>2, <1>3, VaSolo DEF SoloHilo
  <2> QED
    BY <1>3, <2>1, ExitIgual
<1>4. CASE MasterReady
  <2>1. CASE ReadyEspera \/ ReadyCodEspera
    <3>1. colas' = colas /\ \E d, e : Va(Ready, d, e)
      BY <2>1 DEF ReadyEspera, ReadyCodEspera, PonCampo
    <3> QED
      BY <1>2, <1>3, <3>1, HilosTipo
  <2>2. ASSUME NEW cola \in {"new", "desalojo"}, NEW desde, ReadySaca(cola, desde) PROVE UltimaExit'
    <3>1. /\ \E s : colas' = [colas EXCEPT !["ready"] = s, ![cola] = Tail(@)]
          /\ hilo' = [hilo EXCEPT ![Ready].pc = "codEspera", ![Ready].actual = Head(colas[cola])]
      BY <2>2 DEF ReadySaca
    <3>2. colas'["exit"] = colas["exit"]
      BY <1>1, <3>1 DEF Colas
    <3>3. \A w \in Workers : hilo'[DeWorker(w)] = hilo[DeWorker(w)]
      BY <1>1, <1>2, <3>1 DEF HiloOK
    <3> QED
      BY <3>2, <3>3, ExitIgual
  <2>3. CASE ReadyPublica
    <3>1. colas' = colas /\ (hilo' = [hilo EXCEPT ![Ready] = Inicial(Ready)]
                              \/ hilo' = [[hilo EXCEPT ![Ready] = Inicial(Ready)]
                                            EXCEPT ![Aging(hilo[Ready].actual)].pc = "condicion"])
      BY <2>3 DEF ReadyPublica
    <3>2. \A w \in Workers : hilo'[DeWorker(w)] = hilo[DeWorker(w)]
      BY <1>1, <1>2, <3>1 DEF HiloOK
    <3> QED
      BY <3>1, <3>2, ExitIgual
  <2> QED
    BY <1>4, <2>1, <2>2, <2>3 DEF MasterReady, PasoReady
<1>5. ASSUME NEW q \in Queries, MasterQuery(q) PROVE UltimaExit'
  <2>1. hilo[DeQuery(q)].pc \in DeFifo.query
    BY FifoEtiquetas DEF EnDialogo, Dialogo
  <2>2. ConectaQuery(q) \/ DetectaDesconexion(q) \/ BuscaEnReady(q)
    BY <1>5, <2>1 DEF MasterQuery, PasoQuery, DeFifo, DesconectaEnExecute, RegistraDesconexion,
         DesconectaEnReady, SacaDeReady, PoneFinReady, ExitDeReady, EncolaExit, Mira, PonCampo, PonCola, Va
  <2>3. /\ colas' = colas \/ colas' = [colas EXCEPT !["new"] = Append(@, q)]
        /\ \E d, e : Va(DeQuery(q), d, e)
    BY <2>2 DEF ConectaQuery, DetectaDesconexion, BuscaEnReady, Mira
  <2>4. colas'["exit"] = colas["exit"]
    BY <1>1, <2>3 DEF Colas
  <2> QED
    BY <1>2, <1>3, <2>3, <2>4, HilosTipo
<1> QED
  BY <1>4, <1>5

\* Every step keeps the last of colaExit.
LEMMA UltimaPaso ==
  ASSUME UnWorker, Sano, [Next]_vars
  PROVE  UltimaExit'
<1>1. EnDialogo /\ UltimaExit /\ HiloOK
  BY DEF Sano, EnDialogo, Ubicadas, Tipos, MasterOK
<1>2. ASSUME UNCHANGED <<hilo, colas>> PROVE UltimaExit'
  BY <1>1, <1>2, ExitIgual
<1>3. CASE UNCHANGED vars
  BY <1>2, <1>3 DEF vars, varsMaster
<1>4. CASE MasterExit
  <2>1. CASE ExitCierra
    <3>1. Va(Exit, "cerrar", "esperar") /\ colas' = colas
      BY <2>1 DEF ExitCierra, PonCampo
    <3>2. SoloHilo(Exit)
      BY <1>1, <3>1, HilosTipo, VaSolo
    <3>3. \A w \in Workers : hilo'[DeWorker(w)] = hilo[DeWorker(w)]
      BY <3>2, HilosTipo, HilosNombres DEF SoloHilo
    <3> QED
      BY <1>1, <3>1, <3>3, ExitIgual
  <2> QED
    BY <1>4, <2>1, ExitLiberaUltima DEF MasterExit, PasoExit
<1>5. ASSUME NEW h \in Hilos, MasterDesalojo(h) PROVE UltimaExit'
  <2>1. PICK w \in Workers : h = DeWorker(w) /\ (Serializa(h) \/ Envia(h))
    BY <1>1, <1>5, SoloEnvian
  <2>2. ~Desaloja(h) /\ h \in Hilos
    BY <2>1, HilosNombres DEF Desaloja
  <2>3. CASE Serializa(h)
    <3>1. \E v : hilo' = [hilo EXCEPT ![h].pc = "enviar", ![h]["mensaje"] = v]
      BY <2>3 DEF Serializa, Anota
    <3> QED
      BY <1>1, <2>1, <2>2, <3>1 DEF UltimaExit, UnWorker, Etiqueta, HiloOK, Hilo
  <2>4. CASE Envia(h)
    <3>1. hilo' = [hilo EXCEPT ![h] = [@ EXCEPT !.pc = "recibir", !.mensaje = Ninguna,
                                                !.victima = Ninguna, !.destino = Ninguna]]
      BY <2>2, <2>4 DEF Envia
    <3> QED
      BY <1>1, <2>1, <2>2, <3>1 DEF UltimaExit, UnWorker, Etiqueta, HiloOK, Hilo
  <2> QED
    BY <2>1, <2>3, <2>4
<1>6. ASSUME NEW h \in Hilos, MasterFalla(h) PROVE UltimaExit'
  BY <1>2, <1>6 DEF MasterFalla, PasoFalla, FallaPunteroNulo, FallaUsoTrasLiberar, FallaDobleLiberacion,
              FallaSIGPIPE, Muere
<1>7. ASSUME NEW q \in Queries, QCTermina(q) \/ QCAbandona(q) PROVE UltimaExit'
  BY <1>2, <1>7 DEF QCTermina, QCAbandona, CierraQC, varsMaster
<1>8. ASSUME NEW w \in Workers, Worker(w) \/ WorkerCae(w) PROVE UltimaExit'
  BY <1>2, <1>8 DEF Worker, WorkerCae, varsMaster
<1> QED
  BY <1>1, <1>3, <1>4, <1>5, <1>6, <1>7, <1>8, AgingDialogo, OtrosUltima, WorkerUltima DEF Next

\* Before the first query arrives, and after every step.
LEMMA SanoSiempre ==
  ASSUME Fifo, QCEstables, WorkersEstables, UnWorker PROVE Spec => []Sano
<1>1. Init => Sano
  <2> SUFFICES ASSUME Init PROVE Sano
    OBVIOUS
  <2>1. Vivos
    BY DEF Init, InitCanales, Vivos, Muerto
  <2>2. \A w \in Workers : Etiqueta(w) = "conectar"
    BY HilosTipo, HilosNombres DEF Init, InitMaster, Etiqueta, Inicial
  <2> QED
    BY <2>1, <2>2, DialogoInit, ConteoInit DEF Sano, UltimaExit
<1>2. Sano /\ [Next]_vars => Sano'
  <2> SUFFICES ASSUME Sano, [Next]_vars PROVE Sano'
    OBVIOUS
  <2>1. EnDialogo' /\ Conteo'
    BY DialogoPaso, ConteoPaso DEF Sano
  <2>2. Vivos' /\ UltimaExit'
    BY VivosPaso, UltimaPaso DEF Sano
  <2> QED
    BY <2>1, <2>2 DEF Sano
<1> QED
  BY <1>1, <1>2, PTL DEF Spec

\* No thread takes from an empty queue.
LEMMA NadieSaca ==
  ASSUME Sano, NEW h \in Hilos
  PROVE  ~PunteroNulo(h) /\ ~DobleLiberacion(h)
<1>1. EnDialogo /\ hilo[h].pc \in DeFifo[h[1]] /\ h[1] \in {"ready", "exit", "aging", "query", "worker"}
  BY HilosNombres DEF Sano, EnDialogo, Dialogo, EnFifo
<1>2. hilo[h].pc \notin {"tomar", "buscar"}
      /\ (hilo[h].pc \in {"sacaNew", "sacaDesalojo"} => h = Ready)
  BY <1>1, HilosNombres DEF DeFifo
<1>3. sem["ready"] \in Nat /\ sem["exit"] \in Nat /\ colas \in [Colas -> Seq(Queries)]
      /\ CuantosExit \in Nat
  BY ConteoTipos DEF Sano, Conteo, Tipos, MasterOK, SemOK, ColasOK
<1>4. sem["ready"] > 0 => colas["ready"] # <<>>
  <2>1. Len(colas["ready"]) >= sem["ready"]
    BY <1>1, <1>3 DEF EnDialogo, Ubicadas, Fichas, Uno
  <2> QED
    BY <1>3, <2>1, EmptySeq
<1>5. sem["exit"] > 0 => colas["exit"] # <<>>
  <2>1. Len(colas["exit"]) = sem["exit"] + CuantosExit
    BY DEF Sano, Conteo, Cuenta, LargoExit, SemExit
  <2> QED
    BY <1>3, <2>1, EmptySeq
<1>6. Elegida
  BY DEF Sano, Conteo
<1>7. ~PunteroNulo(h)
  BY <1>2, <1>4, <1>5, <1>6 DEF PunteroNulo, Elegida
<1>8. colas["exit"] # <<>> => qm[Head(colas["exit"])].liberada = "no"
  <2>1. SUFFICES ASSUME colas["exit"] # <<>> PROVE qm[Head(colas["exit"])].liberada = "no"
    OBVIOUS
  <2>2. Head(colas["exit"]) \in ToSet(colas["exit"]) /\ Head(colas["exit"]) \in Queries
    BY <1>3, <2>1, TailElementos, CabezaTipo DEF Colas
  <2>3. EnCola("exit") \in Lugares /\ Contenido(EnCola("exit")) = ToSet(colas["exit"])
    BY LugarForma, LugarContenido DEF Colas
  <2> QED
    BY <1>1, <2>2, <2>3 DEF EnDialogo, Ubicadas, UnLugar
<1> QED
  BY <1>7, <1>8 DEF DobleLiberacion

\* No thread writes to a socket that is gone.
LEMMA NadieEscribeEnVano ==
  ASSUME Sano, NEW h \in Hilos
  PROVE  ~SocketRoto(h)
<1>1. EnDialogo /\ hilo[h].pc \in DeFifo[h[1]] /\ h[1] \in {"ready", "exit", "aging", "query", "worker"}
  BY HilosNombres DEF Sano, EnDialogo, Dialogo, EnFifo
<1>2. SUFFICES ASSUME SocketRoto(h) PROVE FALSE
  OBVIOUS
<1>3. hilo[h].pc \in {"enviar", "avisar", "responder"}
  BY <1>2 DEF SocketRoto
<1>4. h[1] = "worker" /\ h[2] \in Workers /\ h = DeWorker(h[2])
  BY <1>1, <1>3, HilosNombres DEF DeFifo
<1>5. CASE hilo[h].pc = "enviar"
  <2>1. WorkerDestino(h) = h[2]
    BY <1>4 DEF WorkerDestino, Desaloja
  <2>2. socketWorker[h[2]] = "abierto"
    BY <1>4 DEF Sano, Vivos, Muerto
  <2> QED
    BY <1>2, <1>5, <2>1, <2>2 DEF SocketRoto
<1>6. CASE hilo[h].pc \in {"avisar", "responder"}
  <2>1. Etiqueta(h[2]) \in Corriendo /\ Etiqueta(h[2]) \in ConExecute /\ hilo[h].actual = Suya(h[2])
    BY <1>4, <1>6 DEF Etiqueta, Suya, Corriendo, ConExecute
  <2>2. Suya(h[2]) \in Queries /\ ~Avisada(Suya(h[2]))
    BY <1>1, <1>4, <2>1, SuyaTipo DEF EnDialogo, Ubicadas, Avisos
  <2>3. socketQC[Suya(h[2])] = "abierto"
    BY <1>1, <2>2 DEF EnDialogo, Ubicadas, Avisos
  <2> QED
    BY <1>2, <1>6, <2>1, <2>3 DEF SocketRoto
<1> QED
  BY <1>3, <1>5, <1>6

\* With one Worker that does not crash and Query Controls that stay, under
\* FIFO no thread pops an empty queue, uses or frees twice a freed query or
\* writes to a closed socket, however many queries arrive (85-242, 143-150).
THEOREM NadaFallaSiempre ==
  ASSUME Fifo, QCEstables, WorkersEstables, UnWorker PROVE Spec => []NadaFalla
<1>1. Sano => NadaFalla
  <2> SUFFICES ASSUME Sano, NEW h \in Hilos PROVE ~UsoTrasLiberar(h)
    BY NadieSaca, NadieEscribeEnVano DEF NadaFalla
  <2>1. CASE hilo[h].pc # "codFin"
    BY <2>1, NoLiberada DEF Sano
  <2>2. CASE hilo[h].pc = "codFin"
    <3>1. EnDialogo /\ hilo[h].pc \in DeFifo[h[1]]
      BY DEF Sano, EnDialogo, Dialogo, EnFifo
    <3>2. h[1] = "worker" /\ h[2] \in Workers /\ h = DeWorker(h[2])
      BY <2>2, <3>1, HilosNombres DEF DeFifo
    <3>3. Ultima(colas["exit"], hilo[h].actual)
      BY <2>2, <3>2 DEF Sano, UltimaExit, Etiqueta, Suya
    <3>4. colas["exit"] \in Seq(Queries)
      BY <3>1 DEF EnDialogo, Ubicadas, Tipos, MasterOK, ColasOK, Colas
    <3>5. Len(colas["exit"]) \in DOMAIN colas["exit"]
      BY <3>3, <3>4, EmptySeq, LenProperties DEF Ultima
    <3>6. hilo[h].actual \in ToSet(colas["exit"]) /\ hilo[h].actual \in Queries
      BY <3>3, <3>4, <3>5 DEF Ultima, ToSet
    <3>7. EnCola("exit") \in Lugares /\ Contenido(EnCola("exit")) = ToSet(colas["exit"])
      BY LugarForma, LugarContenido DEF Colas
    <3>8. qm[hilo[h].actual].liberada = "no"
      BY <3>1, <3>6, <3>7 DEF EnDialogo, Ubicadas, UnLugar
    <3>9. ~Desaloja(h) /\ Toca(h) \subseteq {hilo[h].actual}
      BY <2>2, <3>2 DEF Desaloja, Toca, SinQuery
    <3> QED
      BY <3>8, <3>9 DEF UsoTrasLiberar
  <2> QED
    BY <2>1, <2>2
<1> QED
  BY <1>1, SanoSiempre, PTL

=============================================================================
