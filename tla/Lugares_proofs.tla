---------------------------- MODULE Lugares_proofs ----------------------------
(***************************************************************************)
(* With Query Controls that stay, each accepted query is in exactly one    *)
(* queue or hand until exitStatus frees it, a Worker thread finds a query  *)
(* for each post of semQueryReady, and the Master implements CicloDeVida:  *)
(* for any queries, Workers, crashes, evictions and aging threads.  Under  *)
(* PRIORIDADES listaReady is kept in order, whoever stays.                 *)
(***************************************************************************)
EXTENDS Sistema_proofs

\* A Query Control that leaves before its query ends makes line 77 take it
\* out of listaReady behind the back of the semaphore.
QCEstables == QCInestables = {}

-----------------------------------------------------------------------------
(* The places of a query.                                                  *)

\* The labels at which a Worker thread has its query out of every queue, and
\* those at which it has it in listaExecute.
Mano == {"agregar", "mirarQC", "reencolar", "agregarExit"}
ConExecute == {
  "codEjecucion", "asignar", "serializar", "enviar", "recibir", "responder",
  "desalojar", "finalizar", "avisar", "sacarExecute" }

\* Labels of the disconnection of a query that waits, which needs a Query
\* Control that leaves.
DeAbandono == {
  "codQCFin", "codDesconectada", "desconectarReady", "sacarReady", "codFinReady", "exitReady" }

\* A place is a queue or the hand of a Worker thread.
EnCola(c) == <<"cola", c>>
EnLaMano(w) == <<"mano", w>>
Lugares == ({"cola"} \X Colas) \cup ({"mano"} \X Workers)
Etiqueta(w) == hilo[DeWorker(w)].pc
Contenido(l) ==
  IF l[1] = "cola" THEN ToSet(colas[l[2]])
  ELSE IF Etiqueta(l[2]) \in Mano THEN {Suya(l[2])} ELSE {}

Conectada(q) == hilo[DeQuery(q)].pc # "conectar"
Avisada(q) == avisos[q] > 0

\* Each accepted query, until it is freed, is in one place and no more.
UnLugar ==
  /\ \A c \in Colas : IsInjective(colas[c])
  /\ \A k, l \in Lugares : k # l => Contenido(k) \cap Contenido(l) = {}
  /\ \A q \in Queries :
       (\E l \in Lugares : q \in Contenido(l)) <=> Conectada(q) /\ qm[q].liberada = "no"

\* A Worker thread that runs a query finds it in listaExecute, and no other has it.
Ejecutores ==
  /\ \A w \in Workers : Etiqueta(w) \in ConExecute => Suya(w) \in ToSet(colas["execute"])
  /\ \A u, w \in Workers :
       u # w /\ Etiqueta(u) \in ConExecute /\ Etiqueta(w) \in ConExecute => Suya(u) # Suya(w)

\* The Query Control is told of the end between the last packet and the exit
\* queue, and leaves only then.
Avisos ==
  /\ \A c \in {"new", "desalojo", "ready"} : \A q \in ToSet(colas[c]) : ~Avisada(q)
  /\ \A q \in ToSet(colas["exit"]) : Avisada(q)
  /\ \A w \in Workers : Etiqueta(w) \in Corriendo => ~Avisada(Suya(w))
  /\ \A w \in Workers : Etiqueta(w) \in {"sacarExecute", "agregarExit"} => Avisada(Suya(w))
  /\ \A q \in Queries :
       /\ \/ qm[q].liberada # "no" \/ qm[q].desconectado \/ socketQC[q] # "abierto"
          \/ hilo[DeQuery(q)].pc \notin {"conectar", "escuchar"}
          => Avisada(q)
       /\ Avisada(q) => Conectada(q)

\* Who is at which label.
EtiquetasWorker == Mano \cup ConExecute \cup {
  "fin", "conectar", "esperar", "codReencolada", "liberarId", "codFin"}
Papeles ==
  /\ \A w \in Workers : Etiqueta(w) \in EtiquetasWorker
  /\ \A h \in Hilos : hilo[h].pc \notin DeAbandono
  /\ \A h \in Hilos : h[1] # "worker" => hilo[h].pc \notin Mano
  /\ hilo[Exit].pc = "cerrar" => qm[hilo[Exit].actual].liberada # "no"

\* listaReady has one query for each post of semQueryReady, and one more while
\* thread ready is between the insertion and the post.
ReadyTrae == hilo[Ready].pc \notin {"esperar", "sacaNew", "sacaDesalojo"}
Fichas == Len(colas["ready"]) = sem["ready"] + Uno(ReadyTrae)

Ubicadas == Tipos /\ UnLugar /\ Ejecutores /\ Avisos /\ Papeles /\ Fichas

-----------------------------------------------------------------------------
(* The lists.                                                              *)

\* agregarQueryMasterLista adds the query, once.
LEMMA InsercionesConjunto ==
  ASSUME NEW lista \in Seq(Queries), NEW q \in Queries, NEW s \in Inserciones(lista, q)
  PROVE  /\ s \in Seq(Queries) /\ Len(s) = Len(lista) + 1
         /\ ToSet(s) = ToSet(lista) \cup {q}
         /\ IsInjective(lista) /\ q \notin ToSet(lista) => IsInjective(s)
<1>1. CASE Algoritmo = "FIFO"
  <2>1. s = Append(lista, q)
    BY <1>1 DEF Inserciones
  <2> QED
    BY <2>1, InsercionesTipo, AppendConjunto
<1>2. CASE Algoritmo # "FIFO"
  <2>1. PICK i \in 1 .. Len(lista) + 1 : s = InsertAt(lista, i, q)
    BY <1>2 DEF Inserciones
  <2> QED
    BY <2>1, InsercionesTipo, InsertAtConjunto
<1> QED
  BY <1>1, <1>2

\* ordenarListaQuerysMaster keeps the queries.
LEMMA OrdenacionesConjunto ==
  ASSUME NEW lista \in Seq(Queries), NEW s \in Ordenaciones(lista)
  PROVE  /\ Len(s) = Len(lista) /\ ToSet(s) = ToSet(lista)
         /\ IsInjective(lista) => IsInjective(s)
<1>1. PICK f \in Bijection(DOMAIN lista, DOMAIN lista) : s = [i \in DOMAIN lista |-> lista[f[i]]]
  BY DEF Ordenaciones
<1> QED
  BY <1>1, OrdenacionesTipo, PermutaConjunto

-----------------------------------------------------------------------------
(* The places.                                                             *)

\* A place is a queue or a hand, and not both.
LEMMA LugarForma ==
  /\ \A c \in Colas : EnCola(c) \in Lugares
  /\ \A w \in Workers : EnLaMano(w) \in Lugares
  /\ \A l \in Lugares :
       (\E c \in Colas : l = EnCola(c)) \/ (\E w \in Workers : l = EnLaMano(w))
  /\ \A c, w : EnCola(c) # EnLaMano(w)
  /\ \A c, d : EnCola(c) = EnCola(d) => c = d
  /\ \A v, w : EnLaMano(v) = EnLaMano(w) => v = w
BY DEF EnCola, EnLaMano, Lugares

\* What is in it, before a step and after.
LEMMA LugarContenido ==
  /\ \A c : Contenido(EnCola(c)) = ToSet(colas[c])
  /\ \A w : Contenido(EnLaMano(w)) = IF Etiqueta(w) \in Mano THEN {Suya(w)} ELSE {}
  /\ \A c : Contenido(EnCola(c))' = ToSet(colas'[c])
  /\ \A w : Contenido(EnLaMano(w))' = IF Etiqueta(w)' \in Mano THEN {Suya(w)'} ELSE {}
BY DEF EnCola, EnLaMano, Contenido

Separados == \A k, l \in Lugares : k # l => Contenido(k) \cap Contenido(l) = {}
EnAlguno(q) == \E l \in Lugares : q \in Contenido(l)

\* A query goes from a place to another.
LEMMA Muda ==
  ASSUME Separados, NEW q, NEW de \in Lugares, NEW a \in Lugares, de # a, q \in Contenido(de),
         Contenido(de)' = Contenido(de) \ {q}, Contenido(a)' = Contenido(a) \cup {q},
         \A l \in Lugares \ {de, a} : Contenido(l)' = Contenido(l)
  PROVE  Separados' /\ \A p : EnAlguno(p)' <=> EnAlguno(p)
<1>1. \A l \in Lugares : Contenido(l)' = IF l = de THEN Contenido(l) \ {q}
                                         ELSE IF l = a THEN Contenido(l) \cup {q} ELSE Contenido(l)
  OBVIOUS
<1>2. \A l \in Lugares : l # de => q \notin Contenido(l)
  BY DEF Separados
<1>3. Separados'
  <2> SUFFICES ASSUME NEW k \in Lugares, NEW l \in Lugares, k # l
               PROVE  Contenido(k)' \cap Contenido(l)' = {}
    BY DEF Separados
  <2>1. Contenido(k) \cap Contenido(l) = {}
    BY DEF Separados
  <2> QED
    BY <1>1, <1>2, <2>1
<1>4. ASSUME NEW p PROVE EnAlguno(p)' <=> EnAlguno(p)
  <2>1. ASSUME p = q PROVE EnAlguno(p)' /\ EnAlguno(p)
    BY <1>1, <2>1 DEF EnAlguno
  <2>2. ASSUME p # q PROVE \A l \in Lugares : p \in Contenido(l)' <=> p \in Contenido(l)
    BY <1>1, <2>2
  <2> QED
    BY <2>1, <2>2 DEF EnAlguno
<1> QED
  BY <1>3, <1>4

-----------------------------------------------------------------------------
(* What a step of one thread leaves alone.                                 *)

\* The variables of CicloDeVida, as Sistema maps them.
EnEspera == ToSet(colas["new"]) \cup ToSet(colas["desalojo"]) \cup ToSet(colas["ready"])
Asignada == [w \in Workers |-> IF hilo[DeWorker(w)].pc \in Corriendo THEN Suya(w) ELSE Ninguna]
Finalizadas == {q \in Queries : avisos[q] > 0}
CicloQuieto == UNCHANGED <<EnEspera, Asignada, Finalizadas>>

\* What a Query Control that is gone, or a query that ended, leaves behind.
SeFue(q) ==
  \/ qm[q].liberada # "no" \/ qm[q].desconectado \/ socketQC[q] # "abierto"
  \/ hilo[DeQuery(q)].pc \notin {"conectar", "escuchar"}

\* A step that says nothing new of the end of q.
MismaQuery(q) ==
  /\ qm'[q].liberada = "no" <=> qm[q].liberada = "no"
  /\ Conectada(q)' <=> Conectada(q)
  /\ SeFue(q)' => Avisada(q)

\* A step in which w keeps the query it has and its part in it.
MismoPapel(w) ==
  /\ Etiqueta(w)' \in Mano <=> Etiqueta(w) \in Mano
  /\ Etiqueta(w)' \in ConExecute <=> Etiqueta(w) \in ConExecute
  /\ Etiqueta(w)' \in Corriendo <=> Etiqueta(w) \in Corriendo
  /\ Etiqueta(w)' \in {"sacarExecute", "agregarExit"} <=> Etiqueta(w) \in {"sacarExecute", "agregarExit"}
  /\ Etiqueta(w) \in Mano \cup ConExecute => Suya(w)' = Suya(w)

\* When nobody changes place, every query stays where it was.
LEMMA Neutro ==
  ASSUME UnLugar, Ejecutores, Avisos, avisos' = avisos,
         \A c \in Colas : ToSet(colas'[c]) = ToSet(colas[c]) /\ IsInjective(colas'[c]),
         \A w \in Workers : MismoPapel(w), \A q \in Queries : MismaQuery(q)
  PROVE  (UnLugar /\ Ejecutores /\ Avisos)' /\ CicloQuieto
<1>1. \A l \in Lugares : Contenido(l)' = Contenido(l)
  <2> SUFFICES ASSUME NEW l \in Lugares PROVE Contenido(l)' = Contenido(l)
    OBVIOUS
  <2>1. CASE \E c \in Colas : l = EnCola(c)
    BY <2>1, LugarContenido
  <2>2. CASE \E w \in Workers : l = EnLaMano(w)
    <3>1. PICK w \in Workers : l = EnLaMano(w)
      BY <2>2
    <3>2. MismoPapel(w)
      OBVIOUS
    <3> QED
      BY <3>1, <3>2, LugarContenido DEF MismoPapel
  <2> QED
    BY <2>1, <2>2, LugarForma
<1>2. UnLugar'
  <2>1. \A q \in Queries : (\E l \in Lugares : q \in Contenido(l)') <=> Conectada(q)' /\ qm'[q].liberada = "no"
    BY <1>1 DEF UnLugar, MismaQuery
  <2>2. \A k, l \in Lugares : k # l => Contenido(k)' \cap Contenido(l)' = {}
    BY <1>1 DEF UnLugar
  <2> QED
    BY <2>1, <2>2 DEF UnLugar
<1>3. Ejecutores'
  BY DEF Ejecutores, MismoPapel, Colas
<1>4. Avisos'
  <2>1. \A q \in Queries : Avisada(q)' <=> Avisada(q)
    BY DEF Avisada
  <2>2. /\ \A c \in {"new", "desalojo", "ready"} : \A q \in ToSet(colas'[c]) : ~(avisos'[q] > 0)
        /\ \A q \in ToSet(colas'["exit"]) : avisos'[q] > 0
    BY DEF Avisos, Avisada, Colas
  <2>3. /\ \A w \in Workers : Etiqueta(w)' \in Corriendo => ~(avisos'[Suya(w)'] > 0)
        /\ \A w \in Workers :
             Etiqueta(w)' \in {"sacarExecute", "agregarExit"} => avisos'[Suya(w)'] > 0
    <3>1. Corriendo \subseteq Mano \cup ConExecute /\ {"sacarExecute", "agregarExit"} \subseteq Mano \cup ConExecute
      BY DEF Corriendo, Mano, ConExecute
    <3> QED
      BY <3>1 DEF Avisos, Avisada, MismoPapel
  <2>4. \A q \in Queries : (SeFue(q)' => Avisada(q)') /\ (Avisada(q)' => Conectada(q)')
    BY <2>1 DEF Avisos, MismaQuery
  <2> QED
    BY <2>2, <2>3, <2>4 DEF Avisos, Avisada, SeFue
<1>5. CicloQuieto
  <2>1. EnEspera' = EnEspera /\ Finalizadas' = Finalizadas
    BY DEF EnEspera, Finalizadas, Colas
  <2>2. Asignada' = Asignada
    <3>1. Corriendo \subseteq Mano \cup ConExecute
      BY DEF Corriendo, Mano, ConExecute
    <3>2. \A w \in Workers :
            (IF hilo'[DeWorker(w)].pc \in Corriendo THEN Suya(w)' ELSE Ninguna)
            = (IF hilo[DeWorker(w)].pc \in Corriendo THEN Suya(w) ELSE Ninguna)
      BY <3>1 DEF MismoPapel, Etiqueta
    <3> QED
      BY <3>2 DEF Asignada
  <2> QED
    BY <2>1, <2>2 DEF CicloQuieto
<1> QED
  BY <1>2, <1>3, <1>4, <1>5

\* Only thread h moves.
SoloHilo(h) == \A g \in Hilos \ {h} : hilo'[g] = hilo[g]

\* A move of h between labels that takes no query anywhere.
Tramo(h, d, e) ==
  /\ e \notin DeAbandono
  /\ \/ d \notin Mano /\ e \notin Mano
     \/ h[1] = "worker" /\ d = "mirarQC" /\ e = "reencolar"
  /\ h[1] = "worker" =>
       /\ e \in EtiquetasWorker
       /\ d \in ConExecute <=> e \in ConExecute
       /\ d = "sacarExecute" <=> e = "sacarExecute"
  /\ h[1] = "query" =>
       d # "conectar" /\ e # "conectar" /\ (e = "escuchar" \/ Avisada(h[2]))
  /\ h = Ready => (d \in {"esperar", "sacaNew", "sacaDesalojo"} <=> e \in {"esperar", "sacaNew", "sacaDesalojo"})
  /\ h = Exit => e # "cerrar"

Inocuo(h) ==
  /\ Tramo(h, hilo[h].pc, hilo'[h].pc)
  /\ h[1] = "worker" /\ hilo[h].pc \in ConExecute \cup Mano => hilo'[h].actual = hilo[h].actual

\* What the step of a Worker, or of another thread, leaves of the rest.
Mismas ==
  /\ avisos' = avisos
  /\ \A q \in Queries :
       /\ qm'[q].liberada = qm[q].liberada
       /\ qm'[q].desconectado => qm[q].desconectado \/ Avisada(q)
       /\ socketQC'[q] # "abierto" => socketQC[q] # "abierto" \/ Avisada(q)

Hecho == (UnLugar /\ Ejecutores /\ Avisos /\ Papeles /\ Fichas)'

\* The names of the threads.
LEMMA HilosNombres ==
  /\ Ready[1] = "ready" /\ Exit[1] = "exit"
  /\ \A q : Aging(q)[1] = "aging" /\ Aging(q)[2] = q /\ DeQuery(q)[1] = "query" /\ DeQuery(q)[2] = q
  /\ \A w : DeWorker(w)[1] = "worker" /\ DeWorker(w)[2] = w
  /\ \A h \in Hilos :
       /\ h[1] = "ready" => h = Ready
       /\ h[1] = "exit" => h = Exit
       /\ h[1] = "aging" => h[2] \in Queries /\ h = Aging(h[2])
       /\ h[1] = "query" => h[2] \in Queries /\ h = DeQuery(h[2])
       /\ h[1] = "worker" => h[2] \in Workers /\ h = DeWorker(h[2])
       /\ h[1] \in {"ready", "exit", "aging", "query", "worker"}
BY DEF Ready, Exit, Aging, DeQuery, DeWorker, Hilos

\* One thread moves and nobody takes its place.
LEMMA PapelesHilo ==
  ASSUME HiloOK, Papeles, NEW h \in Hilos, SoloHilo(h), hilo'[h].pc \notin DeAbandono,
         IF h[1] = "worker" THEN hilo'[h].pc \in EtiquetasWorker ELSE hilo'[h].pc \notin Mano,
         h = Exit => hilo'[h].pc # "cerrar",
         \A q \in Queries : qm'[q].liberada = "no" => qm[q].liberada = "no"
  PROVE  Papeles'
<1>1. \A g \in Hilos : g # h => hilo'[g] = hilo[g]
  BY DEF SoloHilo
<1>2. hilo'[Exit].pc = "cerrar" => qm'[hilo'[Exit].actual].liberada # "no"
  <2>1. CASE h = Exit
    BY <2>1
  <2>2. CASE h # Exit
    <3>1. hilo'[Exit] = hilo[Exit]
      BY <1>1, <2>2, HilosTipo
    <3>2. hilo[Exit].pc = "cerrar" => hilo[Exit].actual \in Queries
      BY HilosTipo DEF HiloOK, HiloBien, SinActual
    <3> QED
      BY <3>1, <3>2 DEF Papeles
  <2> QED
    BY <2>1, <2>2
<1>3. \A w \in Workers : Etiqueta(w)' \in EtiquetasWorker
  <2> SUFFICES ASSUME NEW w \in Workers PROVE hilo'[DeWorker(w)].pc \in EtiquetasWorker
    BY DEF Etiqueta
  <2>1. DeWorker(w) \in Hilos /\ DeWorker(w)[1] = "worker"
    BY HilosTipo, HilosNombres
  <2> QED
    BY <1>1, <2>1 DEF Papeles, Etiqueta
<1> QED
  BY <1>1, <1>2, <1>3 DEF Papeles

\* listaReady and its semaphore, when thread ready does not pass from one part to the other.
LEMMA FichasIgual ==
  ASSUME Fichas, Len(colas'["ready"]) = Len(colas["ready"]), sem'["ready"] = sem["ready"],
         ReadyTrae' <=> ReadyTrae
  PROVE  Fichas'
BY DEF Fichas, Uno

\* A harmless move of one thread.
LEMMA NeutroHilo ==
  ASSUME Ubicadas, NEW h \in Hilos, SoloHilo(h), Inocuo(h), Mismas,
         colas' = colas, sem'["ready"] = sem["ready"]
  PROVE  Hecho /\ CicloQuieto
<1> USE HilosTipo
<1>1. \A g \in Hilos : g # h => hilo'[g] = hilo[g]
  BY DEF SoloHilo
<1>2. \A w \in Workers : MismoPapel(w)
  <2> SUFFICES ASSUME NEW w \in Workers PROVE MismoPapel(w)
    OBVIOUS
  <2>1. CASE h = DeWorker(w)
    <3>1. Corriendo = (ConExecute \ {"sacarExecute"}) \cup {"agregar", "mirarQC", "reencolar"}
      BY DEF Corriendo, ConExecute
    <3>2. Mano \cap (ConExecute \cup {"sacarExecute"}) = {}
      BY DEF ConExecute, Mano
    <3>3. h[1] = "worker"
      BY <2>1, HilosNombres
    <3> QED
      BY <2>1, <3>1, <3>2, <3>3 DEF MismoPapel, Inocuo, Tramo, Etiqueta, Suya, Mano
  <2>2. CASE h # DeWorker(w)
    <3>1. hilo'[DeWorker(w)] = hilo[DeWorker(w)]
      BY <1>1, <2>2
    <3> QED
      BY <3>1 DEF MismoPapel, Etiqueta, Suya
  <2> QED
    BY <2>1, <2>2
<1>3. \A q \in Queries : MismaQuery(q)
  <2> SUFFICES ASSUME NEW q \in Queries PROVE MismaQuery(q)
    OBVIOUS
  <2>1. SeFue(q) => Avisada(q)
    BY DEF Ubicadas, Avisos, SeFue
  <2>2. CASE h = DeQuery(q)
    <3>1. h[1] = "query" /\ h[2] = q
      BY <2>2, HilosNombres
    <3> QED
      BY <2>1, <2>2, <3>1 DEF MismaQuery, Inocuo, Tramo, Mismas, SeFue, Conectada
  <2>3. CASE h # DeQuery(q)
    BY <1>1, <2>1, <2>3 DEF MismaQuery, Mismas, SeFue, Conectada
  <2> QED
    BY <2>2, <2>3
<1>4. \A c \in Colas : ToSet(colas'[c]) = ToSet(colas[c]) /\ IsInjective(colas'[c])
  BY DEF Ubicadas, UnLugar
<1>5. (UnLugar /\ Ejecutores /\ Avisos)' /\ CicloQuieto
  BY <1>2, <1>3, <1>4, Neutro DEF Ubicadas, Mismas
<1>6. Papeles'
  <2>1. h[1] # "worker" => hilo'[h].pc \notin Mano
    BY DEF Inocuo, Tramo
  <2>2. h[1] = "worker" => hilo'[h].pc \in EtiquetasWorker
    BY DEF Inocuo, Tramo
  <2>3. hilo'[h].pc \notin DeAbandono /\ (h = Exit => hilo'[h].pc # "cerrar")
    BY DEF Inocuo, Tramo
  <2>4. \A q \in Queries : qm'[q].liberada = "no" => qm[q].liberada = "no"
    BY DEF Mismas
  <2> QED
    BY <2>1, <2>2, <2>3, <2>4, PapelesHilo DEF Ubicadas, Tipos, MasterOK
<1>7. Fichas'
  <2>1. ReadyTrae' <=> ReadyTrae
    BY <1>1 DEF ReadyTrae, Inocuo, Tramo
  <2> QED
    BY <2>1, FichasIgual DEF Ubicadas
<1> QED
  BY <1>5, <1>6, <1>7 DEF Hecho

\* Va moves one thread and leaves it its query, unless it goes back to wait.
LEMMA VaSolo ==
  ASSUME HiloOK, NEW h \in Hilos, NEW d, NEW e, Va(h, d, e)
  PROVE  /\ SoloHilo(h) /\ hilo[h].pc = d /\ hilo'[h].pc = e
         /\ e # "esperar" => hilo'[h].actual = hilo[h].actual
BY DEF Va, HiloOK, Hilo, SoloHilo

\* The shapes of a step, when they are harmless: Va ...
LEMMA NeutroVa ==
  ASSUME Ubicadas, NEW h \in Hilos, NEW d, NEW e, Va(h, d, e), Tramo(h, d, e), Mismas,
         colas' = colas, sem'["ready"] = sem["ready"]
  PROVE  Hecho /\ CicloQuieto
<1>1. /\ SoloHilo(h) /\ hilo[h].pc = d /\ hilo'[h].pc = e
      /\ e # "esperar" => hilo'[h].actual = hilo[h].actual
  BY VaSolo DEF Ubicadas, Tipos, MasterOK
<1>2. Inocuo(h)
  BY <1>1 DEF Inocuo, Tramo, ConExecute, Mano
<1> QED
  BY <1>1, <1>2, NeutroHilo

\* ... Mira ...
LEMMA NeutroMira ==
  ASSUME Ubicadas, NEW h \in Hilos, NEW d, NEW c, NEW si, NEW no, Mira(h, d, c, si, no),
         Tramo(h, d, si), Tramo(h, d, no)
  PROVE  Hecho /\ CicloQuieto
<1>1. Va(h, d, IF c THEN si ELSE no) /\ UNCHANGED <<colas, sem, varsWorkers, qm, varsCanales>>
  BY DEF Mira
<1>2. Mismas
  BY <1>1 DEF Mismas, varsCanales
<1>3. Tramo(h, d, IF c THEN si ELSE no)
  OBVIOUS
<1> QED
  BY <1>1, <1>2, <1>3, NeutroVa

\* ... Anota ...
LEMMA NeutroAnota ==
  ASSUME Ubicadas, NEW h \in Hilos, NEW d, NEW e, NEW campo, NEW valor,
         Anota(h, d, e, campo, valor), campo \notin {"pc", "actual"}, Tramo(h, d, e)
  PROVE  Hecho /\ CicloQuieto
<1>1. /\ hilo[h].pc = d /\ UNCHANGED <<colas, sem, varsWorkers, qm, varsCanales>>
      /\ hilo' = [hilo EXCEPT ![h] = [[hilo[h] EXCEPT !.pc = e] EXCEPT ![campo] = valor]]
  BY DEF Anota, Ubicadas, Tipos, MasterOK, HiloOK
<1>2. SoloHilo(h) /\ hilo'[h].pc = e /\ hilo'[h].actual = hilo[h].actual
  BY <1>1 DEF SoloHilo, Ubicadas, Tipos, MasterOK, HiloOK, Hilo
<1>3. Mismas
  BY <1>1 DEF Mismas, varsCanales
<1>4. Inocuo(h)
  BY <1>1, <1>2 DEF Inocuo
<1> QED
  BY <1>1, <1>2, <1>3, <1>4, NeutroHilo

\* ... and PonCampo of a field that does not say that the query ended.
LEMMA NeutroPonCampo ==
  ASSUME Ubicadas, NEW h \in Hilos, NEW d, NEW e, NEW q, NEW campo, NEW valor,
         PonCampo(h, d, e, q, campo, valor), Tramo(h, d, e),
         campo \notin {"liberada", "desconectado"}
  PROVE  Hecho /\ CicloQuieto
<1>1. /\ Va(h, d, e) /\ qm' = [qm EXCEPT ![q][campo] = valor]
      /\ UNCHANGED <<colas, sem, varsWorkers, varsCanales>>
  BY DEF PonCampo
<1>2. \A p \in Queries : qm'[p].liberada = qm[p].liberada /\ qm'[p].desconectado = qm[p].desconectado
  BY <1>1 DEF Ubicadas, Tipos, MasterOK, QmOK, Registro
<1>3. Mismas
  BY <1>1, <1>2 DEF Mismas, varsCanales
<1> QED
  BY <1>1, <1>3, NeutroVa

-----------------------------------------------------------------------------
(* Steps that take a query from one place to another.                      *)

\* Thread h, of a Worker or ready, takes query q from one place to another.
Traslado(h, q, de, a) ==
  /\ SoloHilo(h) /\ hilo'[h].actual = q
  /\ de # a /\ q \in Contenido(de)
  /\ Contenido(de)' = Contenido(de) \ {q} /\ Contenido(a)' = Contenido(a) \cup {q}
  /\ \A l \in Lugares \ {de, a} : Contenido(l)' = Contenido(l)
  /\ \A c \in Colas : IsInjective(colas'[c])
  /\ avisos' = avisos /\ qm' = qm /\ socketQC' = socketQC

\* What the labels of h have to do with the places and with the end of q.
Acorde(h, q, de, a) ==
  LET d == hilo[h].pc  e == hilo'[h].pc IN
  /\ e \notin DeAbandono /\ (h[1] = "worker" => e \in EtiquetasWorker)
  /\ h[1] # "worker" => e \notin Mano
  /\ a \in {EnCola("new"), EnCola("desalojo"), EnCola("ready")} => ~Avisada(q)
  /\ a = EnCola("exit") => Avisada(q)
  /\ h[1] = "worker" /\ e \in Corriendo => ~Avisada(q)
  /\ h[1] = "worker" /\ e \in {"sacarExecute", "agregarExit"} => Avisada(q)
  /\ h[1] = "worker" /\ e \in ConExecute => a = EnCola("execute")
  /\ de = EnCola("execute") =>
       h[1] = "worker" /\ d \in ConExecute /\ hilo[h].actual = q /\ e \notin ConExecute

\* It is in one place after the step too.
LEMMA TrasladoUnLugar ==
  ASSUME Ubicadas, NEW h \in Hilos, h[1] \in {"ready", "worker"}, NEW q \in Queries,
         NEW de \in Lugares, NEW a \in Lugares, Traslado(h, q, de, a)
  PROVE  UnLugar'
<1>1. Separados' /\ \A p : EnAlguno(p)' <=> EnAlguno(p)
  BY Muda DEF Traslado, Ubicadas, UnLugar, Separados
<1>2. \A p \in Queries : Conectada(p)' <=> Conectada(p)
  BY HilosTipo, HilosNombres DEF Traslado, SoloHilo, Conectada
<1>3. \A p \in Queries : EnAlguno(p)' <=> Conectada(p)' /\ qm'[p].liberada = "no"
  BY <1>1, <1>2 DEF Traslado, Ubicadas, UnLugar, EnAlguno
<1> QED
  BY <1>1, <1>3 DEF UnLugar, Separados, EnAlguno, Traslado

\* Only thread h changes the query it has.
LEMMA OtrosWorkers ==
  ASSUME NEW h \in Hilos, SoloHilo(h), NEW w \in Workers, h # DeWorker(w)
  PROVE  Etiqueta(w)' = Etiqueta(w) /\ Suya(w)' = Suya(w)
<1>1. hilo'[DeWorker(w)] = hilo[DeWorker(w)]
  BY HilosTipo DEF SoloHilo
<1> QED
  BY <1>1 DEF Etiqueta, Suya

\* The Workers that run a query have it in listaExecute.
LEMMA TrasladoEjecutores ==
  ASSUME Ubicadas, NEW h \in Hilos, h[1] \in {"ready", "worker"}, NEW q \in Queries,
         NEW de \in Lugares, NEW a \in Lugares, Traslado(h, q, de, a), Acorde(h, q, de, a)
  PROVE  Ejecutores'
<1> DEFINE ex == EnCola("execute")
           x == Contenido(ex)
<1>1. ex \in Lugares /\ x = ToSet(colas["execute"]) /\ Contenido(ex)' = ToSet(colas'["execute"])
  BY LugarForma, LugarContenido DEF Colas
<1>2. Contenido(ex)' = IF ex = de THEN x \ {q} ELSE IF ex = a THEN x \cup {q} ELSE x
  BY <1>1 DEF Traslado
<1>3. ex # de /\ q \in x => FALSE
  BY <1>1 DEF Traslado, Ubicadas, UnLugar
<1>4. ASSUME NEW w \in Workers, h # DeWorker(w), Etiqueta(w)' \in ConExecute
      PROVE  /\ Etiqueta(w) \in ConExecute /\ Suya(w)' = Suya(w) /\ Suya(w) \in x
             /\ Suya(w) # q /\ Suya(w)' \in Contenido(ex)'
  <2>1. Etiqueta(w) \in ConExecute /\ Suya(w)' = Suya(w)
    BY <1>4, OtrosWorkers DEF Traslado
  <2>2. Suya(w) \in x
    BY <1>1, <2>1 DEF Ubicadas, Ejecutores
  <2>3. Suya(w) # q
    <3>1. CASE ex = de
      <4>1. h \in Hilos /\ h[1] = "worker" /\ hilo[h].pc \in ConExecute /\ hilo[h].actual = q
        BY <3>1 DEF Acorde
      <4>2. h[2] \in Workers /\ h = DeWorker(h[2])
        BY <4>1, HilosNombres
      <4>3. Etiqueta(h[2]) \in ConExecute /\ Suya(h[2]) = q
        BY <4>1, <4>2 DEF Etiqueta, Suya
      <4> QED
        BY <1>4, <2>1, <4>2, <4>3 DEF Ubicadas, Ejecutores
    <3>2. CASE ex # de
      BY <1>3, <2>2, <3>2
    <3> QED
      BY <3>1, <3>2
  <2> QED
    BY <1>2, <2>1, <2>2, <2>3
<1>5. ASSUME NEW w \in Workers, h = DeWorker(w), Etiqueta(w)' \in ConExecute
      PROVE  Suya(w)' = q /\ Suya(w)' \in Contenido(ex)'
  <2>1. h[1] = "worker" /\ hilo'[h].pc \in ConExecute /\ Suya(w)' = q
    BY <1>5, HilosNombres DEF Etiqueta, Suya, Traslado
  <2>2. a = ex /\ ex # de
    BY <2>1 DEF Acorde, Traslado
  <2> QED
    BY <1>2, <2>1, <2>2
<1> HIDE DEF ex, x
<1>6. \A w \in Workers : Etiqueta(w)' \in ConExecute => Suya(w)' \in ToSet(colas'["execute"])
  BY <1>1, <1>4, <1>5
<1>7. ASSUME NEW u \in Workers, NEW w \in Workers, u # w,
             Etiqueta(u)' \in ConExecute, Etiqueta(w)' \in ConExecute
      PROVE  Suya(u)' # Suya(w)'
  <2>1. DeWorker(u) # DeWorker(w)
    BY <1>7 DEF DeWorker
  <2>2. CASE h # DeWorker(u) /\ h # DeWorker(w)
    BY <1>4, <1>7, <2>2 DEF Ubicadas, Ejecutores
  <2>3. CASE h = DeWorker(u)
    BY <1>4, <1>5, <1>7, <2>1, <2>3
  <2>4. CASE h = DeWorker(w)
    BY <1>4, <1>5, <1>7, <2>1, <2>4
  <2> QED
    BY <2>2, <2>3, <2>4
<1> QED
  BY <1>6, <1>7 DEF Ejecutores

\* The end is told of the same queries as before.
LEMMA TrasladoAvisos ==
  ASSUME Ubicadas, NEW h \in Hilos, h[1] \in {"ready", "worker"}, NEW q \in Queries,
         NEW de \in Lugares, NEW a \in Lugares, Traslado(h, q, de, a), Acorde(h, q, de, a)
  PROVE  Avisos'
<1>1. avisos' = avisos /\ qm' = qm /\ socketQC' = socketQC
  BY DEF Traslado
<1>2. \A c \in Colas : ToSet(colas'[c]) \subseteq
                         IF a = EnCola(c) THEN ToSet(colas[c]) \cup {q} ELSE ToSet(colas[c])
  <2>1. \A l \in Lugares : Contenido(l)' \subseteq IF a = l THEN Contenido(l) \cup {q} ELSE Contenido(l)
    BY DEF Traslado
  <2> QED
    BY <2>1, LugarForma, LugarContenido
<1>3. \A c \in {"new", "desalojo", "ready"} : \A p \in ToSet(colas'[c]) : ~(avisos'[p] > 0)
  BY <1>1, <1>2 DEF Acorde, Ubicadas, Avisos, Avisada, Colas
<1>4. \A p \in ToSet(colas'["exit"]) : avisos'[p] > 0
  BY <1>1, <1>2 DEF Acorde, Ubicadas, Avisos, Avisada, Colas
<1>5. ASSUME NEW w \in Workers
      PROVE  /\ Etiqueta(w)' \in Corriendo => ~(avisos'[Suya(w)'] > 0)
             /\ Etiqueta(w)' \in {"sacarExecute", "agregarExit"} => avisos'[Suya(w)'] > 0
  <2>1. CASE h = DeWorker(w)
    <3>1. h[1] = "worker" /\ Etiqueta(w)' = hilo'[h].pc /\ Suya(w)' = q
      BY <2>1, HilosNombres DEF Etiqueta, Suya, Traslado
    <3> QED
      BY <1>1, <3>1 DEF Acorde, Avisada
  <2>2. CASE h # DeWorker(w)
    <3>1. Etiqueta(w)' = Etiqueta(w) /\ Suya(w)' = Suya(w)
      BY <2>2, OtrosWorkers DEF Traslado
    <3> QED
      BY <1>1, <3>1 DEF Ubicadas, Avisos, Avisada
  <2> QED
    BY <2>1, <2>2
<1>6. ASSUME NEW p \in Queries
      PROVE  /\ SeFue(p)' => avisos'[p] > 0
             /\ avisos'[p] > 0 => Conectada(p)'
  <2>1. hilo'[DeQuery(p)] = hilo[DeQuery(p)]
    BY HilosTipo, HilosNombres DEF Traslado, SoloHilo
  <2> QED
    BY <1>1, <2>1 DEF Ubicadas, Avisos, Avisada, SeFue, Conectada
<1> QED
  BY <1>3, <1>4, <1>5, <1>6 DEF Avisos, Avisada, SeFue

\* All of it, for the steps that leave listaReady and its semaphore in step.
LEMMA TrasladoHecho ==
  ASSUME Ubicadas, NEW h \in Hilos, h[1] \in {"ready", "worker"}, NEW q \in Queries,
         NEW de \in Lugares, NEW a \in Lugares, Traslado(h, q, de, a), Acorde(h, q, de, a), Fichas'
  PROVE  Hecho
<1>1. Papeles'
  <2>1. /\ hilo'[h].pc \notin DeAbandono
        /\ IF h[1] = "worker" THEN hilo'[h].pc \in EtiquetasWorker ELSE hilo'[h].pc \notin Mano
    BY DEF Acorde
  <2>2. h # Exit /\ SoloHilo(h) /\ qm' = qm
    BY HilosNombres DEF Traslado
  <2> QED
    BY <2>1, <2>2, PapelesHilo DEF Ubicadas, Tipos, MasterOK
<1> QED
  BY <1>1, TrasladoUnLugar, TrasladoEjecutores, TrasladoAvisos DEF Hecho

-----------------------------------------------------------------------------
(* What such a step is in CicloDeVida.                                     *)

PasoDeCiclo == Ciclo!Next \/ CicloQuieto

\* The actions of CicloDeVida.
LEMMA EsDespacha ==
  ASSUME NEW w \in Workers, NEW q \in Queries, q \in EnEspera, Asignada[w] = Ninguna,
         EnEspera' = EnEspera \ {q}, Asignada' = [Asignada EXCEPT ![w] = q],
         Finalizadas' = Finalizadas
  PROVE  PasoDeCiclo
<1>1. Ciclo!Despacha(w, q)
  BY DEF Ciclo!Despacha, EnEspera, Asignada, Finalizadas
<1> QED
  BY <1>1 DEF PasoDeCiclo, Ciclo!Next

\* A Worker gives a query back.
LEMMA EsDevuelve ==
  ASSUME NEW w \in Workers, Asignada[w] # Ninguna,
         EnEspera' = EnEspera \cup {Asignada[w]}, Asignada' = [Asignada EXCEPT ![w] = Ninguna],
         Finalizadas' = Finalizadas
  PROVE  PasoDeCiclo
<1>1. Ciclo!Devuelve(w)
  BY DEF Ciclo!Devuelve, EnEspera, Asignada, Finalizadas
<1> QED
  BY <1>1 DEF PasoDeCiclo, Ciclo!Next

\* A query ends.
LEMMA EsFinaliza ==
  ASSUME NEW w \in Workers, Asignada[w] # Ninguna, Asignada[w] \notin Finalizadas,
         EnEspera' = EnEspera, Asignada' = [Asignada EXCEPT ![w] = Ninguna],
         Finalizadas' = Finalizadas \cup {Asignada[w]}
  PROVE  PasoDeCiclo
<1>1. Ciclo!Finaliza(w)
  BY DEF Ciclo!Finaliza, EnEspera, Asignada, Finalizadas
<1> QED
  BY <1>1 DEF PasoDeCiclo, Ciclo!Next

\* A query arrives.
LEMMA EsLlega ==
  ASSUME NEW q \in Queries, q \notin EnEspera \cup Finalizadas, \A w \in Workers : Asignada[w] # q,
         EnEspera' = EnEspera \cup {q}, Asignada' = Asignada, Finalizadas' = Finalizadas
  PROVE  PasoDeCiclo
<1>1. q \notin Ciclo!EnEjecucion
  BY DEF Ciclo!EnEjecucion, Asignada
<1>2. Ciclo!Llega(q)
  BY <1>1 DEF Ciclo!Llega, EnEspera, Asignada, Finalizadas
<1> QED
  BY <1>2 DEF PasoDeCiclo, Ciclo!Next

\* Who runs what after a step of one thread.
LEMMA AsignadaSolo ==
  ASSUME NEW h \in Hilos, SoloHilo(h)
  PROVE  /\ h[1] = "worker" =>
              Asignada' = [Asignada EXCEPT ![h[2]] =
                IF hilo'[h].pc \in Corriendo THEN hilo'[h].actual ELSE Ninguna]
         /\ h[1] # "worker" => Asignada' = Asignada
<1>1. \A w \in Workers : h # DeWorker(w) => hilo'[DeWorker(w)] = hilo[DeWorker(w)]
  BY HilosTipo DEF SoloHilo
<1>2. CASE h[1] = "worker"
  <2>1. PICK v \in Workers : h = DeWorker(v) /\ h[2] = v
    BY <1>2, HilosNombres
  <2>2. \A w \in Workers : w # v => h # DeWorker(w)
    BY <2>1 DEF DeWorker
  <2> QED
    BY <1>1, <1>2, <2>1, <2>2 DEF Asignada, Suya
<1>3. CASE h[1] # "worker"
  <2>1. \A w \in Workers : h # DeWorker(w)
    BY <1>3, HilosNombres
  <2> QED
    BY <1>1, <1>3, <2>1 DEF Asignada, Suya
<1> QED
  BY <1>2, <1>3

\* The queues where a query waits.
DeEspera == {EnCola("new"), EnCola("desalojo"), EnCola("ready")}

\* The other places are not among them.
LEMMA NoEspera ==
  /\ EnCola("execute") \notin DeEspera /\ EnCola("exit") \notin DeEspera
  /\ \A w : EnLaMano(w) \notin DeEspera
BY DEF DeEspera, EnCola, EnLaMano

\* Who waits after a query went from one place to another.
LEMMA EsperaTraslado ==
  ASSUME Ubicadas, NEW h, NEW q, NEW de \in Lugares, NEW a \in Lugares, Traslado(h, q, de, a)
  PROVE  /\ a \in DeEspera => EnEspera' = EnEspera \cup {q}
         /\ a \notin DeEspera /\ de \in DeEspera => q \in EnEspera /\ EnEspera' = EnEspera \ {q}
         /\ a \notin DeEspera /\ de \notin DeEspera => EnEspera' = EnEspera
<1>1. DeEspera \subseteq Lugares
  BY LugarForma DEF DeEspera, Colas
<1>2. EnEspera = UNION {Contenido(l) : l \in DeEspera}
  BY LugarContenido DEF DeEspera, EnEspera
<1>3. EnEspera' = UNION {Contenido(l)' : l \in DeEspera}
  BY LugarContenido DEF DeEspera, EnEspera
<1>4. \A l \in Lugares : l # de => q \notin Contenido(l)
  BY DEF Traslado, Ubicadas, UnLugar
<1>5. \A l \in DeEspera : Contenido(l)' = IF l = de THEN Contenido(l) \ {q}
                                  ELSE IF l = a THEN Contenido(l) \cup {q} ELSE Contenido(l)
  BY <1>1 DEF Traslado
<1>6. q \in Contenido(de) /\ de # a
  BY DEF Traslado
<1>7. a \in DeEspera => EnEspera' = EnEspera \cup {q}
  BY <1>2, <1>3, <1>5, <1>6
<1>8. a \notin DeEspera /\ de \in DeEspera => q \in EnEspera /\ EnEspera' = EnEspera \ {q}
  BY <1>1, <1>2, <1>3, <1>4, <1>5, <1>6
<1>9. a \notin DeEspera /\ de \notin DeEspera => EnEspera' = EnEspera
  BY <1>2, <1>3, <1>5, <1>6
<1> QED
  BY <1>7, <1>8, <1>9

\* The contents of the places that a step does not touch.
LEMMA OtrosLugares ==
  ASSUME NEW h \in Hilos, SoloHilo(h), NEW de, NEW a,
         \A c \in Colas : EnCola(c) \notin {de, a} => colas'[c] = colas[c],
         \A w \in Workers : h = DeWorker(w) /\ EnLaMano(w) \notin {de, a} =>
           Etiqueta(w) \notin Mano /\ Etiqueta(w)' \notin Mano
  PROVE  \A l \in Lugares \ {de, a} : Contenido(l)' = Contenido(l)
<1> SUFFICES ASSUME NEW l \in Lugares \ {de, a} PROVE Contenido(l)' = Contenido(l)
  OBVIOUS
<1>1. CASE \E c \in Colas : l = EnCola(c)
  BY <1>1, LugarContenido
<1>2. CASE \E w \in Workers : l = EnLaMano(w)
  <2>1. PICK w \in Workers : l = EnLaMano(w)
    BY <1>2
  <2>2. h # DeWorker(w) => Etiqueta(w)' = Etiqueta(w) /\ Suya(w)' = Suya(w)
    BY OtrosWorkers
  <2> QED
    BY <2>1, <2>2, LugarContenido
<1> QED
  BY <1>1, <1>2, LugarForma

-----------------------------------------------------------------------------
(* The steps of a Worker thread that move its query.                       *)

\* PonCola changes one queue and one thread.
LEMMA PonColaSolo ==
  ASSUME Ubicadas, NEW h \in Hilos, NEW d, NEW e, NEW c \in Colas, NEW valores,
         PonCola(h, d, e, c, valores)
  PROVE  /\ SoloHilo(h) /\ hilo[h].pc = d /\ hilo'[h].pc = e
         /\ e # "esperar" => hilo'[h].actual = hilo[h].actual
         /\ colas'[c] \in valores /\ \A x \in Colas \ {c} : colas'[x] = colas[x]
         /\ sem' = sem /\ qm' = qm /\ avisos' = avisos /\ socketQC' = socketQC
<1>1. Va(h, d, e) /\ UNCHANGED <<sem, varsWorkers, qm, varsCanales>>
      /\ \E s \in valores : colas' = [colas EXCEPT ![c] = s]
  BY DEF PonCola
<1>2. PICK s \in valores : colas' = [colas EXCEPT ![c] = s]
  BY <1>1
<1>3. colas'[c] = s /\ \A x \in Colas \ {c} : colas'[x] = colas[x]
  BY <1>2 DEF Ubicadas, Tipos, MasterOK, ColasOK
<1> QED
  BY <1>1, <1>3, VaSolo DEF Ubicadas, Tipos, MasterOK, varsCanales

\* For a Worker thread and a queue that is not listaReady:
LEMMA PonColaWorker ==
  ASSUME Ubicadas, NEW w \in Workers, NEW d, NEW e, NEW c \in Colas \ {"ready"}, NEW valores,
         PonCola(DeWorker(w), d, e, c, valores)
  PROVE  /\ Etiqueta(w) = d /\ Etiqueta(w)' = e
         /\ hilo[DeWorker(w)].pc = d /\ hilo'[DeWorker(w)].pc = e
         /\ colas'["ready"] = colas["ready"] /\ sem' = sem
<1>1. DeWorker(w) \in Hilos /\ "ready" \in Colas \ {c}
  BY HilosTipo DEF Colas
<1>2. /\ hilo[DeWorker(w)].pc = d /\ hilo'[DeWorker(w)].pc = e
      /\ colas'["ready"] = colas["ready"] /\ sem' = sem
  BY <1>1, PonColaSolo, SMTT(30)
<1> QED
  BY <1>2 DEF Etiqueta

\* The query a Worker thread has is a query.
LEMMA SuyaTipo ==
  ASSUME Ubicadas, NEW w \in Workers, Etiqueta(w) \in Mano \cup ConExecute
  PROVE  Suya(w) \in Queries
<1>1. HiloBien(DeWorker(w), hilo[DeWorker(w)])
  BY HilosTipo DEF Ubicadas, Tipos, MasterOK, HiloOK
<1> QED
  BY <1>1 DEF HiloBien, SinActual, Mano, ConExecute, Etiqueta, Suya

\* A Worker thread puts its query in a queue.
LEMMA DeManoACola ==
  ASSUME Ubicadas, NEW w \in Workers, NEW d \in Mano, NEW e, e \notin Mano \cup {"esperar"},
         NEW c \in Colas, NEW valores, PonCola(DeWorker(w), d, e, c, valores),
         \A s \in valores :
           /\ ToSet(s) = ToSet(colas[c]) \cup {Suya(w)}
           /\ IsInjective(colas[c]) /\ Suya(w) \notin ToSet(colas[c]) => IsInjective(s)
  PROVE  Traslado(DeWorker(w), Suya(w), EnLaMano(w), EnCola(c))
<1>1. DeWorker(w) \in Hilos /\ EnLaMano(w) \in Lugares /\ EnCola(c) \in Lugares /\ EnCola(c) # EnLaMano(w)
  BY HilosTipo, LugarForma
<1>2. /\ SoloHilo(DeWorker(w)) /\ Etiqueta(w) = d /\ Etiqueta(w)' = e /\ Suya(w)' = Suya(w)
      /\ colas'[c] \in valores /\ \A x \in Colas \ {c} : colas'[x] = colas[x]
      /\ qm' = qm /\ avisos' = avisos /\ socketQC' = socketQC
  <2>1. /\ SoloHilo(DeWorker(w)) /\ hilo[DeWorker(w)].pc = d /\ hilo'[DeWorker(w)].pc = e
        /\ e # "esperar" => hilo'[DeWorker(w)].actual = hilo[DeWorker(w)].actual
        /\ colas'[c] \in valores /\ \A x \in Colas \ {c} : colas'[x] = colas[x]
        /\ qm' = qm /\ avisos' = avisos /\ socketQC' = socketQC
    BY <1>1, PonColaSolo, SMTT(30)
  <2>2. e # "esperar"
    OBVIOUS
  <2> QED
    BY <2>1, <2>2 DEF Etiqueta, Suya
<1>3. Contenido(EnLaMano(w)) = {Suya(w)} /\ Contenido(EnLaMano(w))' = {}
  BY <1>2, LugarContenido
<1>4. Suya(w) \notin ToSet(colas[c]) /\ IsInjective(colas[c])
  BY <1>1, <1>3, LugarContenido DEF Ubicadas, UnLugar
<1>5. Contenido(EnCola(c))' = Contenido(EnCola(c)) \cup {Suya(w)} /\ IsInjective(colas'[c])
  BY <1>2, <1>4, LugarContenido
<1>6. \A x \in Colas : IsInjective(colas'[x])
  BY <1>2, <1>5 DEF Ubicadas, UnLugar
<1>7. \A l \in Lugares \ {EnLaMano(w), EnCola(c)} : Contenido(l)' = Contenido(l)
  <2>1. \A x \in Colas : EnCola(x) \notin {EnLaMano(w), EnCola(c)} => colas'[x] = colas[x]
    BY <1>2
  <2>2. \A v \in Workers : DeWorker(w) = DeWorker(v) => EnLaMano(v) = EnLaMano(w)
    BY DEF DeWorker
  <2> QED
    BY <1>1, <1>2, <2>1, <2>2, OtrosLugares
<1> QED
  BY <1>1, <1>2, <1>3, <1>5, <1>6, <1>7 DEF Traslado, Suya

\* It takes it out of listaExecute.
LEMMA DeExecuteAMano ==
  ASSUME Ubicadas, NEW w \in Workers, NEW d \in ConExecute, NEW e \in Mano,
         PonCola(DeWorker(w), d, e, "execute", {RemoveFirst(colas["execute"], Suya(w))})
  PROVE  Traslado(DeWorker(w), Suya(w), EnCola("execute"), EnLaMano(w))
<1> DEFINE c == "execute"
<1>1. /\ DeWorker(w) \in Hilos /\ EnLaMano(w) \in Lugares /\ EnCola(c) \in Lugares
      /\ EnCola(c) # EnLaMano(w) /\ c \in Colas
  BY HilosTipo, LugarForma DEF Colas
<1>2. e # "esperar" /\ d \notin Mano
  BY DEF Mano, ConExecute
<1>3. /\ SoloHilo(DeWorker(w)) /\ Etiqueta(w) = d /\ Etiqueta(w)' = e /\ Suya(w)' = Suya(w)
      /\ colas'[c] = RemoveFirst(colas[c], Suya(w)) /\ \A x \in Colas \ {c} : colas'[x] = colas[x]
      /\ qm' = qm /\ avisos' = avisos /\ socketQC' = socketQC
  <2>1. /\ SoloHilo(DeWorker(w)) /\ hilo[DeWorker(w)].pc = d /\ hilo'[DeWorker(w)].pc = e
        /\ hilo'[DeWorker(w)].actual = hilo[DeWorker(w)].actual
        /\ colas'[c] \in {RemoveFirst(colas[c], Suya(w))} /\ \A x \in Colas \ {c} : colas'[x] = colas[x]
        /\ qm' = qm /\ avisos' = avisos /\ socketQC' = socketQC
    BY <1>1, <1>2, PonColaSolo, SMTT(30)
  <2> QED
    BY <2>1 DEF Etiqueta, Suya
<1>4. Contenido(EnLaMano(w)) = {} /\ Contenido(EnLaMano(w))' = {Suya(w)}
  BY <1>2, <1>3, LugarContenido
<1>5. Suya(w) \in ToSet(colas[c]) /\ IsInjective(colas[c]) /\ colas[c] \in Seq(Queries)
  BY <1>1, <1>3 DEF Ubicadas, UnLugar, Ejecutores, Tipos, MasterOK, ColasOK
<1>6. ToSet(colas'[c]) = ToSet(colas[c]) \ {Suya(w)} /\ IsInjective(colas'[c])
  BY <1>3, <1>5, RemoveFirstConjunto
<1>7. Contenido(EnCola(c))' = Contenido(EnCola(c)) \ {Suya(w)} /\ Suya(w) \in Contenido(EnCola(c))
  BY <1>5, <1>6, LugarContenido
<1>8. \A x \in Colas : IsInjective(colas'[x])
  BY <1>3, <1>6 DEF Ubicadas, UnLugar
<1>9. \A l \in Lugares \ {EnCola(c), EnLaMano(w)} : Contenido(l)' = Contenido(l)
  <2>1. \A x \in Colas : EnCola(x) \notin {EnCola(c), EnLaMano(w)} => colas'[x] = colas[x]
    BY <1>3
  <2>2. \A v \in Workers : DeWorker(w) = DeWorker(v) => EnLaMano(v) = EnLaMano(w)
    BY DEF DeWorker
  <2> QED
    BY <1>1, <1>3, <2>1, <2>2, OtrosLugares
<1> QED
  BY <1>1, <1>3, <1>4, <1>7, <1>8, <1>9 DEF Traslado, Suya

\* After such a step, when it does not touch listaReady.
LEMMA TrasladoWorker ==
  ASSUME Ubicadas, NEW w \in Workers, NEW de \in Lugares, NEW a \in Lugares,
         Suya(w) \in Queries, Traslado(DeWorker(w), Suya(w), de, a),
         Acorde(DeWorker(w), Suya(w), de, a), colas'["ready"] = colas["ready"], sem' = sem
  PROVE  /\ Hecho
         /\ Asignada' = [Asignada EXCEPT ![w] =
              IF Etiqueta(w)' \in Corriendo THEN Suya(w) ELSE Ninguna]
         /\ Finalizadas' = Finalizadas
<1>1. DeWorker(w) \in Hilos /\ DeWorker(w)[1] = "worker" /\ DeWorker(w)[2] = w /\ DeWorker(w) # Ready
  BY HilosTipo, HilosNombres
<1>2. SoloHilo(DeWorker(w)) /\ avisos' = avisos /\ hilo'[DeWorker(w)].actual = Suya(w)
  BY DEF Traslado
<1>3. Fichas'
  <2>1. ReadyTrae' <=> ReadyTrae
    BY <1>1, <1>2, HilosTipo DEF SoloHilo, ReadyTrae
  <2> QED
    BY <2>1, FichasIgual DEF Ubicadas
<1>4. Hecho
  BY <1>1, <1>3, TrasladoHecho
<1>5. Asignada' = [Asignada EXCEPT ![w] = IF Etiqueta(w)' \in Corriendo THEN Suya(w) ELSE Ninguna]
  BY <1>1, <1>2, AsignadaSolo DEF Etiqueta
<1> QED
  BY <1>2, <1>4, <1>5 DEF Finalizadas

-----------------------------------------------------------------------------
(* Worker threads.                                                         *)

\* The query goes from listaReady's hand to listaExecute.
LEMMA AgregaExecuteLugar ==
  ASSUME Ubicadas, NEW w \in Workers, AgregaExecute(w)
  PROVE  Hecho /\ CicloQuieto
<1> DEFINE e == "codEjecucion"
           c == "execute"
           h == DeWorker(w)
<1>1. /\ PonCola(h, "agregar", e, c, Inserciones(colas[c], Suya(w)))
      /\ "agregar" \in Mano /\ e \notin Mano \cup {"esperar"} /\ c \in Colas \ {"ready"}
  BY DEF AgregaExecute, Mano, Colas
<1>2. h \in Hilos /\ EnLaMano(w) \in Lugares /\ EnCola(c) \in Lugares
  BY <1>1, HilosTipo, LugarForma
<1>3. /\ Etiqueta(w) = "agregar" /\ Etiqueta(w)' = e /\ hilo[h].pc = "agregar" /\ hilo'[h].pc = e
      /\ colas'["ready"] = colas["ready"] /\ sem' = sem
  BY <1>1, PonColaWorker
<1>4. Suya(w) \in Queries
  BY <1>1, <1>3, SuyaTipo
<1>5. Traslado(h, Suya(w), EnLaMano(w), EnCola(c))
  <2>1. colas[c] \in Seq(Queries)
    BY <1>1 DEF Ubicadas, Tipos, MasterOK, ColasOK
  <2>2. \A s \in Inserciones(colas[c], Suya(w)) :
          /\ ToSet(s) = ToSet(colas[c]) \cup {Suya(w)}
          /\ IsInjective(colas[c]) /\ Suya(w) \notin ToSet(colas[c]) => IsInjective(s)
    BY <1>4, <2>1, InsercionesConjunto
  <2> QED
    BY <1>1, <2>2, DeManoACola
<1>6. ~Avisada(Suya(w))
  BY <1>3 DEF Ubicadas, Avisos, Corriendo
<1>7. Acorde(h, Suya(w), EnLaMano(w), EnCola(c))
  BY <1>3, <1>6, HilosNombres, LugarForma
     DEF Acorde, DeAbandono, EtiquetasWorker, ConExecute, EnCola
<1>8. /\ Hecho /\ Asignada' = [Asignada EXCEPT ![w] = Suya(w)] /\ Finalizadas' = Finalizadas
  BY <1>2, <1>3, <1>4, <1>5, <1>7, TrasladoWorker DEF Corriendo
<1>9. Asignada' = Asignada
  <2>1. Asignada[w] = Suya(w)
    BY <1>3 DEF Asignada, Etiqueta, Corriendo
  <2> QED
    BY <1>8, <2>1 DEF Asignada
<1>10. EnEspera' = EnEspera
  BY <1>2, <1>5, EsperaTraslado, NoEspera
<1> QED
  BY <1>8, <1>9, <1>10 DEF CicloQuieto

\* A finished query leaves listaExecute.
LEMMA SacaExecuteLugar ==
  ASSUME Ubicadas, NEW w \in Workers, SacaExecute(w)
  PROVE  Hecho /\ CicloQuieto
<1> DEFINE d == "sacarExecute"
           e == "agregarExit"
           c == "execute"
           h == DeWorker(w)
<1>1. /\ PonCola(h, d, e, c, {RemoveFirst(colas[c], Suya(w))})
      /\ d \in ConExecute /\ e \in Mano /\ e # "esperar" /\ c \in Colas \ {"ready"}
  BY DEF SacaExecute, Mano, ConExecute, Colas
<1>2. h \in Hilos /\ EnLaMano(w) \in Lugares /\ EnCola(c) \in Lugares
  BY <1>1, HilosTipo, LugarForma
<1>3. /\ Etiqueta(w) = d /\ Etiqueta(w)' = e /\ hilo[h].pc = d /\ hilo'[h].pc = e
      /\ colas'["ready"] = colas["ready"] /\ sem' = sem
  BY <1>1, PonColaWorker
<1>4. Suya(w) \in Queries
  BY <1>1, <1>3, SuyaTipo
<1>5. Traslado(h, Suya(w), EnCola(c), EnLaMano(w))
  BY <1>1, DeExecuteAMano
<1>6. Avisada(Suya(w))
  BY <1>3 DEF Ubicadas, Avisos
<1>7. Acorde(h, Suya(w), EnCola(c), EnLaMano(w))
  BY <1>3, <1>6, HilosNombres, LugarForma
     DEF Acorde, DeAbandono, EtiquetasWorker, ConExecute, Mano, Corriendo, Suya
<1>8. /\ Hecho /\ Asignada' = [Asignada EXCEPT ![w] = Ninguna] /\ Finalizadas' = Finalizadas
  BY <1>2, <1>3, <1>4, <1>5, <1>7, TrasladoWorker DEF Corriendo
<1>9. Asignada' = Asignada
  <2>1. Asignada[w] = Ninguna
    BY <1>3 DEF Asignada, Etiqueta, Corriendo
  <2> QED
    BY <1>8, <2>1 DEF Asignada
<1>10. EnEspera' = EnEspera
  BY <1>2, <1>5, EsperaTraslado, NoEspera
<1> QED
  BY <1>8, <1>9, <1>10 DEF CicloQuieto

\* So does an evicted one.
LEMMA DesalojaSacaExecuteLugar ==
  ASSUME Ubicadas, NEW w \in Workers, DesalojaSacaExecute(w)
  PROVE  Hecho /\ CicloQuieto
<1> DEFINE d == "desalojar"
           e == "mirarQC"
           c == "execute"
           h == DeWorker(w)
<1>1. /\ PonCola(h, d, e, c, {RemoveFirst(colas[c], Suya(w))})
      /\ d \in ConExecute /\ e \in Mano /\ e # "esperar" /\ c \in Colas \ {"ready"}
  BY DEF DesalojaSacaExecute, Mano, ConExecute, Colas
<1>2. h \in Hilos /\ EnLaMano(w) \in Lugares /\ EnCola(c) \in Lugares
  BY <1>1, HilosTipo, LugarForma
<1>3. /\ Etiqueta(w) = d /\ Etiqueta(w)' = e /\ hilo[h].pc = d /\ hilo'[h].pc = e
      /\ colas'["ready"] = colas["ready"] /\ sem' = sem
  BY <1>1, PonColaWorker
<1>4. Suya(w) \in Queries
  BY <1>1, <1>3, SuyaTipo
<1>5. Traslado(h, Suya(w), EnCola(c), EnLaMano(w))
  BY <1>1, DeExecuteAMano
<1>6. ~Avisada(Suya(w))
  BY <1>3 DEF Ubicadas, Avisos, Corriendo
<1>7. Acorde(h, Suya(w), EnCola(c), EnLaMano(w))
  BY <1>3, <1>6, HilosNombres, LugarForma
     DEF Acorde, DeAbandono, EtiquetasWorker, ConExecute, Mano, Suya
<1>8. /\ Hecho /\ Asignada' = [Asignada EXCEPT ![w] = Suya(w)] /\ Finalizadas' = Finalizadas
  BY <1>2, <1>3, <1>4, <1>5, <1>7, TrasladoWorker DEF Corriendo
<1>9. Asignada' = Asignada
  <2>1. Asignada[w] = Suya(w)
    BY <1>3 DEF Asignada, Etiqueta, Corriendo
  <2> QED
    BY <1>8, <2>1 DEF Asignada
<1>10. EnEspera' = EnEspera
  BY <1>2, <1>5, EsperaTraslado, NoEspera
<1> QED
  BY <1>8, <1>9, <1>10 DEF CicloQuieto

\* The evicted query waits again: the Worker gives it back.
LEMMA DesalojaReencolaLugar ==
  ASSUME Ubicadas, NEW w \in Workers, DesalojaReencola(w)
  PROVE  Hecho /\ PasoDeCiclo
<1> DEFINE d == "reencolar"
           e == "codReencolada"
           c == "desalojo"
           h == DeWorker(w)
<1>1. /\ PonCola(h, d, e, c, {Append(colas[c], Suya(w))})
      /\ d \in Mano /\ e \notin Mano \cup {"esperar"} /\ c \in Colas \ {"ready"}
  BY DEF DesalojaReencola, Mano, Colas
<1>2. h \in Hilos /\ EnLaMano(w) \in Lugares /\ EnCola(c) \in Lugares
  BY <1>1, HilosTipo, LugarForma
<1>3. /\ Etiqueta(w) = d /\ Etiqueta(w)' = e /\ hilo[h].pc = d /\ hilo'[h].pc = e
      /\ colas'["ready"] = colas["ready"] /\ sem' = sem
  BY <1>1, PonColaWorker
<1>4. Suya(w) \in Queries
  BY <1>1, <1>3, SuyaTipo
<1>5. Traslado(h, Suya(w), EnLaMano(w), EnCola(c))
  <2>1. colas[c] \in Seq(Queries)
    BY <1>1 DEF Ubicadas, Tipos, MasterOK, ColasOK
  <2>2. \A s \in {Append(colas[c], Suya(w))} :
          /\ ToSet(s) = ToSet(colas[c]) \cup {Suya(w)}
          /\ IsInjective(colas[c]) /\ Suya(w) \notin ToSet(colas[c]) => IsInjective(s)
    <3>1. /\ ToSet(Append(colas[c], Suya(w))) = ToSet(colas[c]) \cup {Suya(w)}
          /\ IsInjective(colas[c]) /\ Suya(w) \notin ToSet(colas[c])
             => IsInjective(Append(colas[c], Suya(w)))
      BY <1>4, <2>1, AppendConjunto, Zenon
    <3> QED
      BY <3>1, Zenon
  <2> QED
    BY <1>1, <2>2, DeManoACola
<1>6. ~Avisada(Suya(w))
  BY <1>3 DEF Ubicadas, Avisos, Corriendo
<1>7. Acorde(h, Suya(w), EnLaMano(w), EnCola(c))
  BY <1>3, <1>6, HilosNombres, LugarForma
     DEF Acorde, DeAbandono, EtiquetasWorker, ConExecute, EnCola
<1>8. /\ Hecho /\ Asignada' = [Asignada EXCEPT ![w] = Ninguna] /\ Finalizadas' = Finalizadas
  BY <1>2, <1>3, <1>4, <1>5, <1>7, TrasladoWorker DEF Corriendo
<1>9. Asignada[w] = Suya(w) /\ Suya(w) # Ninguna
  BY <1>3, <1>4, CanalesAssumption DEF Asignada, Etiqueta, Corriendo
<1>10. EnEspera' = EnEspera \cup {Suya(w)}
  BY <1>2, <1>5, EsperaTraslado DEF DeEspera
<1> QED
  BY <1>8, <1>9, <1>10, EsDevuelve

\* The finished query is queued for exitStatus.
LEMMA AgregaExitLugar ==
  ASSUME Ubicadas, NEW w \in Workers, AgregaExit(w)
  PROVE  Hecho /\ CicloQuieto
<1> DEFINE d == "agregarExit"
           e == "codFin"
           c == "exit"
           h == DeWorker(w)
<1>1. /\ PonCola(h, d, e, c, {Append(colas[c], Suya(w))})
      /\ d \in Mano /\ e \notin Mano \cup {"esperar"} /\ c \in Colas \ {"ready"}
  BY DEF AgregaExit, EncolaExit, Mano, Colas, Suya
<1>2. h \in Hilos /\ EnLaMano(w) \in Lugares /\ EnCola(c) \in Lugares
  BY <1>1, HilosTipo, LugarForma
<1>3. /\ Etiqueta(w) = d /\ Etiqueta(w)' = e /\ hilo[h].pc = d /\ hilo'[h].pc = e
      /\ colas'["ready"] = colas["ready"] /\ sem' = sem
  BY <1>1, PonColaWorker
<1>4. Suya(w) \in Queries
  BY <1>1, <1>3, SuyaTipo
<1>5. Traslado(h, Suya(w), EnLaMano(w), EnCola(c))
  <2>1. colas[c] \in Seq(Queries)
    BY <1>1 DEF Ubicadas, Tipos, MasterOK, ColasOK
  <2>2. \A s \in {Append(colas[c], Suya(w))} :
          /\ ToSet(s) = ToSet(colas[c]) \cup {Suya(w)}
          /\ IsInjective(colas[c]) /\ Suya(w) \notin ToSet(colas[c]) => IsInjective(s)
    <3>1. /\ ToSet(Append(colas[c], Suya(w))) = ToSet(colas[c]) \cup {Suya(w)}
          /\ IsInjective(colas[c]) /\ Suya(w) \notin ToSet(colas[c])
             => IsInjective(Append(colas[c], Suya(w)))
      BY <1>4, <2>1, AppendConjunto, Zenon
    <3> QED
      BY <3>1, Zenon
  <2> QED
    BY <1>1, <2>2, DeManoACola
<1>6. Avisada(Suya(w))
  BY <1>3 DEF Ubicadas, Avisos
<1>7. Acorde(h, Suya(w), EnLaMano(w), EnCola(c))
  BY <1>3, <1>6, HilosNombres, LugarForma
     DEF Acorde, DeAbandono, EtiquetasWorker, ConExecute, Corriendo, EnCola
<1>8. /\ Hecho /\ Asignada' = [Asignada EXCEPT ![w] = Ninguna] /\ Finalizadas' = Finalizadas
  BY <1>2, <1>3, <1>4, <1>5, <1>7, TrasladoWorker DEF Corriendo
<1>9. Asignada' = Asignada
  <2>1. Asignada[w] = Ninguna
    BY <1>3 DEF Asignada, Etiqueta, Corriendo
  <2> QED
    BY <1>8, <2>1 DEF Asignada
<1>10. EnEspera' = EnEspera
  BY <1>2, <1>5, EsperaTraslado, NoEspera
<1> QED
  BY <1>8, <1>9, <1>10 DEF CicloQuieto

\* A query of listaReady is dispatched.
LEMMA TomaReadyLugar ==
  ASSUME Ubicadas, NEW w \in Workers, TomaReady(w)
  PROVE  Hecho /\ PasoDeCiclo
<1>1. PICK h \in Hilos : h = DeWorker(w)
  BY HilosTipo
<1>2. PICK q : q = Head(colas["ready"])
  OBVIOUS
<1>3. h[1] = "worker" /\ h[2] = w /\ h # Ready
  BY <1>1, HilosNombres
<1>4. /\ hilo[h].pc = "esperar" /\ sem["ready"] > 0 /\ colas["ready"] # <<>>
      /\ sem' = [sem EXCEPT !["ready"] = @ - 1] /\ colas' = [colas EXCEPT !["ready"] = Tail(@)]
      /\ hilo' = [hilo EXCEPT ![h].pc = "agregar", ![h].actual = q]
      /\ qm' = qm /\ avisos' = avisos /\ socketQC' = socketQC
  BY <1>1, <1>2 DEF TomaReady, varsCanales
<1>5. /\ colas["ready"] \in Seq(Queries) /\ IsInjective(colas["ready"])
      /\ colas \in [Colas -> Seq(Queries)] /\ hilo \in [Hilos -> Hilo]
      /\ sem \in [{"esperandoReady", "ready", "exit"} -> Nat] /\ "ready" \in Colas
  BY DEF Ubicadas, UnLugar, Tipos, MasterOK, ColasOK, SemOK, HiloOK, Colas
<1>6. SoloHilo(h) /\ hilo'[h].pc = "agregar" /\ hilo'[h].actual = q
  BY <1>4, <1>5 DEF SoloHilo, Hilo
<1>7. colas'["ready"] = Tail(colas["ready"]) /\ \A c \in Colas \ {"ready"} : colas'[c] = colas[c]
  BY <1>4, <1>5
<1>8. /\ q \in Queries /\ q \in ToSet(colas["ready"]) /\ ToSet(colas'["ready"]) = ToSet(colas["ready"]) \ {q}
      /\ IsInjective(colas'["ready"]) /\ Len(colas'["ready"]) = Len(colas["ready"]) - 1
  <2>1. /\ q \in ToSet(colas["ready"]) /\ ToSet(Tail(colas["ready"])) = ToSet(colas["ready"]) \ {q}
        /\ IsInjective(Tail(colas["ready"]))
    BY <1>2, <1>4, <1>5, TailConjunto
  <2> QED
    BY <1>2, <1>4, <1>5, <1>7, <2>1, CabezaTipo
<1>9. EnCola("ready") \in Lugares /\ EnLaMano(w) \in Lugares /\ EnCola("ready") # EnLaMano(w)
  BY <1>5, LugarForma
<1>10. Etiqueta(w) = "esperar" /\ Etiqueta(w)' = "agregar" /\ Suya(w)' = q
  BY <1>1, <1>4, <1>6 DEF Etiqueta, Suya
<1>11. Contenido(EnLaMano(w)) = {} /\ Contenido(EnLaMano(w))' = {q}
  BY <1>10, LugarContenido DEF Mano
<1>12. /\ q \in Contenido(EnCola("ready"))
       /\ Contenido(EnCola("ready"))' = Contenido(EnCola("ready")) \ {q}
  BY <1>8, LugarContenido
<1>13. \A l \in Lugares \ {EnCola("ready"), EnLaMano(w)} : Contenido(l)' = Contenido(l)
  <2>1. \A c \in Colas : EnCola(c) \notin {EnCola("ready"), EnLaMano(w)} => colas'[c] = colas[c]
    BY <1>7
  <2>2. \A v \in Workers : h = DeWorker(v) => EnLaMano(v) \in {EnCola("ready"), EnLaMano(w)}
    BY <1>1 DEF DeWorker
  <2> QED
    BY <1>6, <2>1, <2>2, OtrosLugares
<1>14. Traslado(h, q, EnCola("ready"), EnLaMano(w))
  <2>1. \A c \in Colas : IsInjective(colas'[c])
    BY <1>7, <1>8 DEF Ubicadas, UnLugar
  <2> QED
    BY <1>4, <1>6, <1>9, <1>11, <1>12, <1>13, <2>1 DEF Traslado
<1>15. ~Avisada(q)
  BY <1>8 DEF Ubicadas, Avisos
<1>16. Acorde(h, q, EnCola("ready"), EnLaMano(w))
  BY <1>3, <1>4, <1>6, <1>15, LugarForma
     DEF Acorde, DeAbandono, EtiquetasWorker, Mano, ConExecute, EnCola, EnLaMano
<1>17. Fichas'
  <2>1. hilo'[Ready] = hilo[Ready]
    BY <1>3, <1>6, HilosTipo DEF SoloHilo
  <2>2. sem'["ready"] = sem["ready"] - 1 /\ sem["ready"] \in Nat /\ Len(colas["ready"]) \in Nat
    BY <1>4, <1>5
  <2>3. Len(colas["ready"]) = sem["ready"] + Uno(ReadyTrae)
    BY DEF Ubicadas, Fichas
  <2>4. Uno(ReadyTrae) \in Nat /\ Uno(ReadyTrae)' = Uno(ReadyTrae)
    BY <2>1 DEF Uno, ReadyTrae
  <2> QED
    BY <1>8, <2>2, <2>3, <2>4 DEF Fichas
<1>18. Hecho
  BY <1>3, <1>8, <1>9, <1>14, <1>16, <1>17, TrasladoHecho
<1>19. PasoDeCiclo
  <2>1. q \in EnEspera /\ EnEspera' = EnEspera \ {q}
    BY <1>9, <1>14, EsperaTraslado, NoEspera DEF DeEspera
  <2>2. Asignada' = [Asignada EXCEPT ![w] = q] /\ Finalizadas' = Finalizadas
    BY <1>3, <1>4, <1>6, AsignadaSolo DEF Corriendo, Finalizadas
  <2>3. Asignada[w] = Ninguna
    BY <1>10 DEF Asignada, Etiqueta, Corriendo
  <2> QED
    BY <1>8, <2>1, <2>2, <2>3, EsDespacha
<1> QED
  BY <1>18, <1>19

-----------------------------------------------------------------------------
(* Thread ready.                                                           *)

\* The query goes from colaNew or colaDesalojo to listaReady.
LEMMA ReadySacaLugar ==
  ASSUME Ubicadas, NEW cola \in {"new", "desalojo"}, NEW desde \in {"sacaNew", "sacaDesalojo"},
         ReadySaca(cola, desde)
  PROVE  Hecho /\ CicloQuieto
<1>1. PICK h \in Hilos : h = Ready
  BY HilosTipo
<1>2. PICK q : q = Head(colas[cola])
  OBVIOUS
<1>3. h[1] = "ready" /\ \A w \in Workers : h # DeWorker(w)
  BY <1>1, HilosNombres
<1>4. /\ hilo[h].pc = desde /\ colas[cola] # <<>>
      /\ hilo' = [hilo EXCEPT ![h].pc = "codEspera", ![h].actual = q]
      /\ \E s \in Inserciones(colas["ready"], q) :
           colas' = [colas EXCEPT !["ready"] = s, ![cola] = Tail(@)]
      /\ sem' = sem /\ qm' = qm /\ avisos' = avisos /\ socketQC' = socketQC
  BY <1>1, <1>2 DEF ReadySaca, varsCanales
<1>5. PICK s \in Inserciones(colas["ready"], q) :
        colas' = [colas EXCEPT !["ready"] = s, ![cola] = Tail(@)]
  BY <1>4
<1>6. /\ colas["ready"] \in Seq(Queries) /\ colas[cola] \in Seq(Queries)
      /\ IsInjective(colas["ready"]) /\ IsInjective(colas[cola])
      /\ colas \in [Colas -> Seq(Queries)] /\ hilo \in [Hilos -> Hilo]
      /\ sem["ready"] \in Nat /\ "ready" \in Colas /\ cola \in Colas /\ cola # "ready"
  BY DEF Ubicadas, UnLugar, Tipos, MasterOK, ColasOK, SemOK, HiloOK, Colas
<1>7. SoloHilo(h) /\ hilo'[h].pc = "codEspera" /\ hilo'[h].actual = q
  BY <1>4, <1>6 DEF SoloHilo, Hilo
<1>8. /\ colas'["ready"] = s /\ colas'[cola] = Tail(colas[cola])
      /\ \A c \in Colas \ {"ready", cola} : colas'[c] = colas[c]
  BY <1>5, <1>6
<1>9. EnCola("ready") \in Lugares /\ EnCola(cola) \in Lugares /\ EnCola("ready") # EnCola(cola)
  BY <1>6, LugarForma
<1>10. q \in Queries /\ q \in ToSet(colas[cola])
       /\ ToSet(Tail(colas[cola])) = ToSet(colas[cola]) \ {q} /\ IsInjective(Tail(colas[cola]))
  <2>1. Head(colas[cola]) \in Queries
    BY <1>4, <1>6, CabezaTipo
  <2> QED
    BY <1>2, <1>4, <1>6, <2>1, TailConjunto
<1>11. q \notin ToSet(colas["ready"])
  BY <1>9, <1>10, LugarContenido DEF Ubicadas, UnLugar
<1>12. /\ Len(s) = Len(colas["ready"]) + 1 /\ ToSet(s) = ToSet(colas["ready"]) \cup {q}
       /\ IsInjective(s)
  BY <1>6, <1>10, <1>11, InsercionesConjunto
<1>13. \A l \in Lugares \ {EnCola(cola), EnCola("ready")} : Contenido(l)' = Contenido(l)
  <2>1. \A c \in Colas : EnCola(c) \notin {EnCola(cola), EnCola("ready")} => colas'[c] = colas[c]
    BY <1>8
  <2> QED
    BY <1>3, <1>7, <2>1, OtrosLugares, SMTT(30)
<1>14. Traslado(h, q, EnCola(cola), EnCola("ready"))
  <2>1. \A c \in Colas : IsInjective(colas'[c])
    BY <1>8, <1>10, <1>12 DEF Ubicadas, UnLugar
  <2>2. /\ q \in Contenido(EnCola(cola)) /\ Contenido(EnCola(cola))' = Contenido(EnCola(cola)) \ {q}
        /\ Contenido(EnCola("ready"))' = Contenido(EnCola("ready")) \cup {q}
    BY <1>8, <1>10, <1>12, LugarContenido
  <2> QED
    BY <1>4, <1>7, <1>9, <1>13, <2>1, <2>2 DEF Traslado
<1>15. ~Avisada(q)
  BY <1>10 DEF Ubicadas, Avisos
<1>16. Acorde(h, q, EnCola(cola), EnCola("ready"))
  <2>1. EnCola(cola) # EnCola("execute") /\ EnCola("ready") # EnCola("exit")
    BY DEF EnCola
  <2> QED
    BY <1>3, <1>7, <1>15, <2>1 DEF Acorde, DeAbandono, Mano
<1>17. Fichas'
  <2>1. Len(colas["ready"]) = sem["ready"] + Uno(ReadyTrae)
    BY DEF Ubicadas, Fichas
  <2>2. Uno(ReadyTrae) = 0 /\ Uno(ReadyTrae)' = 1
    BY <1>1, <1>4, <1>7 DEF Uno, ReadyTrae
  <2>3. Len(colas'["ready"]) = Len(colas["ready"]) + 1 /\ sem'["ready"] = sem["ready"]
    BY <1>4, <1>8, <1>12
  <2> QED
    BY <1>6, <2>1, <2>2, <2>3 DEF Fichas
<1>18. Hecho
  BY <1>3, <1>9, <1>10, <1>14, <1>16, <1>17, TrasladoHecho
<1>19. EnEspera' = EnEspera
  <2>1. EnEspera' = EnEspera \cup {q}
    BY <1>9, <1>14, EsperaTraslado DEF DeEspera
  <2> QED
    BY <1>10, <2>1 DEF EnEspera
<1>20. Asignada' = Asignada /\ Finalizadas' = Finalizadas
  BY <1>3, <1>4, <1>7, AsignadaSolo DEF Finalizadas
<1> QED
  BY <1>18, <1>19, <1>20 DEF CicloQuieto

\* comenzarAging and the post; the thread it starts takes no query.
LEMMA ReadyPublicaLugar ==
  ASSUME Ubicadas, ReadyPublica
  PROVE  Hecho /\ CicloQuieto
<1> USE HilosTipo
<1>1. PICK q : q = hilo[Ready].actual
  OBVIOUS
<1>2. /\ hilo[Ready].pc = "comenzarAging" /\ colas' = colas /\ sem' = [sem EXCEPT !["ready"] = @ + 1]
      /\ \E si \in BOOLEAN :
           /\ hilo' = IF si THEN [[hilo EXCEPT ![Ready] = Inicial(Ready)] EXCEPT ![Aging(q)].pc = "condicion"]
                      ELSE [hilo EXCEPT ![Ready] = Inicial(Ready)]
           /\ qm' = [qm EXCEPT ![q].agingIniciado = @ \/ si]
      /\ avisos' = avisos /\ socketQC' = socketQC
  <2>1. DebeEnvejecer(q) \in BOOLEAN
    BY MasterAssumption DEF DebeEnvejecer
  <2> QED
    BY <1>1, <2>1 DEF ReadyPublica, varsCanales
<1>3. PICK si \in BOOLEAN :
           /\ hilo' = IF si THEN [[hilo EXCEPT ![Ready] = Inicial(Ready)] EXCEPT ![Aging(q)].pc = "condicion"]
                      ELSE [hilo EXCEPT ![Ready] = Inicial(Ready)]
           /\ qm' = [qm EXCEPT ![q].agingIniciado = @ \/ si]
  BY <1>2
<1>4. hilo \in [Hilos -> Hilo] /\ qm \in [Queries -> Registro] /\ sem["ready"] \in Nat
      /\ sem \in [{"esperandoReady", "ready", "exit"} -> Nat]
  BY DEF Ubicadas, Tipos, MasterOK, HiloOK, QmOK, SemOK
<1>5. q \in Queries
  BY <1>1, <1>2 DEF Ubicadas, Tipos, MasterOK, HiloOK, HiloBien, SinActual
<1>6. Aging(q) # Ready /\ Aging(q) \in Hilos /\ Ready[1] = "ready" /\ Aging(q)[1] = "aging"
  BY <1>5, HilosNombres
<1>7. /\ \A g \in Hilos \ {Ready, Aging(q)} : hilo'[g] = hilo[g]
      /\ hilo'[Ready].pc = "esperar" /\ hilo'[Aging(q)].pc \in {"condicion", hilo[Aging(q)].pc}
  BY <1>3, <1>4, <1>6 DEF Inicial, Hilo
<1>8. \A w \in Workers : DeWorker(w) \in Hilos \ {Ready, Aging(q)}
  BY <1>6, HilosNombres
<1>9. \A p \in Queries : DeQuery(p) \in Hilos \ {Ready, Aging(q)}
  BY <1>6, HilosNombres
<1>10. \A p \in Queries : qm'[p].liberada = qm[p].liberada /\ qm'[p].desconectado = qm[p].desconectado
  BY <1>3, <1>4 DEF Registro
<1>11. (UnLugar /\ Ejecutores /\ Avisos)' /\ CicloQuieto
  <2>1. \A w \in Workers : MismoPapel(w)
    BY <1>7, <1>8 DEF MismoPapel, Etiqueta, Suya
  <2>2. \A p \in Queries : MismaQuery(p)
    BY <1>2, <1>7, <1>9, <1>10 DEF MismaQuery, Conectada, SeFue, Ubicadas, Avisos
  <2>3. \A c \in Colas : ToSet(colas'[c]) = ToSet(colas[c]) /\ IsInjective(colas'[c])
    BY <1>2 DEF Ubicadas, UnLugar
  <2> QED
    BY <1>2, <2>1, <2>2, <2>3, Neutro DEF Ubicadas
<1>12. Papeles'
  <2>1. \A w \in Workers : Etiqueta(w)' \in EtiquetasWorker
    BY <1>7, <1>8 DEF Etiqueta, Ubicadas, Papeles
  <2>2. \A g \in Hilos : hilo'[g].pc \in {"esperar", "condicion", hilo[g].pc}
    BY <1>7
  <2>3. {"esperar", "condicion"} \cap (Mano \cup DeAbandono) = {}
    BY DEF Mano, DeAbandono
  <2>4. hilo'[Exit] = hilo[Exit]
    BY <1>6, <1>7, HilosNombres
  <2>5. hilo[Exit].pc = "cerrar" => qm'[hilo[Exit].actual].liberada # "no"
    <3>1. hilo[Exit].pc = "cerrar" => hilo[Exit].actual \in Queries
      BY DEF Ubicadas, Tipos, MasterOK, HiloOK, HiloBien, SinActual
    <3> QED
      BY <1>10, <3>1 DEF Ubicadas, Papeles
  <2> QED
    BY <2>1, <2>2, <2>3, <2>4, <2>5 DEF Ubicadas, Papeles
<1>13. Fichas'
  <2>1. Uno(ReadyTrae) = 1 /\ Uno(ReadyTrae)' = 0
    BY <1>2, <1>7 DEF Uno, ReadyTrae
  <2>2. sem'["ready"] = sem["ready"] + 1
    BY <1>2, <1>4
  <2> QED
    BY <1>2, <1>4, <2>1, <2>2 DEF Ubicadas, Fichas
<1> QED
  BY <1>11, <1>12, <1>13 DEF Hecho

-----------------------------------------------------------------------------
(* Thread exitStatus and the aging threads.                                *)

\* A thread that is not of a Worker leaves the Worker threads alone.
LEMMA WorkersQuietos ==
  ASSUME NEW h \in Hilos, h[1] # "worker", SoloHilo(h)
  PROVE  \A w \in Workers : Etiqueta(w)' = Etiqueta(w) /\ Suya(w)' = Suya(w)
BY HilosNombres, OtrosWorkers

\* The query exitStatus frees was in colaExit and is in no place after it.
LEMMA ExitLiberaLugar ==
  ASSUME Ubicadas, ExitLibera
  PROVE  Hecho /\ CicloQuieto
<1> USE HilosTipo
<1>1. PICK q : q = Head(colas["exit"])
  OBVIOUS
<1>2. /\ hilo[Exit].pc = "esperar" /\ colas["exit"] # <<>>
      /\ sem' = [sem EXCEPT !["exit"] = @ - 1] /\ colas' = [colas EXCEPT !["exit"] = Tail(@)]
      /\ qm' = [qm EXCEPT ![q].liberada = "query"]
      /\ hilo' = [hilo EXCEPT ![Exit].pc = "cerrar", ![Exit].actual = q]
      /\ avisos' = avisos /\ socketQC' = socketQC
  BY <1>1 DEF ExitLibera, varsCanales
<1>3. /\ hilo \in [Hilos -> Hilo] /\ qm \in [Queries -> Registro] /\ colas \in [Colas -> Seq(Queries)]
      /\ sem \in [{"esperandoReady", "ready", "exit"} -> Nat] /\ "exit" \in Colas
      /\ colas["exit"] \in Seq(Queries) /\ IsInjective(colas["exit"])
  BY DEF Ubicadas, UnLugar, Tipos, MasterOK, HiloOK, QmOK, SemOK, ColasOK, Colas
<1>4. SoloHilo(Exit) /\ hilo'[Exit].pc = "cerrar" /\ hilo'[Exit].actual = q
  BY <1>2, <1>3 DEF SoloHilo, Hilo
<1>5. Exit[1] = "exit" /\ \A w \in Workers : Etiqueta(w)' = Etiqueta(w) /\ Suya(w)' = Suya(w)
  BY <1>4, HilosNombres, WorkersQuietos
<1>6. \A p \in Queries : hilo'[DeQuery(p)] = hilo[DeQuery(p)]
  BY <1>4, HilosNombres DEF SoloHilo
<1>7. colas'["exit"] = Tail(colas["exit"]) /\ \A c \in Colas \ {"exit"} : colas'[c] = colas[c]
  BY <1>2, <1>3
<1>8. /\ q \in Queries /\ q \in ToSet(colas["exit"])
      /\ ToSet(colas'["exit"]) = ToSet(colas["exit"]) \ {q} /\ IsInjective(colas'["exit"])
  <2>1. Head(colas["exit"]) \in Queries
    BY <1>2, <1>3, CabezaTipo
  <2>2. /\ q \in ToSet(colas["exit"]) /\ ToSet(Tail(colas["exit"])) = ToSet(colas["exit"]) \ {q}
        /\ IsInjective(Tail(colas["exit"]))
    BY <1>1, <1>2, <1>3, TailConjunto
  <2> QED
    BY <1>1, <1>7, <2>1, <2>2
<1>9. Avisada(q)
  BY <1>8 DEF Ubicadas, Avisos
<1>10. /\ qm'[q].liberada = "query"
       /\ \A p \in Queries \ {q} : qm'[p].liberada = qm[p].liberada
       /\ \A p \in Queries : qm'[p].desconectado = qm[p].desconectado
  BY <1>2, <1>3, <1>8 DEF Registro
<1>11. UnLugar'
  <2>1. EnCola("exit") \in Lugares
    BY <1>3, LugarForma
  <2>2. \A l \in Lugares : Contenido(l)' = IF l = EnCola("exit") THEN Contenido(l) \ {q} ELSE Contenido(l)
    <3>1. Contenido(EnCola("exit"))' = Contenido(EnCola("exit")) \ {q}
      BY <1>8, LugarContenido
    <3>2. \A l \in Lugares \ {EnCola("exit"), EnCola("exit")} : Contenido(l)' = Contenido(l)
      <4>1. \A c \in Colas : EnCola(c) \notin {EnCola("exit"), EnCola("exit")} => colas'[c] = colas[c]
        BY <1>7
      <4>2. \A w \in Workers : Exit # DeWorker(w)
        BY HilosNombres
      <4> QED
        BY <1>4, <4>1, <4>2, OtrosLugares
    <3> QED
      BY <3>1, <3>2
  <2>3. \A l \in Lugares : l # EnCola("exit") => q \notin Contenido(l)
    BY <1>8, <2>1, LugarContenido DEF Ubicadas, UnLugar
  <2>4. \A k, l \in Lugares : k # l => Contenido(k)' \cap Contenido(l)' = {}
    BY <2>2 DEF Ubicadas, UnLugar
  <2>5. \A c \in Colas : IsInjective(colas'[c])
    BY <1>7, <1>8 DEF Ubicadas, UnLugar
  <2>6. ASSUME NEW p \in Queries
        PROVE  (\E l \in Lugares : p \in Contenido(l)') <=> Conectada(p)' /\ qm'[p].liberada = "no"
    <3>1. CASE p = q
      BY <1>10, <2>2, <2>3, <3>1
    <3>2. CASE p # q
      <4>1. \A l \in Lugares : p \in Contenido(l)' <=> p \in Contenido(l)
        BY <2>2, <3>2
      <4>2. Conectada(p)' <=> Conectada(p)
        BY <1>6 DEF Conectada
      <4> QED
        BY <1>10, <3>2, <4>1, <4>2 DEF Ubicadas, UnLugar
    <3> QED
      BY <3>1, <3>2
  <2> QED
    BY <2>4, <2>5, <2>6 DEF UnLugar
<1>12. Ejecutores'
  BY <1>5, <1>7 DEF Ubicadas, Ejecutores, Colas
<1>13. Avisos'
  <2>1. \A p \in Queries : Avisada(p)' <=> Avisada(p)
    BY <1>2 DEF Avisada
  <2>2. /\ \A c \in {"new", "desalojo", "ready"} : \A p \in ToSet(colas'[c]) : ~(avisos'[p] > 0)
        /\ \A p \in ToSet(colas'["exit"]) : avisos'[p] > 0
    BY <1>2, <1>7, <1>8 DEF Ubicadas, Avisos, Avisada, Colas
  <2>3. /\ \A w \in Workers : Etiqueta(w)' \in Corriendo => ~(avisos'[Suya(w)'] > 0)
        /\ \A w \in Workers :
             Etiqueta(w)' \in {"sacarExecute", "agregarExit"} => avisos'[Suya(w)'] > 0
    BY <1>2, <1>5 DEF Ubicadas, Avisos, Avisada
  <2>4. \A p \in Queries : (SeFue(p)' => Avisada(p)') /\ (Avisada(p)' => Conectada(p)')
    <3> SUFFICES ASSUME NEW p \in Queries PROVE (SeFue(p)' => Avisada(p)') /\ (Avisada(p)' => Conectada(p)')
      OBVIOUS
    <3>1. (SeFue(p) => Avisada(p)) /\ (Avisada(p) => Conectada(p))
      BY DEF Ubicadas, Avisos, SeFue
    <3>2. Conectada(p)' <=> Conectada(p)
      BY <1>6 DEF Conectada
    <3>3. SeFue(p)' => SeFue(p) \/ p = q
      BY <1>2, <1>6, <1>10 DEF SeFue
    <3> QED
      BY <1>9, <2>1, <3>1, <3>2, <3>3
  <2> QED
    BY <2>2, <2>3, <2>4 DEF Avisos, Avisada, SeFue
<1>14. Papeles'
  <2>1. hilo'[Exit].pc = "cerrar" => qm'[hilo'[Exit].actual].liberada # "no"
    BY <1>4, <1>10
  <2>2. \A g \in Hilos : hilo'[g].pc \in {"cerrar", hilo[g].pc}
    BY <1>4 DEF SoloHilo
  <2>3. "cerrar" \notin Mano \cup DeAbandono
    BY DEF Mano, DeAbandono
  <2> QED
    BY <1>5, <2>1, <2>2, <2>3 DEF Ubicadas, Papeles
<1>15. Fichas'
  <2>1. colas'["ready"] = colas["ready"] /\ sem'["ready"] = sem["ready"]
    BY <1>2, <1>3, <1>7 DEF Colas
  <2>2. hilo'[Ready] = hilo[Ready]
    BY <1>4, HilosNombres DEF SoloHilo
  <2> QED
    BY <2>1, <2>2, FichasIgual DEF Ubicadas, ReadyTrae
<1>16. CicloQuieto
  <2>1. EnEspera' = EnEspera /\ Finalizadas' = Finalizadas
    BY <1>2, <1>7 DEF EnEspera, Finalizadas, Colas
  <2>2. Asignada' = Asignada
    BY <1>4, <1>5, AsignadaSolo
  <2> QED
    BY <2>1, <2>2 DEF CicloQuieto
<1> QED
  BY <1>11, <1>12, <1>13, <1>14, <1>15, <1>16 DEF Hecho

\* What exitStatus frees last was freed in part.
LEMMA ExitCierraLugar ==
  ASSUME Ubicadas, ExitCierra
  PROVE  Hecho /\ CicloQuieto
<1> USE HilosTipo
<1>1. PICK q : q = hilo[Exit].actual
  OBVIOUS
<1>2. /\ Va(Exit, "cerrar", "esperar") /\ qm' = [qm EXCEPT ![q]["liberada"] = "todo"]
      /\ UNCHANGED <<colas, sem, varsWorkers, varsCanales>>
  BY <1>1 DEF ExitCierra, PonCampo
<1>3. SoloHilo(Exit) /\ hilo[Exit].pc = "cerrar" /\ hilo'[Exit].pc = "esperar"
  BY <1>2, VaSolo DEF Ubicadas, Tipos, MasterOK
<1>4. q \in Queries /\ qm \in [Queries -> Registro] /\ qm[q].liberada # "no"
  BY <1>1, <1>3 DEF Ubicadas, Papeles, Tipos, MasterOK, HiloOK, HiloBien, SinActual, QmOK
<1>5. \A p \in Queries :
        /\ qm'[p].liberada = "no" <=> qm[p].liberada = "no"
        /\ qm'[p].desconectado = qm[p].desconectado
        /\ qm'[p].liberada # "no" => qm[p].liberada # "no"
  BY <1>2, <1>4 DEF Registro
<1>6. colas' = colas /\ sem' = sem /\ avisos' = avisos /\ socketQC' = socketQC
  BY <1>2 DEF varsCanales
<1>7. (UnLugar /\ Ejecutores /\ Avisos)' /\ CicloQuieto
  <2>1. \A w \in Workers : MismoPapel(w)
    BY <1>3, HilosNombres, WorkersQuietos DEF MismoPapel
  <2>2. \A p \in Queries : MismaQuery(p)
    <3>1. \A p \in Queries : hilo'[DeQuery(p)] = hilo[DeQuery(p)]
      BY <1>3, HilosNombres DEF SoloHilo
    <3> QED
      BY <1>5, <1>6, <3>1 DEF MismaQuery, Conectada, SeFue, Ubicadas, Avisos
  <2>3. \A c \in Colas : ToSet(colas'[c]) = ToSet(colas[c]) /\ IsInjective(colas'[c])
    BY <1>6 DEF Ubicadas, UnLugar
  <2> QED
    BY <1>6, <2>1, <2>2, <2>3, Neutro DEF Ubicadas
<1>8. Papeles'
  <2>1. Exit[1] = "exit" /\ "esperar" \notin Mano \cup DeAbandono
    BY HilosNombres DEF Mano, DeAbandono
  <2> QED
    BY <1>3, <1>5, <2>1, PapelesHilo DEF Ubicadas, Tipos, MasterOK
<1>9. Fichas'
  <2>1. hilo'[Ready] = hilo[Ready]
    BY <1>3, HilosNombres DEF SoloHilo
  <2> QED
    BY <1>6, <2>1, FichasIgual DEF Ubicadas, ReadyTrae
<1> QED
  BY <1>7, <1>8, <1>9 DEF Hecho

\* Sorting listaReady moves nobody out of it.
LEMMA AgingOrdenaLugar ==
  ASSUME Ubicadas, NEW q \in Queries, AgingOrdena(q)
  PROVE  Hecho /\ CicloQuieto
<1> USE HilosTipo
<1>1. PICK h \in Hilos : h = Aging(q)
  OBVIOUS
<1>2. PonCola(h, "ordenar", "hayExecute", "ready", Ordenaciones(colas["ready"])) /\ "ready" \in Colas
  BY <1>1 DEF AgingOrdena, Colas
<1>3. h[1] = "aging" /\ h # Ready /\ h # Exit /\ \A p : h # DeQuery(p)
  BY <1>1, HilosNombres
<1>4. /\ SoloHilo(h) /\ hilo'[h].pc = "hayExecute"
      /\ colas'["ready"] \in Ordenaciones(colas["ready"])
      /\ \A x \in Colas \ {"ready"} : colas'[x] = colas[x]
      /\ sem' = sem /\ qm' = qm /\ avisos' = avisos /\ socketQC' = socketQC
  BY <1>2, PonColaSolo, SMTT(30)
<1>5. colas["ready"] \in Seq(Queries) /\ IsInjective(colas["ready"])
  BY <1>2 DEF Ubicadas, UnLugar, Tipos, MasterOK, ColasOK
<1>6. /\ Len(colas'["ready"]) = Len(colas["ready"]) /\ ToSet(colas'["ready"]) = ToSet(colas["ready"])
      /\ IsInjective(colas'["ready"])
  BY <1>4, <1>5, OrdenacionesConjunto
<1>7. (UnLugar /\ Ejecutores /\ Avisos)' /\ CicloQuieto
  <2>1. \A w \in Workers : MismoPapel(w)
    BY <1>3, <1>4, WorkersQuietos DEF MismoPapel
  <2>2. \A p \in Queries : MismaQuery(p)
    <3>1. \A p \in Queries : hilo'[DeQuery(p)] = hilo[DeQuery(p)]
      BY <1>3, <1>4 DEF SoloHilo
    <3> QED
      BY <1>4, <3>1 DEF MismaQuery, Conectada, SeFue, Ubicadas, Avisos
  <2>3. \A c \in Colas : ToSet(colas'[c]) = ToSet(colas[c]) /\ IsInjective(colas'[c])
    BY <1>4, <1>6 DEF Ubicadas, UnLugar
  <2> QED
    BY <1>4, <2>1, <2>2, <2>3, Neutro DEF Ubicadas
<1>8. Papeles'
  <2>1. "hayExecute" \notin Mano \cup DeAbandono
    BY DEF Mano, DeAbandono
  <2> QED
    BY <1>3, <1>4, <2>1, PapelesHilo DEF Ubicadas, Tipos, MasterOK
<1>9. Fichas'
  <2>1. hilo'[Ready] = hilo[Ready]
    BY <1>3, <1>4 DEF SoloHilo
  <2> QED
    BY <1>4, <1>6, <2>1, FichasIgual DEF Ubicadas, ReadyTrae
<1> QED
  BY <1>7, <1>8, <1>9 DEF Hecho

-----------------------------------------------------------------------------
(* A query ends, and one arrives.                                          *)

\* A query that a Worker thread has is in the place of that thread.
LEMMA DondeEsta ==
  ASSUME Ubicadas, NEW w \in Workers, Etiqueta(w) \in Mano \cup ConExecute
  PROVE  \E l \in Lugares :
           /\ Suya(w) \in Contenido(l)
           /\ l = IF Etiqueta(w) \in Mano THEN EnLaMano(w) ELSE EnCola("execute")
<1>1. EnLaMano(w) \in Lugares /\ EnCola("execute") \in Lugares
  BY LugarForma DEF Colas
<1>2. CASE Etiqueta(w) \in Mano
  BY <1>1, <1>2, LugarContenido
<1>3. CASE Etiqueta(w) \notin Mano
  <2>1. Suya(w) \in ToSet(colas["execute"])
    BY <1>3 DEF Ubicadas, Ejecutores
  <2> QED
    BY <1>1, <1>3, <2>1, LugarContenido
<1> QED
  BY <1>2, <1>3

\* So two Worker threads have different queries.
LEMMA DosWorkers ==
  ASSUME Ubicadas, NEW u \in Workers, NEW w \in Workers, u # w,
         Etiqueta(u) \in Mano \cup ConExecute, Etiqueta(w) \in Mano \cup ConExecute
  PROVE  Suya(u) # Suya(w)
<1>1. CASE Etiqueta(u) \in Mano \/ Etiqueta(w) \in Mano
  <2>1. PICK k \in Lugares :
          Suya(u) \in Contenido(k) /\ k = IF Etiqueta(u) \in Mano THEN EnLaMano(u) ELSE EnCola("execute")
    BY DondeEsta
  <2>2. PICK l \in Lugares :
          Suya(w) \in Contenido(l) /\ l = IF Etiqueta(w) \in Mano THEN EnLaMano(w) ELSE EnCola("execute")
    BY DondeEsta
  <2>3. k # l
    BY <1>1, <2>1, <2>2, LugarForma
  <2> QED
    BY <2>1, <2>2, <2>3 DEF Ubicadas, UnLugar
<1>2. CASE Etiqueta(u) \notin Mano /\ Etiqueta(w) \notin Mano
  BY <1>2 DEF Ubicadas, Ejecutores
<1> QED
  BY <1>1, <1>2

\* The Query Control of the query w has is there, and is told of the end.
LEMMA AvisaFinLugar ==
  ASSUME Ubicadas, NEW w \in Workers, AvisaFin(w)
  PROVE  Hecho /\ PasoDeCiclo
<1> USE HilosTipo
<1>1. PICK h \in Hilos : h = DeWorker(w)
  OBVIOUS
<1>2. PICK q : q = Suya(w)
  OBVIOUS
<1>3. /\ Va(h, "avisar", "sacarExecute") /\ EnviaAQC(q, "FIN")
      /\ UNCHANGED <<colas, sem, varsWorkers, qm>>
  BY <1>1, <1>2 DEF AvisaFin
<1>4. /\ SoloHilo(h) /\ hilo[h].pc = "avisar" /\ hilo'[h].pc = "sacarExecute"
      /\ hilo'[h].actual = hilo[h].actual
  BY <1>3, VaSolo DEF Ubicadas, Tipos, MasterOK
<1>5. h[1] = "worker" /\ h[2] = w /\ h # Ready /\ h # Exit /\ \A p : h # DeQuery(p)
  BY <1>1, HilosNombres
<1>6. Etiqueta(w) = "avisar" /\ Etiqueta(w)' = "sacarExecute" /\ Suya(w)' = q
  BY <1>1, <1>2, <1>4 DEF Etiqueta, Suya
<1>7. /\ Etiqueta(w) \in ConExecute /\ Etiqueta(w) \in Corriendo /\ Etiqueta(w) \notin Mano
      /\ Etiqueta(w)' \in ConExecute /\ Etiqueta(w)' \notin Corriendo /\ Etiqueta(w)' \notin Mano
      /\ Etiqueta(w)' \in EtiquetasWorker
      /\ Corriendo \subseteq Mano \cup ConExecute
  BY <1>6 DEF ConExecute, Corriendo, Mano, EtiquetasWorker
<1>8. q \in Queries /\ ~Avisada(q) /\ q \in ToSet(colas["execute"])
  BY <1>2, <1>7, SuyaTipo DEF Ubicadas, Avisos, Ejecutores
<1>9. socketQC[q] = "abierto"
  BY <1>8 DEF Ubicadas, Avisos
<1>10. avisos \in [Queries -> Nat] /\ socketQC \in [Queries -> EstadoSocket]
  BY DEF Ubicadas, Tipos, TypeOKCanales
<1>11. /\ colas' = colas /\ sem' = sem /\ qm' = qm /\ socketQC' = socketQC
       /\ avisos' = [avisos EXCEPT ![q] = @ + 1]
  <2>1. socketQC' = [socketQC EXCEPT ![q] = "abierto"]
    BY <1>3, <1>9 DEF EnviaAQC, TrasEnviar
  <2>2. socketQC' = socketQC
    BY <1>9, <1>10, <2>1
  <2> QED
    BY <1>3, <1>9, <2>2 DEF EnviaAQC
<1>12. \A p \in Queries : avisos'[p] > 0 <=> avisos[p] > 0 \/ p = q
  BY <1>10, <1>11
<1>13. \A u \in Workers : u # w => Etiqueta(u)' = Etiqueta(u) /\ Suya(u)' = Suya(u)
  <2>1. \A u \in Workers : u # w => h # DeWorker(u)
    BY <1>1 DEF DeWorker
  <2> QED
    BY <1>4, <2>1, OtrosWorkers
<1>14. \A p \in Queries : hilo'[DeQuery(p)] = hilo[DeQuery(p)]
  BY <1>4, <1>5 DEF SoloHilo
<1>15. UnLugar'
  <2>1. \A l \in Lugares : Contenido(l)' = Contenido(l)
    <3> SUFFICES ASSUME NEW l \in Lugares PROVE Contenido(l)' = Contenido(l)
      OBVIOUS
    <3>1. CASE \E c \in Colas : l = EnCola(c)
      BY <1>11, <3>1, LugarContenido
    <3>2. CASE \E u \in Workers : l = EnLaMano(u)
      BY <1>7, <1>13, <3>2, LugarContenido
    <3> QED
      BY <3>1, <3>2, LugarForma
  <2>2. \A p \in Queries : Conectada(p)' <=> Conectada(p)
    BY <1>14 DEF Conectada
  <2>3. \A p \in Queries : (\E l \in Lugares : p \in Contenido(l)') <=> Conectada(p)' /\ qm'[p].liberada = "no"
    BY <1>11, <2>1, <2>2 DEF Ubicadas, UnLugar
  <2>4. \A k, l \in Lugares : k # l => Contenido(k)' \cap Contenido(l)' = {}
    BY <2>1 DEF Ubicadas, UnLugar
  <2> QED
    BY <1>11, <2>3, <2>4 DEF Ubicadas, UnLugar
<1>16. Ejecutores'
  <2>1. \A u \in Workers : Suya(u)' = Suya(u) /\ (Etiqueta(u)' \in ConExecute <=> Etiqueta(u) \in ConExecute)
    BY <1>2, <1>6, <1>7, <1>13
  <2> QED
    BY <1>11, <2>1 DEF Ubicadas, Ejecutores
<1>17. Avisos'
  <2>1. \A c \in {"new", "desalojo", "ready"} : q \notin ToSet(colas[c])
    <3>1. EnCola("execute") \in Lugares /\ q \in Contenido(EnCola("execute"))
      BY <1>8, LugarForma, LugarContenido DEF Colas
    <3> SUFFICES ASSUME NEW c \in {"new", "desalojo", "ready"} PROVE q \notin ToSet(colas[c])
      OBVIOUS
    <3>2. EnCola(c) \in Lugares /\ EnCola(c) # EnCola("execute")
      BY LugarForma DEF Colas
    <3>3. Contenido(EnCola(c)) \cap Contenido(EnCola("execute")) = {}
      BY <3>1, <3>2 DEF Ubicadas, UnLugar
    <3> QED
      BY <3>1, <3>3, LugarContenido
  <2>2. /\ \A c \in {"new", "desalojo", "ready"} : \A p \in ToSet(colas'[c]) : ~(avisos'[p] > 0)
        /\ \A p \in ToSet(colas'["exit"]) : avisos'[p] > 0
    <3>1. \A c \in Colas : ToSet(colas[c]) \subseteq Queries
      BY DEF Ubicadas, Tipos, MasterOK, ColasOK, ToSet
    <3> QED
      BY <1>11, <1>12, <2>1, <3>1 DEF Ubicadas, Avisos, Avisada, Colas
  <2>3. ASSUME NEW u \in Workers
        PROVE  /\ Etiqueta(u)' \in Corriendo => ~(avisos'[Suya(u)'] > 0)
               /\ Etiqueta(u)' \in {"sacarExecute", "agregarExit"} => avisos'[Suya(u)'] > 0
    <3>1. CASE u = w
      BY <1>6, <1>7, <1>8, <1>12, <3>1
    <3>2. CASE u # w
      <4>1. Etiqueta(u)' = Etiqueta(u) /\ Suya(u)' = Suya(u)
        BY <1>13, <3>2
      <4>2. Etiqueta(u) \in Mano \cup ConExecute => Suya(u) # q /\ Suya(u) \in Queries
        BY <1>2, <1>7, <3>2, DosWorkers, SuyaTipo
      <4>3. {"sacarExecute", "agregarExit"} \subseteq Mano \cup ConExecute
        BY DEF Mano, ConExecute
      <4> QED
        BY <1>7, <1>12, <4>1, <4>2, <4>3 DEF Ubicadas, Avisos, Avisada
    <3> QED
      BY <3>1, <3>2
  <2>4. Conectada(q)
    <3>1. EnCola("execute") \in Lugares /\ q \in Contenido(EnCola("execute"))
      BY <1>8, LugarForma, LugarContenido DEF Colas
    <3> QED
      BY <1>8, <3>1 DEF Ubicadas, UnLugar
  <2>5. \A p \in Queries : (SeFue(p)' => avisos'[p] > 0) /\ (avisos'[p] > 0 => Conectada(p)')
    BY <1>11, <1>12, <1>14, <2>4 DEF Ubicadas, Avisos, Avisada, SeFue, Conectada
  <2> QED
    BY <2>2, <2>3, <2>5 DEF Avisos, Avisada, SeFue
<1>18. Papeles'
  <2>1. "sacarExecute" \notin DeAbandono
    BY DEF DeAbandono
  <2> QED
    BY <1>4, <1>5, <1>6, <1>7, <1>11, <2>1, PapelesHilo DEF Ubicadas, Tipos, MasterOK
<1>19. Fichas'
  <2>1. hilo'[Ready] = hilo[Ready]
    BY <1>4, <1>5 DEF SoloHilo
  <2> QED
    BY <1>11, <2>1, FichasIgual DEF Ubicadas, ReadyTrae
<1>20. PasoDeCiclo
  <2>1. Asignada[w] = q
    BY <1>2, <1>7 DEF Asignada, Etiqueta
  <2>2. Asignada' = [Asignada EXCEPT ![w] = Ninguna]
    <3>1. hilo'[h].pc \notin Corriendo
      BY <1>4 DEF Corriendo
    <3> QED
      BY <1>4, <1>5, <3>1, AsignadaSolo
  <2>3. EnEspera' = EnEspera /\ Finalizadas' = Finalizadas \cup {q} /\ q \notin Finalizadas
    BY <1>8, <1>11, <1>12 DEF EnEspera, Finalizadas, Avisada
  <2> QED
    BY <1>8, <2>1, <2>2, <2>3, EsFinaliza, CanalesAssumption
<1> QED
  BY <1>15, <1>16, <1>17, <1>18, <1>19, <1>20 DEF Hecho

\* A query that arrives was in no place, and enters colaNew.
LEMMA ConectaQueryLugar ==
  ASSUME Ubicadas, NEW q \in Queries, ConectaQuery(q)
  PROVE  Hecho /\ PasoDeCiclo
<1> USE HilosTipo
<1>1. PICK h \in Hilos : h = DeQuery(q)
  OBVIOUS
<1>2. h[1] = "query" /\ h[2] = q /\ h # Ready /\ h # Exit /\ \A p : p # q => h # DeQuery(p)
  BY <1>1, HilosNombres
<1>3. /\ Va(h, "conectar", "escuchar") /\ \E p \in Pedidas : qm' = [qm EXCEPT ![q].prioridad = p]
      /\ colas' = [colas EXCEPT !["new"] = Append(@, q)]
      /\ sem' = [sem EXCEPT !["esperandoReady"] = @ + 1]
      /\ avisos' = avisos /\ socketQC' = socketQC
  BY <1>1 DEF ConectaQuery, varsCanales
<1>4. /\ SoloHilo(h) /\ hilo[h].pc = "conectar" /\ hilo'[h].pc = "escuchar"
  BY <1>3, VaSolo DEF Ubicadas, Tipos, MasterOK
<1>5. /\ colas \in [Colas -> Seq(Queries)] /\ "new" \in Colas /\ qm \in [Queries -> Registro]
      /\ colas["new"] \in Seq(Queries) /\ IsInjective(colas["new"])
      /\ sem \in [{"esperandoReady", "ready", "exit"} -> Nat]
  BY DEF Ubicadas, UnLugar, Tipos, MasterOK, ColasOK, QmOK, SemOK, Colas
<1>6. /\ \A p \in Queries : qm'[p].liberada = qm[p].liberada /\ qm'[p].desconectado = qm[p].desconectado
  BY <1>3, <1>5 DEF Registro
<1>7. colas'["new"] = Append(colas["new"], q) /\ \A c \in Colas \ {"new"} : colas'[c] = colas[c]
  BY <1>3, <1>5
<1>8. ~Conectada(q) /\ ~Avisada(q) /\ qm[q].liberada = "no"
  BY <1>1, <1>4 DEF Ubicadas, Avisos, Conectada
<1>9. \A l \in Lugares : q \notin Contenido(l)
  BY <1>8 DEF Ubicadas, UnLugar
<1>10. EnCola("new") \in Lugares
  BY <1>5, LugarForma
<1>11. /\ ToSet(colas'["new"]) = ToSet(colas["new"]) \cup {q} /\ IsInjective(colas'["new"])
  <2>1. q \notin ToSet(colas["new"])
    BY <1>9, <1>10, LugarContenido
  <2> QED
    BY <1>5, <1>7, <2>1, AppendConjunto
<1>12. \A w \in Workers : Etiqueta(w)' = Etiqueta(w) /\ Suya(w)' = Suya(w)
  BY <1>2, <1>4, WorkersQuietos
<1>13. \A l \in Lugares : Contenido(l)' = IF l = EnCola("new") THEN Contenido(l) \cup {q} ELSE Contenido(l)
  <2>1. \A l \in Lugares \ {EnCola("new"), EnCola("new")} : Contenido(l)' = Contenido(l)
    <3>1. \A c \in Colas : EnCola(c) \notin {EnCola("new"), EnCola("new")} => colas'[c] = colas[c]
      BY <1>7
    <3>2. \A w \in Workers : h # DeWorker(w)
      BY <1>2, HilosNombres
    <3> QED
      BY <1>4, <3>1, <3>2, OtrosLugares
  <2> QED
    BY <1>11, <2>1, LugarContenido
<1>14. /\ Conectada(q)' /\ \A p \in Queries : p # q => hilo'[DeQuery(p)] = hilo[DeQuery(p)]
  BY <1>1, <1>2, <1>4 DEF Conectada, SoloHilo
<1>15. UnLugar'
  <2>1. \A k, l \in Lugares : k # l => Contenido(k)' \cap Contenido(l)' = {}
    BY <1>9, <1>13 DEF Ubicadas, UnLugar
  <2>2. \A c \in Colas : IsInjective(colas'[c])
    BY <1>7, <1>11 DEF Ubicadas, UnLugar
  <2>3. ASSUME NEW p \in Queries
        PROVE  (\E l \in Lugares : p \in Contenido(l)') <=> Conectada(p)' /\ qm'[p].liberada = "no"
    <3>1. CASE p = q
      <4>1. q \in Contenido(EnCola("new"))'
        BY <1>10, <1>13
      <4> QED
        BY <1>6, <1>8, <1>10, <1>14, <3>1, <4>1
    <3>2. CASE p # q
      <4>1. \A l \in Lugares : p \in Contenido(l)' <=> p \in Contenido(l)
        BY <1>13, <3>2
      <4>2. Conectada(p)' <=> Conectada(p)
        BY <1>14, <3>2 DEF Conectada
      <4> QED
        BY <1>6, <3>2, <4>1, <4>2 DEF Ubicadas, UnLugar
    <3> QED
      BY <3>1, <3>2
  <2> QED
    BY <2>1, <2>2, <2>3 DEF UnLugar
<1>16. Ejecutores'
  BY <1>7, <1>12 DEF Ubicadas, Ejecutores, Colas
<1>17. Avisos'
  <2>1. /\ \A c \in {"new", "desalojo", "ready"} : \A p \in ToSet(colas'[c]) : ~(avisos'[p] > 0)
        /\ \A p \in ToSet(colas'["exit"]) : avisos'[p] > 0
    BY <1>3, <1>7, <1>8, <1>11 DEF Ubicadas, Avisos, Avisada, Colas
  <2>2. /\ \A w \in Workers : Etiqueta(w)' \in Corriendo => ~(avisos'[Suya(w)'] > 0)
        /\ \A w \in Workers :
             Etiqueta(w)' \in {"sacarExecute", "agregarExit"} => avisos'[Suya(w)'] > 0
    BY <1>3, <1>12 DEF Ubicadas, Avisos, Avisada
  <2>3. ASSUME NEW p \in Queries
        PROVE  (SeFue(p)' => avisos'[p] > 0) /\ (avisos'[p] > 0 => Conectada(p)')
    <3>1. CASE p = q
      <4>1. ~SeFue(q)
        BY <1>8 DEF Ubicadas, Avisos, SeFue
      <4>2. ~SeFue(q)'
        BY <1>1, <1>3, <1>4, <1>6, <4>1 DEF SeFue
      <4> QED
        BY <1>14, <3>1, <4>2
    <3>2. CASE p # q
      BY <1>3, <1>6, <1>14, <3>2 DEF Ubicadas, Avisos, Avisada, SeFue, Conectada
    <3> QED
      BY <3>1, <3>2
  <2> QED
    BY <2>1, <2>2, <2>3 DEF Avisos, Avisada, SeFue
<1>18. Papeles'
  <2>1. "escuchar" \notin Mano \cup DeAbandono
    BY DEF Mano, DeAbandono
  <2> QED
    BY <1>2, <1>4, <1>6, <2>1, PapelesHilo DEF Ubicadas, Tipos, MasterOK
<1>19. Fichas'
  <2>1. hilo'[Ready] = hilo[Ready]
    BY <1>2, <1>4 DEF SoloHilo
  <2>2. colas'["ready"] = colas["ready"] /\ sem'["ready"] = sem["ready"]
    BY <1>3, <1>5, <1>7 DEF Colas
  <2> QED
    BY <2>1, <2>2, FichasIgual DEF Ubicadas, ReadyTrae
<1>20. PasoDeCiclo
  <2>1. EnEspera' = EnEspera \cup {q}
    BY <1>7, <1>11 DEF EnEspera, Colas
  <2>2. Asignada' = Asignada /\ Finalizadas' = Finalizadas
    BY <1>2, <1>3, <1>4, AsignadaSolo DEF Finalizadas
  <2>3. q \notin EnEspera \cup Finalizadas
    BY <1>8, <1>9, LugarForma, LugarContenido DEF EnEspera, Finalizadas, Avisada, Colas
  <2>4. ASSUME NEW w \in Workers PROVE Asignada[w] # q
    <3>1. CASE Etiqueta(w) \in Corriendo
      <4>1. Etiqueta(w) \in Mano \cup ConExecute
        BY <3>1 DEF Corriendo, Mano, ConExecute
      <4>2. Suya(w) # q
        BY <1>9, <4>1, DondeEsta
      <4> QED
        BY <3>1, <4>2 DEF Asignada, Etiqueta
    <3>2. CASE Etiqueta(w) \notin Corriendo
      BY <3>2, CanalesAssumption DEF Asignada, Etiqueta
    <3> QED
      BY <3>1, <3>2
  <2> QED
    BY <2>1, <2>2, <2>3, <2>4, EsLlega
<1> QED
  BY <1>15, <1>16, <1>17, <1>18, <1>19, <1>20 DEF Hecho

-----------------------------------------------------------------------------
(* Steps that move no query: the Master's threads, one by one.             *)

\* Nothing of the queries changes.
LEMMA Quieto ==
  ASSUME Ubicadas, hilo' = hilo, colas' = colas, sem' = sem, Mismas
  PROVE  Hecho /\ CicloQuieto
<1>1. Ready \in Hilos /\ Ready[1] = "ready" /\ Ready # Exit
  BY HilosTipo, HilosNombres
<1>2. SoloHilo(Ready)
  BY DEF SoloHilo
<1>3. Inocuo(Ready)
  BY <1>1 DEF Inocuo, Tramo, Ubicadas, Papeles
<1> QED
  BY <1>1, <1>2, <1>3, NeutroHilo

\* The labels of verificarDesalojo and enviarDesalojo.
DeVerificar == {"hayExecute", "todosTienen", "ultima", "tomar", "propia", "comparar", "buscar", "marcar"}

\* No Worker thread is at one, and the query of a Query Control thread that is has ended.
LEMMA TramoVerificar ==
  ASSUME Ubicadas, NEW h \in Hilos, hilo[h].pc \in DeVerificar,
         NEW e \in DeVerificar \cup {"serializar", Retorno(h)}
  PROVE  Tramo(h, hilo[h].pc, e)
<1> DEFINE d == hilo[h].pc
<1>1. h[1] # "worker"
  <2>1. h[1] = "worker" => h[2] \in Workers /\ h = DeWorker(h[2])
    BY HilosNombres
  <2> QED
    BY <2>1 DEF Ubicadas, Papeles, Etiqueta, EtiquetasWorker, Mano, ConExecute, DeVerificar
<1>2. h[1] = "query" => Avisada(h[2])
  <2>1. h[1] = "query" => h[2] \in Queries /\ h = DeQuery(h[2])
    BY HilosNombres
  <2> QED
    BY <2>1 DEF Ubicadas, Avisos, DeVerificar
<1>3. e \in DeVerificar \cup {"serializar", "comenzarAging", "condicion", "registrar"}
  BY DEF Retorno
<1>4. /\ e \notin Mano \cup DeAbandono /\ e \notin {"conectar", "cerrar", "esperar", "sacaNew", "sacaDesalojo"}
      /\ d \notin Mano /\ d \notin {"conectar", "esperar", "sacaNew", "sacaDesalojo"}
  BY <1>3 DEF DeVerificar, Mano, DeAbandono
<1> QED
  BY <1>1, <1>2, <1>4 DEF Tramo

\* From serializar to enviar, and on.
LEMMA TramoEnviar ==
  ASSUME Ubicadas, NEW h \in Hilos, NEW e,
         \/ hilo[h].pc = "serializar" /\ e = "enviar"
         \/ hilo[h].pc = "enviar" /\ e = IF Desaloja(h) THEN Retorno(h) ELSE "recibir"
  PROVE  Tramo(h, hilo[h].pc, e)
<1> DEFINE d == hilo[h].pc
<1>1. h[1] = "query" => Avisada(h[2])
  <2>1. h[1] = "query" => h[2] \in Queries /\ h = DeQuery(h[2])
    BY HilosNombres
  <2> QED
    BY <2>1 DEF Ubicadas, Avisos
<1>2. /\ e \in {"enviar", "recibir", "comenzarAging", "condicion", "registrar"}
      /\ h[1] = "worker" => e \in {"enviar", "recibir"}
  BY DEF Retorno, Desaloja
<1>3. /\ e \notin Mano \cup DeAbandono /\ e \notin {"conectar", "cerrar", "esperar", "sacaNew", "sacaDesalojo"}
      /\ d \notin Mano /\ d \notin {"conectar", "esperar", "sacaNew", "sacaDesalojo"}
      /\ d \in ConExecute /\ d # "sacarExecute"
      /\ h[1] = "worker" => e \in EtiquetasWorker /\ e \in ConExecute /\ e # "sacarExecute"
  BY <1>2 DEF Mano, DeAbandono, ConExecute, EtiquetasWorker
<1> QED
  BY <1>1, <1>3 DEF Tramo

\* verificarDesalojo and enviarDesalojo.
LEMMA DesalojoLugar ==
  ASSUME Ubicadas, NEW h \in Hilos, PasoDesalojo(h)
  PROVE  Hecho /\ CicloQuieto
<1>1. CASE VerificaHayExecute(h)
  <2>1. Mira(h, "hayExecute", colas["execute"] # <<>>, "todosTienen", Retorno(h)) /\ hilo[h].pc = "hayExecute"
    BY <1>1 DEF VerificaHayExecute, Mira, Va
  <2>2. Tramo(h, "hayExecute", "todosTienen") /\ Tramo(h, "hayExecute", Retorno(h))
    BY <2>1, TramoVerificar DEF DeVerificar
  <2> QED
    BY <2>1, <2>2, NeutroMira
<1>2. CASE VerificaTodosTienen(h)
  <2>1. /\ Mira(h, "todosTienen", TodosLosWorkersTienenQuery, "ultima", Retorno(h))
        /\ hilo[h].pc = "todosTienen"
    BY <1>2 DEF VerificaTodosTienen, Mira, Va
  <2>2. Tramo(h, "todosTienen", "ultima") /\ Tramo(h, "todosTienen", Retorno(h))
    BY <2>1, TramoVerificar DEF DeVerificar
  <2> QED
    BY <2>1, <2>2, NeutroMira
<1>3. CASE VerificaUltima(h)
  <2>1. Anota(h, "ultima", "tomar", "numero", Len(colas["execute"]) - 1) /\ hilo[h].pc = "ultima"
    BY <1>3 DEF VerificaUltima, Anota
  <2>2. Tramo(h, "ultima", "tomar")
    BY <2>1, TramoVerificar DEF DeVerificar
  <2> QED
    BY <2>1, <2>2, NeutroAnota
<1>4. CASE VerificaToma(h)
  <2>1. Anota(h, "tomar", "propia", "victima", colas["execute"][hilo[h].numero + 1]) /\ hilo[h].pc = "tomar"
    BY <1>4 DEF VerificaToma, Anota
  <2>2. Tramo(h, "tomar", "propia")
    BY <2>1, TramoVerificar DEF DeVerificar
  <2> QED
    BY <2>1, <2>2, NeutroAnota
<1>5. CASE VerificaPropia(h)
  <2>1. Anota(h, "propia", "comparar", "numero", qm[hilo[h].actual].prioridad) /\ hilo[h].pc = "propia"
    BY <1>5 DEF VerificaPropia, Anota
  <2>2. Tramo(h, "propia", "comparar")
    BY <2>1, TramoVerificar DEF DeVerificar
  <2> QED
    BY <2>1, <2>2, NeutroAnota
<1>6. CASE VerificaCompara(h)
  <2>1. /\ hilo[h].pc = "comparar" /\ SoloHilo(h) /\ hilo'[h].pc \in {"buscar", Retorno(h)}
        /\ hilo'[h].actual = hilo[h].actual
        /\ colas' = colas /\ sem' = sem /\ Mismas
    BY <1>6 DEF VerificaCompara, SoloHilo, Mismas, varsCanales, Ubicadas, Tipos, MasterOK, HiloOK, Hilo
  <2>2. Inocuo(h)
    BY <2>1, TramoVerificar DEF DeVerificar, Inocuo
  <2> QED
    BY <2>1, <2>2, NeutroHilo
<1>7. CASE DesalojoBusca(h)
  <2>1. \E w : Anota(h, "buscar", "marcar", "destino", w) /\ hilo[h].pc = "buscar"
    BY <1>7 DEF DesalojoBusca
  <2>2. Tramo(h, "buscar", "marcar")
    BY <2>1, TramoVerificar DEF DeVerificar
  <2> QED
    BY <2>1, <2>2, NeutroAnota
<1>8. CASE DesalojoMarca(h)
  <2>1. PonCampo(h, "marcar", "serializar", hilo[h].victima, "cod", "DESALOJO") /\ hilo[h].pc = "marcar"
    BY <1>8 DEF DesalojoMarca, PonCampo, Va
  <2>2. Tramo(h, "marcar", "serializar")
    BY <2>1, TramoVerificar DEF DeVerificar
  <2> QED
    BY <2>1, <2>2, NeutroPonCampo
<1>9. CASE Serializa(h)
  <2>1. \E m : Anota(h, "serializar", "enviar", "mensaje", m)
    BY <1>9 DEF Serializa
  <2>2. PICK m : Anota(h, "serializar", "enviar", "mensaje", m)
    BY <2>1
  <2>3. Tramo(h, "serializar", "enviar")
    BY <2>2, TramoEnviar DEF Anota
  <2> QED
    BY <2>2, <2>3, NeutroAnota
<1>10. CASE Envia(h)
  <2>1. /\ hilo[h].pc = "enviar" /\ SoloHilo(h)
        /\ hilo'[h].pc = IF Desaloja(h) THEN Retorno(h) ELSE "recibir"
        /\ hilo'[h].actual = hilo[h].actual
        /\ colas' = colas /\ sem' = sem /\ Mismas
    BY <1>10 DEF Envia, EnviaAWorker, SoloHilo, Mismas, Ubicadas, Tipos, MasterOK, HiloOK, Hilo
  <2>2. Inocuo(h)
    BY <2>1, TramoEnviar DEF Inocuo
  <2> QED
    BY <2>1, <2>2, NeutroHilo
<1>11. CASE PublicaExit(h)
  <2>1. /\ Va(h, "postExit", IF h[1] = "worker" THEN "liberarId" ELSE "fin")
        /\ sem' = [sem EXCEPT !["exit"] = @ + 1] /\ UNCHANGED <<colas, varsWorkers, qm, varsCanales>>
    BY <1>11 DEF PublicaExit
  <2>2. hilo[h].pc = "postExit"
    BY <2>1 DEF Va
  <2>3. h[1] # "worker"
    <3>1. h[1] = "worker" => h[2] \in Workers /\ h = DeWorker(h[2])
      BY HilosNombres
    <3> QED
      BY <2>2, <3>1 DEF Ubicadas, Papeles, Etiqueta, EtiquetasWorker, Mano, ConExecute
  <2>4. h[1] = "query" => Avisada(h[2])
    <3>1. h[1] = "query" => h[2] \in Queries /\ h = DeQuery(h[2])
      BY HilosNombres
    <3> QED
      BY <2>2, <3>1 DEF Ubicadas, Avisos
  <2>5. Tramo(h, "postExit", "fin")
    BY <2>3, <2>4 DEF Tramo, Mano, DeAbandono
  <2>6. sem'["ready"] = sem["ready"] /\ colas' = colas /\ Mismas
    BY <2>1 DEF Mismas, varsCanales, Ubicadas, Tipos, MasterOK, SemOK
  <2> QED
    BY <2>1, <2>3, <2>5, <2>6, NeutroVa
<1> QED
  BY <1>1, <1>2, <1>3, <1>4, <1>5, <1>6, <1>7, <1>8, <1>9, <1>10, <1>11 DEF PasoDesalojo

\* A fault ends the process and touches nothing.
LEMMA FallaLugar ==
  ASSUME Ubicadas, NEW h \in Hilos, PasoFalla(h)
  PROVE  Hecho /\ CicloQuieto
<1>1. hilo' = hilo /\ colas' = colas /\ sem' = sem /\ Mismas
  BY DEF PasoFalla, FallaPunteroNulo, FallaUsoTrasLiberar, FallaDobleLiberacion, FallaSIGPIPE,
         Muere, Mismas, varsCanales
<1> QED
  BY <1>1, Quieto

\* Thread ready.
LEMMA ReadyLugar ==
  ASSUME Ubicadas, PasoReady
  PROVE  Hecho /\ CicloQuieto
<1>1. Ready \in Hilos /\ Ready[1] = "ready" /\ Ready # Exit
  BY HilosTipo, HilosNombres
<1>2. CASE ReadyEspera
  <2>1. /\ Va(Ready, "esperar", ColaSiguiente) /\ sem' = [sem EXCEPT !["esperandoReady"] = @ - 1]
        /\ UNCHANGED <<colas, varsWorkers, qm, varsCanales>>
    BY <1>2 DEF ReadyEspera
  <2>2. ColaSiguiente \in {"sacaNew", "sacaDesalojo"}
    BY DEF ColaSiguiente
  <2>3. Tramo(Ready, "esperar", ColaSiguiente)
    BY <1>1, <2>2 DEF Tramo, Mano, DeAbandono
  <2>4. sem'["ready"] = sem["ready"] /\ colas' = colas /\ Mismas
    BY <2>1 DEF Mismas, varsCanales, Ubicadas, Tipos, MasterOK, SemOK
  <2> QED
    BY <1>1, <2>1, <2>3, <2>4, NeutroVa
<1>3. CASE ReadyCodEspera
  <2>1. \E e \in {"comenzarAging", "hayExecute"} :
          PonCampo(Ready, "codEspera", e, hilo[Ready].actual, "cod", "ESPERA")
    BY <1>3 DEF ReadyCodEspera
  <2>2. PICK e \in {"comenzarAging", "hayExecute"} :
          PonCampo(Ready, "codEspera", e, hilo[Ready].actual, "cod", "ESPERA")
    BY <2>1
  <2>3. Tramo(Ready, "codEspera", e)
    BY <1>1 DEF Tramo, Mano, DeAbandono
  <2> QED
    BY <1>1, <2>2, <2>3, NeutroPonCampo
<1>4. CASE ReadySaca("new", "sacaNew") \/ ReadySaca("desalojo", "sacaDesalojo")
  BY <1>4, ReadySacaLugar
<1> QED
  BY <1>2, <1>3, <1>4, ReadyPublicaLugar DEF PasoReady

\* The aging thread of a query.
LEMMA AgingLugar ==
  ASSUME Ubicadas, NEW q \in Queries, PasoAging(q)
  PROVE  Hecho /\ CicloQuieto
<1> DEFINE E == {"condicion", "dormido", "disminuir", "ordenar", "saliendo", "fin"}
<1>1. Aging(q) \in Hilos /\ Aging(q)[1] = "aging" /\ Aging(q) # Ready /\ Aging(q) # Exit
  BY HilosTipo, HilosNombres
<1>2. \A d, e \in E : Tramo(Aging(q), d, e)
  BY <1>1 DEF Tramo, Mano, DeAbandono
<1>3. CASE AgingCondicion(q)
  <2>1. Mira(Aging(q), "condicion", SigueEnvejeciendo(q), "dormido", "saliendo")
    BY <1>3 DEF AgingCondicion
  <2> QED
    BY <1>1, <1>2, <2>1, NeutroMira
<1>4. CASE AgingDespierta(q)
  <2>1. Mira(Aging(q), "dormido", SigueEnvejeciendo(q), "disminuir", "condicion")
    BY <1>4 DEF AgingDespierta
  <2> QED
    BY <1>1, <1>2, <2>1, NeutroMira
<1>5. CASE AgingDisminuye(q)
  <2>1. \E v : PonCampo(Aging(q), "disminuir", "ordenar", q, "prioridad", v)
    BY <1>5 DEF AgingDisminuye
  <2> QED
    BY <1>1, <1>2, <2>1, NeutroPonCampo
<1>6. CASE AgingSale(q)
  <2>1. \E v : PonCampo(Aging(q), "saliendo", "fin", q, "agingIniciado", v)
    BY <1>6 DEF AgingSale
  <2> QED
    BY <1>1, <1>2, <2>1, NeutroPonCampo
<1> QED
  BY <1>3, <1>4, <1>5, <1>6, AgingOrdenaLugar DEF PasoAging

\* A move of a Worker thread that keeps its part.
LEMMA TramoWorker ==
  ASSUME NEW w \in Workers, NEW d, NEW e \in EtiquetasWorker, d \notin Mano, e \notin Mano,
         d \in ConExecute <=> e \in ConExecute, d = "sacarExecute" <=> e = "sacarExecute"
  PROVE  Tramo(DeWorker(w), d, e)
<1>1. DeWorker(w)[1] = "worker" /\ DeWorker(w) # Ready /\ DeWorker(w) # Exit
  BY HilosNombres
<1>2. e \notin DeAbandono
  BY DEF EtiquetasWorker, Mano, ConExecute, DeAbandono
<1> QED
  BY <1>1, <1>2 DEF Tramo

\* Its moves, by name.
LEMMA TramosWorker ==
  ASSUME NEW w \in Workers
  PROVE  /\ Tramo(DeWorker(w), "conectar", "esperar")
         /\ Tramo(DeWorker(w), "codEjecucion", "asignar")
         /\ Tramo(DeWorker(w), "asignar", "serializar")
         /\ \A e \in {"desalojar", "responder", "finalizar", "recibir", "avisar"} :
              Tramo(DeWorker(w), "recibir", e)
         /\ Tramo(DeWorker(w), "responder", "recibir")
         /\ Tramo(DeWorker(w), "finalizar", "avisar")
         /\ Tramo(DeWorker(w), "mirarQC", "reencolar")
         /\ Tramo(DeWorker(w), "codReencolada", "liberarId")
         /\ Tramo(DeWorker(w), "liberarId", "esperar")
         /\ \A e \in {"esperar", "fin"} : Tramo(DeWorker(w), "codFin", e)
<1>1. Tramo(DeWorker(w), "mirarQC", "reencolar")
  <2>1. DeWorker(w)[1] = "worker" /\ DeWorker(w) # Ready /\ DeWorker(w) # Exit
    BY HilosNombres
  <2> QED
    BY <2>1 DEF Tramo, EtiquetasWorker, Mano, ConExecute, DeAbandono
<1> QED
  BY <1>1, TramoWorker DEF EtiquetasWorker, Mano, ConExecute

\* One atenderWorker.
LEMMA WorkerLugar ==
  ASSUME Ubicadas, NEW w \in Workers, PasoWorker(w)
  PROVE  Hecho /\ PasoDeCiclo
<1> DEFINE h == DeWorker(w)
<1> SUFFICES (Hecho /\ PasoDeCiclo) \/ (Hecho /\ CicloQuieto)
  BY DEF PasoDeCiclo
<1>1. h \in Hilos
  BY HilosTipo
<1>2. CASE ConectaWorker(w)
  <2>1. Va(h, "conectar", "esperar") /\ colas' = colas /\ sem' = sem /\ qm' = qm /\ UNCHANGED varsCanales
    BY <1>2 DEF ConectaWorker
  <2>2. Mismas
    BY <2>1 DEF Mismas, varsCanales
  <2> QED
    BY <1>1, <2>1, <2>2, TramosWorker, NeutroVa
<1>3. CASE PoneEjecucion(w)
  <2>1. PonCampo(h, "codEjecucion", "asignar", Suya(w), "cod", "EJECUCION")
    BY <1>3 DEF PoneEjecucion
  <2> QED
    BY <1>1, <2>1, TramosWorker, NeutroPonCampo
<1>4. CASE AsignaQuery(w) \/ Finaliza(w) \/ DesalojaLiberaId(w)
  <2>1. \E p \in {<<"asignar", "serializar">>, <<"finalizar", "avisar">>, <<"liberarId", "esperar">>} :
          Va(h, p[1], p[2]) /\ colas' = colas /\ sem' = sem /\ qm' = qm /\ UNCHANGED varsCanales
    BY <1>4 DEF AsignaQuery, Finaliza, DesalojaLiberaId, PoneIdQuery
  <2>2. PICK p \in {<<"asignar", "serializar">>, <<"finalizar", "avisar">>, <<"liberarId", "esperar">>} :
          Va(h, p[1], p[2]) /\ colas' = colas /\ sem' = sem /\ qm' = qm /\ UNCHANGED varsCanales
    BY <2>1
  <2>3. Mismas
    BY <2>2 DEF Mismas, varsCanales
  <2>4. Tramo(h, p[1], p[2])
    BY TramosWorker
  <2> QED
    BY <1>1, <2>2, <2>3, <2>4, NeutroVa
<1>5. CASE RecibeRespuesta(w)
  <2>1. \E e \in {"desalojar", "responder", "finalizar", "recibir"} : Va(h, "recibir", e)
    BY <1>5 DEF RecibeRespuesta, Destino
  <2>2. PICK e \in {"desalojar", "responder", "finalizar", "recibir"} : Va(h, "recibir", e)
    BY <2>1
  <2>3. Mismas /\ colas' = colas /\ sem' = sem
    BY <1>5 DEF RecibeRespuesta, Mismas, Ubicadas, Tipos, MasterOK, QmOK, Registro
  <2>4. Tramo(h, "recibir", e)
    BY TramosWorker
  <2> QED
    BY <1>1, <2>2, <2>3, <2>4, NeutroVa
<1>6. CASE Responde(w)
  <2>1. Va(h, "responder", "recibir") /\ EnviaAQC(Suya(w), "RESPUESTA") /\ colas' = colas /\ sem' = sem
        /\ qm' = [qm EXCEPT ![Suya(w)].cod = "EJECUCION"]
    BY <1>6 DEF Responde
  <2>2. \A q \in Queries : socketQC'[q] # "abierto" => socketQC[q] # "abierto"
    BY <2>1 DEF EnviaAQC, TrasEnviar, Ubicadas, Tipos, TypeOKCanales
  <2>3. Mismas
    BY <2>1, <2>2 DEF Mismas, EnviaAQC, Ubicadas, Tipos, MasterOK, QmOK, Registro
  <2> QED
    BY <1>1, <2>1, <2>3, TramosWorker, NeutroVa
<1>7. CASE DesalojaPublica(w)
  <2>1. Va(h, "codReencolada", "liberarId") /\ colas' = colas /\ UNCHANGED varsCanales
        /\ sem' = [sem EXCEPT !["esperandoReady"] = @ + 1] /\ qm' = [qm EXCEPT ![Suya(w)].cod = "ESPERA"]
    BY <1>7 DEF DesalojaPublica
  <2>2. sem'["ready"] = sem["ready"] /\ Mismas
    BY <2>1 DEF Mismas, varsCanales, Ubicadas, Tipos, MasterOK, SemOK, QmOK, Registro
  <2> QED
    BY <1>1, <2>1, <2>2, TramosWorker, NeutroVa
<1>8. CASE DesalojaDesconectada(w) \/ DesalojaExit(w)
  <2>1. hilo[h].pc \notin DeAbandono
    BY <1>1 DEF Ubicadas, Papeles
  <2> QED
    BY <1>8, <2>1 DEF DesalojaDesconectada, DesalojaExit, EncolaExit, PonCampo, PonCola, Va, DeAbandono
<1>9. CASE DetectaCaida(w)
  <2>1. Va(h, "recibir", "avisar") /\ colas' = colas /\ sem' = sem /\ qm' = qm /\ UNCHANGED varsCanales
    BY <1>9 DEF DetectaCaida
  <2>2. Mismas
    BY <2>1 DEF Mismas, varsCanales
  <2>3. Tramo(h, "recibir", "avisar")
    BY TramosWorker
  <2> QED
    BY <1>1, <2>1, <2>2, <2>3, NeutroVa
<1>10. CASE PoneFin(w)
  <2>1. \E e \in {"esperar", "fin"} : Va(h, "codFin", e)
    BY <1>10 DEF PoneFin
  <2>2. PICK e \in {"esperar", "fin"} : Va(h, "codFin", e)
    BY <2>1
  <2>3. colas' = colas /\ UNCHANGED varsCanales /\ qm' = [qm EXCEPT ![Suya(w)].cod = "FIN"]
        /\ sem' = [sem EXCEPT !["exit"] = @ + 1]
    BY <1>10 DEF PoneFin
  <2>4. sem'["ready"] = sem["ready"] /\ Mismas
    BY <2>3 DEF Mismas, varsCanales, Ubicadas, Tipos, MasterOK, SemOK, QmOK, Registro
  <2>5. Tramo(h, "codFin", e)
    BY TramosWorker
  <2> QED
    BY <1>1, <2>2, <2>3, <2>4, <2>5, NeutroVa
<1>11. CASE TomaReady(w) \/ DesalojaReencola(w) \/ AvisaFin(w)
  BY <1>11, TomaReadyLugar, DesalojaReencolaLugar, AvisaFinLugar
<1>12. CASE AgregaExecute(w) \/ DesalojaSacaExecute(w) \/ SacaExecute(w) \/ AgregaExit(w)
  BY <1>12, AgregaExecuteLugar, DesalojaSacaExecuteLugar, SacaExecuteLugar, AgregaExitLugar
<1>13. CASE DesalojaMiraQC(w)
  <2>1. Mira(h, "mirarQC", qm[Suya(w)].desconectado, "codQCFin", "reencolar")
        /\ hilo[h].pc = "mirarQC"
    BY <1>13 DEF DesalojaMiraQC, Mira, Va
  <2>2. Etiqueta(w) \in Mano /\ Etiqueta(w) \in Corriendo
    BY <2>1 DEF Etiqueta, Mano, Corriendo
  <2>3. Suya(w) \in Queries
    BY <2>2, SuyaTipo
  <2>4. ~qm[Suya(w)].desconectado
    BY <2>2, <2>3 DEF Ubicadas, Avisos
  <2>5. Mira(h, "mirarQC", FALSE, "reencolar", "reencolar")
    BY <2>1, <2>4 DEF Mira
  <2>6. Tramo(h, "mirarQC", "reencolar")
    BY TramosWorker
  <2> HIDE DEF h
  <2> QED
    BY <1>1, <2>5, <2>6, NeutroMira
<1> QED
  BY <1>2, <1>3, <1>4, <1>5, <1>6, <1>7, <1>8, <1>9, <1>10, <1>11, <1>12, <1>13 DEF PasoWorker

\* One atenderQuery.
LEMMA QueryLugar ==
  ASSUME Ubicadas, NEW q \in Queries, PasoQuery(q)
  PROVE  Hecho /\ PasoDeCiclo
<1> DEFINE h == DeQuery(q)
<1> SUFFICES (Hecho /\ PasoDeCiclo) \/ (Hecho /\ CicloQuieto)
  BY DEF PasoDeCiclo
<1>1. h \in Hilos /\ h[1] = "query" /\ h[2] = q /\ h # Ready /\ h # Exit
  BY HilosTipo, HilosNombres
<1>2. hilo[h].pc \notin DeAbandono
  BY <1>1 DEF Ubicadas, Papeles
<1>3. hilo[h].pc \notin {"conectar", "escuchar"} => Avisada(q)
  BY DEF Ubicadas, Avisos
<1> DEFINE D == {"escuchar", "desconectar", "buscar", "registrar", "buscarReady"}
<1>4. Avisada(q) => \A d \in D : \A e \in D \cup {"fin"} : Tramo(h, d, e)
  BY <1>1 DEF Tramo, Mano, DeAbandono
<1>5. CASE DetectaDesconexion(q)
  <2>1. Avisada(q)
    BY <1>5 DEF DetectaDesconexion, Ubicadas, Avisos
  <2>2. Mira(h, "escuchar", WorkerEjecutandoQuery(q) # Ninguna, "desconectar", "buscarReady")
    BY <1>5 DEF DetectaDesconexion
  <2> QED
    BY <1>1, <1>4, <2>1, <2>2, NeutroMira
<1>6. CASE DesconectaEnExecute(q)
  <2>1. /\ hilo[h].pc = "desconectar" /\ qm' = [qm EXCEPT ![q].desconectado = TRUE]
        /\ hilo' = [hilo EXCEPT ![h].pc = "buscar", ![h].victima = q]
        /\ colas' = colas /\ sem' = sem /\ UNCHANGED varsCanales
    BY <1>6 DEF DesconectaEnExecute
  <2>2. Avisada(q)
    BY <1>3, <2>1
  <2>3. SoloHilo(h) /\ hilo'[h].pc = "buscar" /\ hilo'[h].actual = hilo[h].actual
    BY <1>1, <2>1 DEF SoloHilo, Ubicadas, Tipos, MasterOK, HiloOK, Hilo
  <2>4. Mismas
    BY <2>1, <2>2 DEF Mismas, varsCanales, Ubicadas, Tipos, MasterOK, QmOK, Registro
  <2>5. Inocuo(h)
    BY <1>4, <2>1, <2>2, <2>3 DEF Inocuo
  <2> QED
    BY <1>1, <2>1, <2>3, <2>4, <2>5, NeutroHilo
<1>7. CASE RegistraDesconexion(q)
  <2>1. Mira(h, "registrar", TRUE, "fin", "fin") /\ hilo[h].pc = "registrar"
    BY <1>7 DEF RegistraDesconexion, Mira, Va
  <2> QED
    BY <1>1, <1>3, <1>4, <2>1, NeutroMira
<1>8. CASE BuscaEnReady(q)
  <2>1. Mira(h, "buscarReady", Contains(colas["ready"], q), "desconectarReady", "fin")
        /\ hilo[h].pc = "buscarReady"
    BY <1>8 DEF BuscaEnReady, Mira, Va
  <2>2. Avisada(q)
    BY <1>3, <2>1
  <2>3. ~Contains(colas["ready"], q)
    <3>1. q \notin ToSet(colas["ready"])
      BY <2>2 DEF Ubicadas, Avisos
    <3>2. DOMAIN colas["ready"] = 1 .. Len(colas["ready"])
      BY LenProperties DEF Ubicadas, Tipos, MasterOK, ColasOK, Colas
    <3> QED
      BY <3>1, <3>2 DEF Contains, ToSet
  <2>4. Mira(h, "buscarReady", FALSE, "fin", "fin")
    BY <2>1, <2>3 DEF Mira
  <2> QED
    BY <1>1, <1>4, <2>2, <2>4, NeutroMira
<1>9. ~DesconectaEnReady(q) /\ ~SacaDeReady(q) /\ ~PoneFinReady(q) /\ ~ExitDeReady(q)
  BY <1>2 DEF DesconectaEnReady, SacaDeReady, PoneFinReady, ExitDeReady, EncolaExit, PonCampo, PonCola,
              Va, DeAbandono
<1> QED
  BY <1>5, <1>6, <1>7, <1>8, <1>9, ConectaQueryLugar DEF PasoQuery

-----------------------------------------------------------------------------
(* The invariant.                                                          *)

\* Before the first query arrives there is nobody anywhere.
LEMMA UbicadasInit == Init => Ubicadas /\ Ciclo!Init
<1> SUFFICES ASSUME Init PROVE Ubicadas /\ Ciclo!Init
  OBVIOUS
<1>1. /\ colas = [c \in Colas |-> <<>>] /\ avisos = [q \in Queries |-> 0]
      /\ sem = [s \in {"esperandoReady", "ready", "exit"} |-> 0]
      /\ socketQC = [q \in Queries |-> "abierto"]
      /\ \A q \in Queries : qm[q].liberada = "no" /\ ~qm[q].desconectado
      /\ hilo = [h \in Hilos |-> Inicial(h)]
  BY DEF Init, InitMaster, InitCanales
<1>2. \A h \in Hilos : /\ hilo[h].pc \in {"esperar", "conectar", "fin"}
                       /\ h[1] \in {"query", "worker"} => hilo[h].pc = "conectar"
                       /\ h[1] \in {"ready", "exit"} => hilo[h].pc = "esperar"
  BY <1>1 DEF Inicial
<1>3. \A w \in Workers : Etiqueta(w) = "conectar"
  BY <1>2, HilosTipo, HilosNombres DEF Etiqueta
<1>4. \A q \in Queries : ~Conectada(q) /\ ~Avisada(q) /\ hilo[DeQuery(q)].pc = "conectar"
  BY <1>1, <1>2, HilosTipo, HilosNombres DEF Conectada, Avisada
<1>5. \A c \in Colas : colas[c] = <<>> /\ ToSet(colas[c]) = {}
  BY <1>1 DEF ToSet
<1>6. "conectar" \notin Mano \cup ConExecute \cup Corriendo \cup {"sacarExecute", "agregarExit"}
      /\ {"esperar", "conectar", "fin"} \cap (Mano \cup DeAbandono \cup {"cerrar"}) = {}
  BY DEF Mano, ConExecute, Corriendo, DeAbandono
<1>7. \A l \in Lugares : Contenido(l) = {}
  BY <1>3, <1>5, <1>6, LugarForma, LugarContenido
<1>8. UnLugar
  <2>1. \A c \in Colas : IsInjective(colas[c])
    BY <1>5 DEF IsInjective
  <2> QED
    BY <1>4, <1>7, <2>1 DEF UnLugar
<1>9. Ejecutores
  BY <1>3, <1>6 DEF Ejecutores
<1>10. Avisos
  <2>1. \A q \in Queries : ~SeFue(q)
    BY <1>1, <1>4 DEF SeFue
  <2>2. \A c \in {"new", "desalojo", "ready", "exit"} : ToSet(colas[c]) = {}
    BY <1>5 DEF Colas
  <2> QED
    BY <1>3, <1>4, <1>6, <2>1, <2>2 DEF Avisos, SeFue
<1>11. Papeles
  <2>1. hilo[Exit].pc # "cerrar"
    BY <1>2, <1>6, HilosTipo
  <2> QED
    BY <1>2, <1>3, <1>6, <2>1 DEF Papeles, EtiquetasWorker
<1>12. Fichas
  <2>1. hilo[Ready].pc = "esperar"
    BY <1>2, HilosTipo, HilosNombres
  <2>2. colas["ready"] = <<>> /\ sem["ready"] = 0
    BY <1>1, <1>5 DEF Colas
  <2> QED
    BY <2>1, <2>2 DEF Fichas, ReadyTrae, Uno
<1>13. Ciclo!Init
  <2>1. EnEspera = {} /\ Finalizadas = {}
    BY <1>4, <1>5 DEF EnEspera, Finalizadas, Avisada, Colas
  <2>2. Asignada = [w \in Workers |-> Ninguna]
    BY <1>3, <1>6 DEF Asignada, Etiqueta
  <2> QED
    BY <2>1, <2>2 DEF Ciclo!Init, EnEspera, Asignada, Finalizadas
<1> QED
  BY <1>8, <1>9, <1>10, <1>11, <1>12, <1>13, TiposInit DEF Ubicadas

\* A Query Control that stays ends when it was told to.
LEMMA QCTerminaLugar ==
  ASSUME Ubicadas, NEW q \in Queries, QCTermina(q)
  PROVE  Hecho /\ CicloQuieto
<1>1. Avisada(q)
  BY DEF QCTermina, Avisada, Ubicadas, Avisos
<1>2. /\ hilo' = hilo /\ colas' = colas /\ sem' = sem /\ qm' = qm /\ avisos' = avisos
      /\ socketQC' = [socketQC EXCEPT ![q] = "cerrado"]
  BY DEF QCTermina, CierraQC, varsMaster
<1>3. Mismas
  BY <1>1, <1>2 DEF Mismas, Ubicadas, Tipos, TypeOKCanales
<1> QED
  BY <1>2, <1>3, Quieto

\* Nothing a Worker process does moves a query in the Master.
LEMMA InterpreteLugar ==
  ASSUME Ubicadas, NEW w \in Workers, Worker(w) \/ WorkerCae(w)
  PROVE  Hecho /\ CicloQuieto
<1>1. UNCHANGED varsMaster /\ (PasoInterprete(w) \/ CaeWorker(w))
  BY DEF Worker, WorkerCae
<1>2. socketQC' = socketQC /\ avisos' = avisos
  BY <1>1 DEF PasoInterprete, CaeWorker, FallaWorker, Cae, CierraWorker, Escucha, Toma, Ejecuta,
              EjecutaRead, EjecutaEnd, ProcesaError, Verifica, ConfirmaDesalojo, Suelta, EnviaAMaster,
              varsCanales
<1>3. Mismas
  BY <1>1, <1>2 DEF Mismas, varsMaster
<1> QED
  BY <1>1, <1>3, Quieto DEF varsMaster

\* With Query Controls that stay, every step keeps the invariant and is a
\* step of CicloDeVida.
LEMMA UbicadasPaso ==
  ASSUME QCEstables, Ubicadas, [Next]_vars
  PROVE  Ubicadas' /\ PasoDeCiclo
<1>1. Tipos'
  BY TiposPaso DEF Ubicadas
<1>2. Hecho /\ PasoDeCiclo
  <2> SUFFICES (Hecho /\ PasoDeCiclo) \/ (Hecho /\ CicloQuieto)
    BY DEF PasoDeCiclo
  <2>1. CASE UNCHANGED vars
    <3>1. hilo' = hilo /\ colas' = colas /\ sem' = sem /\ Mismas
      BY <2>1 DEF vars, varsMaster, varsCanales, Mismas
    <3> QED
      BY <3>1, Quieto
  <2>2. CASE MasterReady
    BY <2>2, ReadyLugar DEF MasterReady
  <2>3. CASE MasterExit
    BY <2>3, ExitLiberaLugar, ExitCierraLugar DEF MasterExit, PasoExit
  <2>4. ASSUME NEW h \in Hilos, MasterDesalojo(h) \/ MasterFalla(h)
        PROVE  Hecho /\ CicloQuieto
    BY <2>4, DesalojoLugar, FallaLugar DEF MasterDesalojo, MasterFalla
  <2>5. ASSUME NEW q \in Queries, MasterAging(q) \/ QCTermina(q)
        PROVE  Hecho /\ CicloQuieto
    BY <2>5, AgingLugar, QCTerminaLugar DEF MasterAging
  <2>6. ASSUME NEW q \in Queries, MasterQuery(q) PROVE Hecho /\ PasoDeCiclo
    BY <2>6, QueryLugar DEF MasterQuery
  <2>7. ASSUME NEW q \in Queries, QCAbandona(q) PROVE FALSE
    BY <2>7 DEF QCAbandona, QCEstables
  <2>8. ASSUME NEW w \in Workers, MasterWorker(w) PROVE Hecho /\ PasoDeCiclo
    BY <2>8, WorkerLugar DEF MasterWorker
  <2>9. ASSUME NEW w \in Workers, Worker(w) \/ WorkerCae(w) PROVE Hecho /\ CicloQuieto
    BY <2>9, InterpreteLugar
  <2> QED
    BY <2>1, <2>2, <2>3, <2>4, <2>5, <2>6, <2>7, <2>8, <2>9 DEF Next
<1> QED
  BY <1>1, <1>2 DEF Ubicadas, Hecho

-----------------------------------------------------------------------------
(* Counting the places.                                                    *)

\* The positions of the queues where q stands.
Posiciones(q) ==
  {p \in Colas \X (1 .. Cardinality(Queries) + 1) :
     p[2] <= Len(colas[p[1]]) /\ colas[p[1]][p[2]] = q}

\* The positions of a queue that repeats no query are no more than the queries.
LEMMA ColaCabe ==
  ASSUME Ubicadas, NEW c \in Colas
  PROVE  /\ Len(colas[c]) \in Nat /\ DOMAIN colas[c] = 1 .. Len(colas[c])
         /\ Cardinality(Queries) \in Nat /\ Len(colas[c]) <= Cardinality(Queries)
<1> DEFINE s == colas[c]
<1>1. s \in Seq(Queries) /\ IsInjective(s)
  BY DEF Ubicadas, UnLugar, Tipos, MasterOK, ColasOK
<1> HIDE DEF s
<1>2. Len(s) \in Nat /\ DOMAIN s = 1 .. Len(s) /\ s \in [1 .. Len(s) -> Queries]
  BY <1>1, LenProperties
<1>3. s \in Injection(1 .. Len(s), Queries)
  BY <1>1, <1>2 DEF Injection, IsInjective
<1>4. Cardinality(1 .. Len(s)) <= Cardinality(Queries)
  BY <1>3, FS_Injection, CanalesAssumption
<1>5. Cardinality(1 .. Len(s)) = Len(s)
  <2>1. Cardinality(1 .. Len(s)) = IF 1 > Len(s) THEN 0 ELSE Len(s) - 1 + 1
    BY <1>2, FS_Interval, SMTT(30)
  <2> QED
    BY <1>2, <2>1
<1>6. Cardinality(Queries) \in Nat
  BY FS_CardinalityType, CanalesAssumption
<1> QED
  BY <1>2, <1>4, <1>5, <1>6 DEF s

\* Posiciones and EnMano, read from the places.
LEMMA PosicionesLugar ==
  ASSUME Ubicadas, NEW q \in Queries
  PROVE  /\ \A p \in Posiciones(q) : p[1] \in Colas /\ q \in Contenido(EnCola(p[1]))
         /\ \A c \in Colas : q \in Contenido(EnCola(c)) =>
              \E i : <<c, i>> \in Posiciones(q) /\ \A j : <<c, j>> \in Posiciones(q) => j = i
<1>1. ASSUME NEW p \in Posiciones(q) PROVE p[1] \in Colas /\ q \in Contenido(EnCola(p[1]))
  <2>1. /\ p[1] \in Colas /\ p[2] \in 1 .. Cardinality(Queries) + 1
        /\ p[2] <= Len(colas[p[1]]) /\ colas[p[1]][p[2]] = q
    BY DEF Posiciones
  <2>2. p[2] \in DOMAIN colas[p[1]]
    BY <2>1, ColaCabe
  <2>3. q \in ToSet(colas[p[1]])
    BY <2>1, <2>2 DEF ToSet
  <2> QED
    BY <2>1, <2>3, LugarContenido
<1>2. ASSUME NEW c \in Colas, q \in Contenido(EnCola(c))
      PROVE  \E i : <<c, i>> \in Posiciones(q) /\ \A j : <<c, j>> \in Posiciones(q) => j = i
  <2>1. PICK i \in DOMAIN colas[c] : colas[c][i] = q
    BY <1>2, LugarContenido DEF ToSet
  <2>2. i \in 1 .. Cardinality(Queries) + 1 /\ i <= Len(colas[c])
    BY ColaCabe
  <2>3. <<c, i>> \in Posiciones(q)
    BY <2>1, <2>2 DEF Posiciones
  <2>4. ASSUME NEW j, <<c, j>> \in Posiciones(q) PROVE j = i
    <3>1. j \in 1 .. Cardinality(Queries) + 1 /\ j <= Len(colas[c]) /\ colas[c][j] = q
      BY <2>4 DEF Posiciones
    <3>2. j \in DOMAIN colas[c]
      BY <3>1, ColaCabe
    <3> QED
      BY <2>1, <3>1, <3>2 DEF Ubicadas, UnLugar, IsInjective
  <2> QED
    BY <2>3, <2>4
<1> QED
  BY <1>1, <1>2

\* The threads that have q in hand are Worker threads.
LEMMA EnManoLugar ==
  ASSUME Ubicadas, NEW q \in Queries
  PROVE  EnMano(q) = {DeWorker(w) : w \in {v \in Workers : q \in Contenido(EnLaMano(v))}}
<1>1. ASSUME NEW h \in EnMano(q)
      PROVE  \E w \in Workers : q \in Contenido(EnLaMano(w)) /\ h = DeWorker(w)
  <2>1. h \in Hilos /\ hilo[h].actual = q /\ hilo[h].pc \in Mano
    <3>1. /\ h \in Hilos /\ hilo[h].actual = q
          /\ hilo[h].pc \in {"agregar", "mirarQC", "reencolar", "codQCFin", "codDesconectada", "agregarExit",
                            "codFinReady", "exitReady"}
      BY DEF EnMano
    <3> QED
      BY <3>1 DEF Ubicadas, Papeles, Mano, DeAbandono
  <2>2. h[1] = "worker"
    BY <2>1 DEF Ubicadas, Papeles
  <2>3. h[2] \in Workers /\ h = DeWorker(h[2])
    BY <2>1, <2>2, HilosNombres
  <2>4. Etiqueta(h[2]) \in Mano /\ Suya(h[2]) = q
    BY <2>1, <2>3 DEF Etiqueta, Suya
  <2>5. q \in Contenido(EnLaMano(h[2]))
    BY <2>3, <2>4, LugarContenido
  <2> QED
    BY <2>3, <2>5
<1>2. ASSUME NEW w \in Workers, q \in Contenido(EnLaMano(w)) PROVE DeWorker(w) \in EnMano(q)
  <2>1. Etiqueta(w) \in Mano /\ Suya(w) = q
    BY <1>2, LugarContenido
  <2> QED
    BY <2>1, HilosTipo DEF EnMano, Etiqueta, Suya, Mano
<1> QED
  BY <1>1, <1>2

\* So the invariant counts one.
LEMMA UbicadasCuenta == Ubicadas => UnSoloLugar
<1> SUFFICES ASSUME Ubicadas, NEW q \in Queries
             PROVE  VecesEnColas(q) + Cardinality(EnMano(q)) =
                      IF Conectada(q) /\ qm[q].liberada = "no" THEN 1 ELSE 0
  BY DEF UnSoloLugar, Conectada
<1>1. VecesEnColas(q) = Cardinality(Posiciones(q))
  BY DEF VecesEnColas, Posiciones
<1>2. Cardinality({}) = 0 /\ \A x : Cardinality({x}) = 1
  BY FS_EmptySet, FS_Singleton
<1>3. \A k, l \in Lugares : q \in Contenido(k) /\ q \in Contenido(l) => k = l
  BY DEF Ubicadas, UnLugar
<1>4. CASE \A l \in Lugares : q \notin Contenido(l)
  <2>1. ~(Conectada(q) /\ qm[q].liberada = "no")
    BY <1>4 DEF Ubicadas, UnLugar
  <2>2. Posiciones(q) = {}
    BY <1>4, PosicionesLugar, LugarForma
  <2>3. EnMano(q) = {}
    BY <1>4, EnManoLugar, LugarForma
  <2> QED
    BY <1>1, <1>2, <2>1, <2>2, <2>3
<1>5. ASSUME NEW c \in Colas, q \in Contenido(EnCola(c))
      PROVE  VecesEnColas(q) = 1 /\ EnMano(q) = {} /\ Conectada(q) /\ qm[q].liberada = "no"
  <2>1. EnCola(c) \in Lugares
    BY LugarForma
  <2>2. PICK i : <<c, i>> \in Posiciones(q) /\ \A j : <<c, j>> \in Posiciones(q) => j = i
    BY <1>5, PosicionesLugar
  <2>3. ASSUME NEW p \in Posiciones(q) PROVE p = <<c, i>>
    <3>1. p[1] \in Colas /\ q \in Contenido(EnCola(p[1]))
      BY PosicionesLugar
    <3>2. EnCola(p[1]) = EnCola(c)
      BY <1>3, <1>5, <2>1, <3>1, LugarForma
    <3>3. p[1] = c
      BY <3>2, LugarForma
    <3>4. p = <<p[1], p[2]>>
      BY DEF Posiciones
    <3> QED
      BY <2>2, <3>3, <3>4
  <2>4. Posiciones(q) = {<<c, i>>}
    BY <2>2, <2>3
  <2>5. EnMano(q) = {}
    <3>1. \A w \in Workers : q \notin Contenido(EnLaMano(w))
      BY <1>3, <1>5, <2>1, LugarForma
    <3> QED
      BY <3>1, EnManoLugar
  <2>6. Conectada(q) /\ qm[q].liberada = "no"
    BY <1>5, <2>1 DEF Ubicadas, UnLugar
  <2> QED
    BY <1>1, <1>2, <2>4, <2>5, <2>6
<1>6. ASSUME NEW w \in Workers, q \in Contenido(EnLaMano(w))
      PROVE  /\ Posiciones(q) = {} /\ EnMano(q) = {DeWorker(w)}
             /\ Conectada(q) /\ qm[q].liberada = "no"
  <2>1. EnLaMano(w) \in Lugares
    BY LugarForma
  <2>2. Posiciones(q) = {}
    <3>1. \A c \in Colas : q \notin Contenido(EnCola(c))
      BY <1>3, <1>6, <2>1, LugarForma
    <3> QED
      BY <3>1, PosicionesLugar
  <2>3. \A v \in Workers : q \in Contenido(EnLaMano(v)) => v = w
    <3> SUFFICES ASSUME NEW v \in Workers, q \in Contenido(EnLaMano(v)) PROVE v = w
      OBVIOUS
    <3>1. EnLaMano(v) = EnLaMano(w)
      BY <1>3, <1>6, <2>1, LugarForma
    <3> QED
      BY <3>1, LugarForma
  <2>4. EnMano(q) = {DeWorker(w)}
    BY <1>6, <2>3, EnManoLugar
  <2>5. Conectada(q) /\ qm[q].liberada = "no"
    BY <1>6, <2>1 DEF Ubicadas, UnLugar
  <2> QED
    BY <2>2, <2>4, <2>5
<1>7. CASE \E l \in Lugares : q \in Contenido(l)
  <2>1. CASE \E c \in Colas : q \in Contenido(EnCola(c))
    BY <1>2, <1>5, <2>1
  <2>2. CASE \E w \in Workers : q \in Contenido(EnLaMano(w))
    <3>1. PICK w \in Workers : q \in Contenido(EnLaMano(w))
      BY <2>2
    <3>2. /\ Posiciones(q) = {} /\ EnMano(q) = {DeWorker(w)}
          /\ Conectada(q) /\ qm[q].liberada = "no"
      BY <1>6, <3>1
    <3>3. VecesEnColas(q) = 0 /\ Cardinality(EnMano(q)) = 1
      BY <1>1, <1>2, <3>2
    <3> QED
      BY <3>2, <3>3
  <2> QED
    BY <1>7, <2>1, <2>2, LugarForma
<1> QED
  BY <1>4, <1>7

-----------------------------------------------------------------------------
(* The theorems.                                                           *)

\* Each accepted query is in one queue, list or hand, and only one, until
\* exitStatus frees it: none is lost between two mutexes and none is queued
\* twice (planificacion.c 85-242).
THEOREM UnSoloLugarSiempre == ASSUME QCEstables PROVE Spec => []UnSoloLugar
<1>1. Init => Ubicadas
  BY UbicadasInit
<1>2. Ubicadas /\ [Next]_vars => Ubicadas'
  BY UbicadasPaso
<1>3. Spec => []Ubicadas
  BY <1>1, <1>2, PTL DEF Spec
<1> QED
  BY <1>3, UbicadasCuenta, PTL

\* A Worker thread that passes semQueryReady finds a query in listaReady (159-163).
THEOREM WorkersEncuentranSiempre == ASSUME QCEstables PROVE Spec => []WorkersEncuentran
<1>1. Init => Ubicadas
  BY UbicadasInit
<1>2. Ubicadas /\ [Next]_vars => Ubicadas'
  BY UbicadasPaso
<1>3. Ubicadas => WorkersEncuentran
  <2>1. Ubicadas => sem["ready"] \in Nat
    BY DEF Ubicadas, Tipos, MasterOK, SemOK
  <2> QED
    BY <2>1 DEF Ubicadas, Fichas, Uno, WorkersEncuentran
<1> QED
  BY <1>1, <1>2, <1>3, PTL DEF Spec

\* The Master, with its Workers, queues and threads, implements CicloDeVida:
\* every step is a step of the life of one query, or none.
THEOREM CumpleElCicloSiempre == ASSUME QCEstables PROVE Spec => CumpleElCiclo
<1>1. Init => Ubicadas /\ Ciclo!Init
  BY UbicadasInit
<1>2. Ubicadas /\ [Next]_vars => Ubicadas' /\ [Ciclo!Next]_(Ciclo!varsCiclo)
  <2> SUFFICES ASSUME Ubicadas, [Next]_vars PROVE Ubicadas' /\ [Ciclo!Next]_(Ciclo!varsCiclo)
    OBVIOUS
  <2>1. Ubicadas' /\ PasoDeCiclo
    BY UbicadasPaso
  <2>2. CicloQuieto => UNCHANGED Ciclo!varsCiclo
    BY DEF CicloQuieto, Ciclo!varsCiclo, EnEspera, Asignada, Finalizadas
  <2> QED
    BY <2>1, <2>2 DEF PasoDeCiclo
<1> QED
  BY <1>1, <1>2, PTL DEF Spec, CumpleElCiclo, Ciclo!Spec


-----------------------------------------------------------------------------
(* The order of listaReady.                                                *)

Menor(p, q) == qm[p].prioridad <= qm[q].prioridad
Ordenada(s) == \A i, j \in DOMAIN s : i < j => Menor(s[i], s[j])
NadieOrdena == \A q \in Queries : hilo[Aging(q)].pc # "ordenar"

\* The priority of a query is set before any queue or thread knows it.
ConEspera == {"new", "desalojo", "ready"}
Conocida(q) ==
  (\E c \in ConEspera : q \in ToSet(colas[c])) \/ \E w \in Workers : Suya(w) = q
SoloConectadas == \A q \in Queries : Conocida(q) => Conectada(q)

\* comenzarAging does not start a second aging thread of a query.
ConMarca == \A q \in Queries : hilo[Aging(q)].pc # "fin" => qm[q].agingIniciado

Orden == SoloConectadas /\ ConMarca /\ ReadyOrdenada
EnOrden == Tipos /\ Orden

\* Priorities are numbers.
LEMMA MenorTipo ==
  ASSUME Tipos, NEW p \in Queries, NEW q \in Queries, NEW r \in Queries
  PROVE  /\ Menor(p, q) /\ Menor(q, r) => Menor(p, r)
         /\ ~Menor(p, q) => Menor(q, p)
<1>1. qm[p].prioridad \in Int /\ qm[q].prioridad \in Int /\ qm[r].prioridad \in Int
  BY MasterAssumption DEF Tipos, MasterOK, QmOK, Registro
<1> QED
  BY <1>1 DEF Menor

\* list_add_sorted keeps the order.
LEMMA InsercionesOrden ==
  ASSUME Tipos, Algoritmo # "FIFO", NEW lista \in Seq(Queries), Ordenada(lista),
         NEW q \in Queries, NEW s \in Inserciones(lista, q)
  PROVE  Ordenada(s)
<1>1. PICK i \in 1 .. Len(lista) + 1 :
        /\ s = InsertAt(lista, i, q)
        /\ \A k \in 1 .. i - 1 : qm[lista[k]].prioridad <= qm[q].prioridad
        /\ i <= Len(lista) => qm[lista[i]].prioridad >= qm[q].prioridad
  BY DEF Inserciones
<1>2. /\ Len(lista) \in Nat /\ DOMAIN lista = 1 .. Len(lista)
      /\ \A k \in 1 .. Len(lista) : lista[k] \in Queries
  BY LenProperties, ElementOfSeq
<1>3. /\ DOMAIN s = 1 .. Len(lista) + 1
      /\ \A k \in 1 .. Len(lista) + 1 :
           s[k] = IF k < i THEN lista[k] ELSE IF k = i THEN q ELSE lista[k - 1]
  <2>1. s \in Seq(Queries) /\ Len(s) = Len(lista) + 1
    BY <1>1, InsertAtTipo
  <2> QED
    BY <1>1, <2>1, InsertAtElementos, LenProperties
<1>4. \A k \in 1 .. i - 1 : Menor(lista[k], q)
  BY <1>1 DEF Menor
<1>5. ASSUME NEW k \in 1 .. Len(lista), k >= i PROVE Menor(q, lista[k])
  <2>1. i \in 1 .. Len(lista) /\ lista[i] \in Queries /\ lista[k] \in Queries
    BY <1>2, <1>5
  <2>2. Menor(q, lista[i])
    <3>1. \A p \in Queries : qm[p].prioridad \in Int
      BY MasterAssumption DEF Tipos, MasterOK, QmOK, Registro
    <3> QED
      BY <1>1, <2>1, <3>1 DEF Menor
  <2>3. i = k \/ Menor(lista[i], lista[k])
    BY <1>2, <1>5, <2>1 DEF Ordenada
  <2> QED
    BY <2>1, <2>2, <2>3, MenorTipo
<1> SUFFICES ASSUME NEW a \in DOMAIN s, NEW b \in DOMAIN s, a < b PROVE Menor(s[a], s[b])
  BY DEF Ordenada
<1>6. a \in 1 .. Len(lista) + 1 /\ b \in 1 .. Len(lista) + 1
  BY <1>3
<1>7. CASE b < i
  <2>1. s[a] = lista[a] /\ s[b] = lista[b] /\ a \in DOMAIN lista /\ b \in DOMAIN lista
    BY <1>2, <1>3, <1>6, <1>7
  <2> QED
    BY <2>1 DEF Ordenada
<1>8. CASE b = i
  <2>1. s[a] = lista[a] /\ s[b] = q /\ a \in 1 .. i - 1
    BY <1>3, <1>6, <1>8
  <2> QED
    BY <1>4, <2>1
<1>9. CASE b > i /\ a = i
  <2>1. s[a] = q /\ s[b] = lista[b - 1] /\ b - 1 \in 1 .. Len(lista) /\ b - 1 >= i
    BY <1>2, <1>3, <1>6, <1>9
  <2> QED
    BY <1>5, <2>1
<1>10. CASE b > i /\ a # i
  <2>1. PICK c \in 1 .. Len(lista) : s[a] = lista[c] /\ c < b - 1
    <3>1. CASE a < i
      <4>1. a \in 1 .. Len(lista) /\ a < b - 1 /\ s[a] = lista[a]
        BY <1>2, <1>3, <1>6, <1>10, <3>1
      <4> QED
        BY <4>1
    <3>2. CASE a > i
      <4>1. a - 1 \in 1 .. Len(lista) /\ a - 1 < b - 1 /\ s[a] = lista[a - 1]
        BY <1>2, <1>3, <1>6, <1>10, <3>2
      <4> QED
        BY <4>1
    <3> QED
      BY <1>6, <1>10, <3>1, <3>2
  <2>2. s[b] = lista[b - 1] /\ b - 1 \in 1 .. Len(lista)
    BY <1>2, <1>3, <1>6, <1>10
  <2> QED
    BY <1>2, <2>1, <2>2 DEF Ordenada
<1> QED
  BY <1>6, <1>7, <1>8, <1>9, <1>10

\* list_remove and list_remove_element keep it.
LEMMA SinUnoOrden ==
  ASSUME NEW s \in Seq(Queries), NEW r, NEW n, SinUno(r, s, n), Ordenada(s)
  PROVE  Ordenada(r)
<1>1. Len(s) \in Nat /\ DOMAIN s = 1 .. Len(s)
  BY LenProperties
<1>2. n \in 1 .. Len(s) /\ DOMAIN r = 1 .. Len(s) - 1
  BY DEF SinUno
<1> SUFFICES ASSUME NEW a \in 1 .. Len(s) - 1, NEW b \in 1 .. Len(s) - 1, a < b
             PROVE  Menor(r[a], r[b])
  BY <1>2 DEF Ordenada
<1>3. PICK i \in 1 .. Len(s) : r[a] = s[i] /\ (i = IF a < n THEN a ELSE a + 1)
  BY <1>1, <1>2 DEF SinUno
<1>4. PICK j \in 1 .. Len(s) : r[b] = s[j] /\ (j = IF b < n THEN b ELSE b + 1)
  BY <1>1, <1>2 DEF SinUno
<1>5. i < j
  BY <1>2, <1>3, <1>4
<1> QED
  BY <1>1, <1>3, <1>4, <1>5 DEF Ordenada

\* The order of the same queries with the same priorities is the same.
LEMMA MismoOrden ==
  ASSUME Tipos, ReadyOrdenada, colas'["ready"] = colas["ready"],
         \A p \in ToSet(colas["ready"]) : qm'[p].prioridad = qm[p].prioridad,
         NadieOrdena' => NadieOrdena
  PROVE  ReadyOrdenada'
<1> SUFFICES ASSUME NadieOrdena',
                    NEW i \in DOMAIN colas["ready"], NEW j \in DOMAIN colas["ready"], i < j
             PROVE  qm'[colas["ready"][i]].prioridad <= qm'[colas["ready"][j]].prioridad
  BY DEF ReadyOrdenada, NadieOrdena
<1>1. qm[colas["ready"][i]].prioridad <= qm[colas["ready"][j]].prioridad
  BY DEF ReadyOrdenada, NadieOrdena
<1>2. colas["ready"][i] \in ToSet(colas["ready"]) /\ colas["ready"][j] \in ToSet(colas["ready"])
  BY DEF ToSet
<1> QED
  BY <1>1, <1>2

\* A sorted listaReady, with the priorities it is sorted by.
LEMMA OtroOrden ==
  ASSUME ReadyOrdenada, qm' = qm, NEW s, colas'["ready"] = s,
         NadieOrdena' => NadieOrdena, Ordenada(colas["ready"]) => Ordenada(s)
  PROVE  ReadyOrdenada'
BY DEF ReadyOrdenada, NadieOrdena, Ordenada, Menor

\* Thread h moves and no queue learns of a query it did not know.
LEMMA ConectadasPaso ==
  ASSUME SoloConectadas, NEW h \in Hilos, SoloHilo(h),
         hilo'[h].pc = "conectar" => hilo[h].pc = "conectar",
         \A q \in Queries : Conocida(q)' => Conocida(q) \/ Conectada(q)'
  PROVE  SoloConectadas'
<1>1. \A q \in Queries : Conectada(q) => Conectada(q)'
  BY HilosTipo DEF Conectada, SoloHilo
<1> QED
  BY <1>1 DEF SoloConectadas

\* A thread other than an aging thread moves, or one that runs.
LEMMA MarcaPaso ==
  ASSUME ConMarca, NEW h \in Hilos, SoloHilo(h),
         h[1] = "aging" => hilo[h].pc # "fin",
         \A q \in Queries : qm[q].agingIniciado => qm'[q].agingIniciado
  PROVE  ConMarca'
<1> SUFFICES ASSUME NEW q \in Queries, hilo'[Aging(q)].pc # "fin" PROVE qm'[q].agingIniciado
  BY DEF ConMarca
<1>1. hilo[Aging(q)].pc # "fin"
  BY HilosTipo, HilosNombres DEF SoloHilo
<1> QED
  BY <1>1 DEF ConMarca

\* No aging thread leaves "ordenar" when another thread moves.
LEMMA NadiePaso ==
  ASSUME NEW h \in Hilos, SoloHilo(h), hilo[h].pc # "ordenar", NadieOrdena'
  PROVE  NadieOrdena
BY HilosTipo DEF NadieOrdena, SoloHilo

\* Thread h moves, and of what waits, and of its order, nothing changes.
Aparte(h) ==
  /\ SoloHilo(h)
  /\ hilo[h].pc \notin {"ordenar", "fin"} /\ hilo'[h].pc # "conectar"
  /\ h[1] = "worker" => hilo'[h].actual \in {hilo[h].actual, Ninguna}
  /\ \A c \in ConEspera : colas'[c] = colas[c]
  /\ \A p \in Queries : qm'[p].prioridad = qm[p].prioridad /\ qm'[p].agingIniciado = qm[p].agingIniciado

\* Such a step keeps who is connected, who carries the mark and the order of
\* listaReady.
LEMMA AparteOrden ==
  ASSUME EnOrden, NEW h \in Hilos, Aparte(h)
  PROVE  Orden'
<1>1. SoloConectadas'
  <2>1. \A q \in Queries : Conocida(q)' => Conocida(q)
    <3> SUFFICES ASSUME NEW q \in Queries, NEW w \in Workers, Suya(w)' = q PROVE Conocida(q)
      BY DEF Conocida, Aparte
    <3>1. Ninguna \notin Queries
      BY CanalesAssumption
    <3>2. Suya(w) = q
      BY <3>1, HilosTipo, HilosNombres DEF Suya, Aparte, SoloHilo
    <3> QED
      BY <3>2 DEF Conocida
  <2> QED
    BY <2>1, ConectadasPaso DEF EnOrden, Orden, Aparte
<1>2. ConMarca'
  BY MarcaPaso DEF EnOrden, Orden, Aparte
<1>3. ReadyOrdenada'
  <2>1. ToSet(colas["ready"]) \subseteq Queries
    BY DEF EnOrden, Tipos, MasterOK, ColasOK, Colas, ToSet
  <2>2. NadieOrdena' => NadieOrdena
    BY NadiePaso DEF Aparte
  <2> QED
    BY <2>1, <2>2, MismoOrden DEF Aparte, EnOrden, Orden, ConEspera
<1> QED
  BY <1>1, <1>2, <1>3 DEF Orden

\* The labels of a step that is apart.
Corriente(d, e) == d \notin {"ordenar", "fin"} /\ e # "conectar"

\* The shapes of a step that is apart: Va ...
LEMMA AparteVa ==
  ASSUME Tipos, NEW h \in Hilos, NEW d, NEW e, Va(h, d, e), Corriente(d, e),
         \A c \in ConEspera : colas'[c] = colas[c],
         \A p \in Queries : qm'[p].prioridad = qm[p].prioridad /\ qm'[p].agingIniciado = qm[p].agingIniciado
  PROVE  Aparte(h)
<1>1. SoloHilo(h) /\ hilo[h].pc = d /\ hilo'[h].pc = e /\ hilo'[h].actual \in {hilo[h].actual, Ninguna}
  BY DEF Va, SoloHilo, Tipos, MasterOK, HiloOK, Hilo
<1> QED
  BY <1>1 DEF Aparte, Corriente

\* ... Mira ...
LEMMA AparteMira ==
  ASSUME Tipos, NEW h \in Hilos, NEW d, NEW c, NEW si, NEW no, Mira(h, d, c, si, no),
         Corriente(d, si), Corriente(d, no)
  PROVE  Aparte(h)
<1>1. PICK e \in {si, no} : Va(h, d, e)
  BY DEF Mira
<1>2. colas' = colas /\ qm' = qm
  BY DEF Mira
<1> QED
  BY <1>1, <1>2, AparteVa

\* ... Anota ...
LEMMA AparteAnota ==
  ASSUME Tipos, NEW h \in Hilos, NEW d, NEW e, NEW campo, NEW valor, Anota(h, d, e, campo, valor),
         Corriente(d, e), campo \notin {"pc", "actual"}
  PROVE  Aparte(h)
<1>1. /\ hilo[h].pc = d /\ colas' = colas /\ qm' = qm
      /\ hilo' = [hilo EXCEPT ![h] = [[hilo[h] EXCEPT !.pc = e] EXCEPT ![campo] = valor]]
  BY DEF Anota, Tipos, MasterOK, HiloOK
<1>2. SoloHilo(h) /\ hilo'[h].pc = e /\ hilo'[h].actual = hilo[h].actual
  BY <1>1 DEF SoloHilo, Tipos, MasterOK, HiloOK, Hilo
<1> QED
  BY <1>1, <1>2 DEF Aparte, Corriente

\* ... PonCampo ...
LEMMA ApartePonCampo ==
  ASSUME Tipos, NEW h \in Hilos, NEW d, NEW e, NEW q, NEW campo, NEW valor,
         PonCampo(h, d, e, q, campo, valor), Corriente(d, e), campo \notin {"prioridad", "agingIniciado"}
  PROVE  Aparte(h)
<1>1. Va(h, d, e) /\ qm' = [qm EXCEPT ![q][campo] = valor] /\ colas' = colas
  BY DEF PonCampo
<1>2. \A p \in Queries : qm'[p].prioridad = qm[p].prioridad /\ qm'[p].agingIniciado = qm[p].agingIniciado
  BY <1>1 DEF Tipos, MasterOK, QmOK, Registro
<1> QED
  BY <1>1, <1>2, AparteVa

\* ... and PonCola of another queue.
LEMMA ApartePonCola ==
  ASSUME Tipos, NEW h \in Hilos, NEW d, NEW e, NEW c, NEW valores, PonCola(h, d, e, c, valores),
         Corriente(d, e), c \notin ConEspera
  PROVE  Aparte(h)
<1>1. Va(h, d, e) /\ qm' = qm /\ \E s \in valores : colas' = [colas EXCEPT ![c] = s]
  BY DEF PonCola
<1>2. \A x \in ConEspera : colas'[x] = colas[x]
  BY <1>1 DEF Tipos, MasterOK, ColasOK, Colas, ConEspera
<1> QED
  BY <1>1, <1>2, AparteVa

-----------------------------------------------------------------------------
(* The steps.                                                              *)

\* verificarDesalojo and enviarDesalojo.
LEMMA DesalojoOrden ==
  ASSUME EnOrden, NEW h \in Hilos, PasoDesalojo(h)
  PROVE  Orden'
<1> SUFFICES Aparte(h)
  BY AparteOrden
<1> USE DEF EnOrden
<1>1. Retorno(h) # "conectar"
  BY DEF Retorno
<1>2. CASE VerificaHayExecute(h)
  BY <1>1, <1>2, AparteMira DEF VerificaHayExecute, Corriente
<1>3. CASE VerificaTodosTienen(h)
  BY <1>1, <1>3, AparteMira DEF VerificaTodosTienen, Corriente
<1>4. CASE VerificaUltima(h)
  BY <1>4, AparteAnota DEF VerificaUltima, Corriente
<1>5. CASE VerificaToma(h)
  BY <1>5, AparteAnota DEF VerificaToma, Corriente
<1>6. CASE VerificaPropia(h)
  BY <1>6, AparteAnota DEF VerificaPropia, Corriente
<1>7. CASE VerificaCompara(h)
  <2>1. /\ hilo[h].pc = "comparar" /\ SoloHilo(h) /\ hilo'[h].pc \in {"buscar", Retorno(h)}
        /\ hilo'[h].actual = hilo[h].actual /\ colas' = colas /\ qm' = qm
    BY <1>7 DEF VerificaCompara, SoloHilo, Tipos, MasterOK, HiloOK, Hilo
  <2> QED
    BY <1>1, <2>1 DEF Aparte
<1>8. CASE DesalojoBusca(h)
  BY <1>8, AparteAnota DEF DesalojoBusca, Corriente
<1>9. CASE DesalojoMarca(h)
  BY <1>9, ApartePonCampo DEF DesalojoMarca, Corriente
<1>10. CASE Serializa(h)
  <2>1. \E m : Anota(h, "serializar", "enviar", "mensaje", m)
    BY <1>10 DEF Serializa
  <2> QED
    BY <2>1, AparteAnota DEF Corriente
<1>11. CASE Envia(h)
  <2>1. /\ hilo[h].pc = "enviar" /\ SoloHilo(h) /\ hilo'[h].pc \in {Retorno(h), "recibir"}
        /\ hilo'[h].actual = hilo[h].actual /\ colas' = colas /\ qm' = qm
    BY <1>11 DEF Envia, SoloHilo, Tipos, MasterOK, HiloOK, Hilo
  <2> QED
    BY <1>1, <2>1 DEF Aparte
<1>12. CASE PublicaExit(h)
  <2>1. \E e \in {"liberarId", "fin"} : Va(h, "postExit", e)
    BY <1>12 DEF PublicaExit
  <2>2. colas' = colas /\ qm' = qm
    BY <1>12 DEF PublicaExit
  <2> QED
    BY <2>1, <2>2, AparteVa DEF Corriente
<1> QED
  BY <1>2, <1>3, <1>4, <1>5, <1>6, <1>7, <1>8, <1>9, <1>10, <1>11, <1>12 DEF PasoDesalojo

\* Thread ready inserts a query where its priority puts it.
LEMMA ReadySacaOrden ==
  ASSUME Algoritmo # "FIFO", EnOrden, NEW c \in {"new", "desalojo"}, NEW desde, desde # "ordenar",
         ReadySaca(c, desde)
  PROVE  Orden'
<1>1. Ready \in Hilos /\ Ready[1] = "ready" /\ \A w : DeWorker(w) # Ready
  BY HilosTipo, HilosNombres
<1>2. PICK q : q = Head(colas[c])
  OBVIOUS
<1>3. /\ colas[c] # <<>> /\ qm' = qm /\ hilo[Ready].pc = desde
      /\ hilo' = [hilo EXCEPT ![Ready].pc = "codEspera", ![Ready].actual = q]
      /\ \E s \in Inserciones(colas["ready"], q) : colas' = [colas EXCEPT !["ready"] = s, ![c] = Tail(@)]
  BY <1>2 DEF ReadySaca
<1>4. PICK s \in Inserciones(colas["ready"], q) : colas' = [colas EXCEPT !["ready"] = s, ![c] = Tail(@)]
  BY <1>3
<1>5. \A x \in ConEspera : colas[x] \in Seq(Queries)
  BY DEF EnOrden, Tipos, MasterOK, ColasOK, Colas, ConEspera
<1>6. /\ colas'["ready"] = s /\ colas'[c] = Tail(colas[c])
      /\ \A x \in ConEspera : x \notin {"ready", c} => colas'[x] = colas[x]
  BY <1>4 DEF EnOrden, Tipos, MasterOK, ColasOK, Colas, ConEspera
<1>7. q \in Queries /\ q \in ToSet(colas[c]) /\ ToSet(Tail(colas[c])) \subseteq ToSet(colas[c])
  <2>1. colas[c] \in Seq(Queries)
    BY <1>5 DEF ConEspera
  <2> QED
    BY <1>2, <1>3, <2>1, CabezaTipo, TailElementos, SinUnoConjunto
<1>8. SoloHilo(Ready) /\ hilo'[Ready].pc = "codEspera"
  BY <1>1, <1>3 DEF SoloHilo, EnOrden, Tipos, MasterOK, HiloOK, Hilo
<1>9. ToSet(s) = ToSet(colas["ready"]) \cup {q}
  BY <1>5, <1>7, InsercionesConjunto DEF ConEspera
<1>10. SoloConectadas'
  <2>1. \A x \in ConEspera : \A p \in ToSet(colas'[x]) : Conocida(p)
    <3> SUFFICES ASSUME NEW x \in ConEspera, NEW p \in ToSet(colas'[x]) PROVE Conocida(p)
      OBVIOUS
    <3>1. \E y \in ConEspera : p \in ToSet(colas[y])
      BY <1>6, <1>7, <1>9 DEF ConEspera
    <3> QED
      BY <3>1 DEF Conocida
  <2>2. \A w \in Workers : Suya(w)' = Suya(w)
    BY <1>1, <1>8, HilosTipo DEF Suya, SoloHilo
  <2>3. \A p \in Queries : Conocida(p)' => Conocida(p)
    BY <2>1, <2>2 DEF Conocida
  <2> QED
    BY <1>1, <1>8, <2>3, ConectadasPaso DEF EnOrden, Orden
<1>11. ConMarca'
  BY <1>1, <1>3, <1>8, MarcaPaso DEF EnOrden, Orden
<1>12. ReadyOrdenada'
  <2>1. Ordenada(colas["ready"]) => Ordenada(s)
    BY <1>5, <1>7, InsercionesOrden DEF EnOrden, ConEspera
  <2>2. hilo[Ready].pc # "ordenar"
    BY <1>3
  <2>3. NadieOrdena' => NadieOrdena
    BY <1>1, <1>8, <2>2, NadiePaso
  <2> QED
    BY <1>3, <1>6, <2>1, <2>3, OtroOrden DEF EnOrden, Orden
<1> QED
  BY <1>10, <1>11, <1>12 DEF Orden

\* Thread ready starts an aging thread only of a query that has none.
LEMMA ReadyPublicaOrden ==
  ASSUME EnOrden, ReadyPublica
  PROVE  Orden'
<1> USE HilosTipo, HilosNombres
<1>1. PICK q : q = hilo[Ready].actual
  OBVIOUS
<1>2. PICK si \in BOOLEAN : si <=> DebeEnvejecer(q)
  OBVIOUS
<1>3. /\ hilo[Ready].pc = "comenzarAging" /\ colas' = colas
      /\ qm' = [qm EXCEPT ![q].agingIniciado = @ \/ si]
      /\ hilo' = IF si THEN [[hilo EXCEPT ![Ready] = Inicial(Ready)] EXCEPT ![Aging(q)].pc = "condicion"]
                 ELSE [hilo EXCEPT ![Ready] = Inicial(Ready)]
  BY <1>1, <1>2 DEF ReadyPublica
<1>4. q \in Queries
  BY <1>1, <1>3 DEF EnOrden, Tipos, MasterOK, HiloOK, HiloBien, SinActual
<1>5. \A g \in Hilos : g # Ready /\ g # Aging(q) => hilo'[g] = hilo[g]
  BY <1>3 DEF EnOrden, Tipos, MasterOK, HiloOK
<1>6. ~si => hilo'[Aging(q)] = hilo[Aging(q)]
  BY <1>3, <1>4 DEF EnOrden, Tipos, MasterOK, HiloOK
<1>7. \A p \in Queries : /\ qm'[p].prioridad = qm[p].prioridad
                         /\ qm'[p].agingIniciado <=> qm[p].agingIniciado \/ (p = q /\ si)
  <2>1. ASSUME NEW p \in Queries, p # q PROVE qm'[p] = qm[p]
    BY <1>3, <1>4, <2>1 DEF EnOrden, Tipos, MasterOK, QmOK
  <2>2. qm'[q].prioridad = qm[q].prioridad /\ (qm'[q].agingIniciado <=> qm[q].agingIniciado \/ si)
    <3>1. qm' = [qm EXCEPT ![q] = [qm[q] EXCEPT !.agingIniciado = qm[q].agingIniciado \/ si]]
      BY <1>3
    <3>2. qm[q] \in Registro /\ qm'[q] = [qm[q] EXCEPT !.agingIniciado = qm[q].agingIniciado \/ si]
      BY <1>4, <3>1 DEF EnOrden, Tipos, MasterOK, QmOK
    <3> QED
      BY <3>2 DEF Registro
  <2> QED
    BY <2>1, <2>2
<1>8. SoloConectadas'
  <2>1. \A p \in Queries : hilo'[DeQuery(p)] = hilo[DeQuery(p)]
    BY <1>5
  <2>2. \A w \in Workers : hilo'[DeWorker(w)] = hilo[DeWorker(w)]
    BY <1>5
  <2>3. \A p \in Queries : Conocida(p)' => Conocida(p)
    <3>1. \A w \in Workers : Suya(w)' = Suya(w)
      BY <2>2 DEF Suya
    <3>2. colas' = colas
      BY <1>3
    <3> QED
      BY <3>1, <3>2 DEF Conocida
  <2>4. \A p \in Queries : Conectada(p) => Conectada(p)'
    BY <2>1 DEF Conectada
  <2> QED
    BY <2>3, <2>4 DEF EnOrden, Orden, SoloConectadas
<1>9. ConMarca'
  <2> SUFFICES ASSUME NEW p \in Queries, hilo'[Aging(p)].pc # "fin" PROVE qm'[p].agingIniciado
    BY DEF ConMarca
  <2>1. CASE p = q /\ si
    BY <1>7, <2>1
  <2>2. CASE ~(p = q /\ si)
    <3>1. hilo'[Aging(p)] = hilo[Aging(p)]
      BY <1>5, <1>6, <2>2
    <3> QED
      BY <1>7, <3>1 DEF EnOrden, Orden, ConMarca
  <2> QED
    BY <2>1, <2>2
<1>10. ReadyOrdenada'
  <2>1. ASSUME NadieOrdena', NEW p \in Queries PROVE hilo[Aging(p)].pc # "ordenar"
    <3>1. CASE p = q /\ si
      <4>1. ~qm[p].agingIniciado
        BY <1>2, <3>1 DEF DebeEnvejecer
      <4> QED
        BY <4>1 DEF EnOrden, Orden, ConMarca
    <3>2. CASE ~(p = q /\ si)
      <4>1. hilo'[Aging(p)] = hilo[Aging(p)]
        BY <1>5, <1>6, <3>2
      <4> QED
        BY <2>1, <4>1 DEF NadieOrdena
    <3> QED
      BY <3>1, <3>2
  <2>2. NadieOrdena' => NadieOrdena
    BY <2>1 DEF NadieOrdena
  <2>3. ToSet(colas["ready"]) \subseteq Queries
    BY DEF EnOrden, Tipos, MasterOK, ColasOK, Colas, ToSet
  <2> QED
    BY <1>3, <1>7, <2>2, <2>3, MismoOrden DEF EnOrden, Orden
<1> QED
  BY <1>8, <1>9, <1>10 DEF Orden

\* Thread ready.
LEMMA ReadyOrden ==
  ASSUME Algoritmo # "FIFO", EnOrden, PasoReady
  PROVE  Orden'
<1>1. Ready \in Hilos
  BY HilosTipo
<1>2. CASE ReadyEspera
  <2>1. Va(Ready, "esperar", ColaSiguiente) /\ colas' = colas /\ qm' = qm
    BY <1>2 DEF ReadyEspera
  <2>2. Corriente("esperar", ColaSiguiente)
    BY DEF Corriente, ColaSiguiente
  <2> QED
    BY <1>1, <2>1, <2>2, AparteVa, AparteOrden DEF EnOrden
<1>3. CASE ReadyCodEspera
  <2>1. PICK e \in {"comenzarAging", "hayExecute"} :
          PonCampo(Ready, "codEspera", e, hilo[Ready].actual, "cod", "ESPERA")
    BY <1>3 DEF ReadyCodEspera
  <2>2. Corriente("codEspera", e)
    BY DEF Corriente
  <2>3. Aparte(Ready)
    BY <1>1, <2>1, <2>2, ApartePonCampo DEF EnOrden
  <2> QED
    BY <1>1, <2>3, AparteOrden
<1>4. CASE ReadySaca("new", "sacaNew") \/ ReadySaca("desalojo", "sacaDesalojo")
  BY <1>4, ReadySacaOrden
<1> QED
  BY <1>2, <1>3, <1>4, ReadyPublicaOrden DEF PasoReady

\* exitStatus.
LEMMA ExitOrden ==
  ASSUME EnOrden, PasoExit
  PROVE  Orden'
<1>1. Exit \in Hilos /\ Exit[1] # "worker"
  BY HilosTipo, HilosNombres
<1> SUFFICES Aparte(Exit)
  BY <1>1, AparteOrden
<1>2. CASE ExitCierra
  <2>1. \E q : PonCampo(Exit, "cerrar", "esperar", q, "liberada", "todo")
    BY <1>2 DEF ExitCierra
  <2>2. Corriente("cerrar", "esperar")
    BY DEF Corriente
  <2> QED
    BY <1>1, <2>1, <2>2, ApartePonCampo DEF EnOrden
<1>3. CASE ExitLibera
  <2>1. /\ hilo[Exit].pc = "esperar" /\ colas' = [colas EXCEPT !["exit"] = Tail(@)]
        /\ \E q : /\ qm' = [qm EXCEPT ![q].liberada = "query"]
                  /\ hilo' = [hilo EXCEPT ![Exit].pc = "cerrar", ![Exit].actual = q]
    BY <1>3 DEF ExitLibera
  <2>2. SoloHilo(Exit) /\ hilo'[Exit].pc = "cerrar"
    BY <1>1, <2>1 DEF SoloHilo, EnOrden, Tipos, MasterOK, HiloOK, Hilo
  <2>3. \A c \in ConEspera : colas'[c] = colas[c]
    BY <2>1 DEF EnOrden, Tipos, MasterOK, ColasOK, Colas, ConEspera
  <2>4. \A p \in Queries : qm'[p].prioridad = qm[p].prioridad /\ qm'[p].agingIniciado = qm[p].agingIniciado
    BY <2>1 DEF EnOrden, Tipos, MasterOK, QmOK, Registro
  <2> QED
    BY <1>1, <2>1, <2>2, <2>3, <2>4 DEF Aparte
<1> QED
  BY <1>2, <1>3 DEF PasoExit

\* What PonCola of a queue that waits does.
LEMMA PonColaEspera ==
  ASSUME EnOrden, NEW h \in Hilos, NEW d, NEW e, NEW c \in ConEspera, NEW valores,
         PonCola(h, d, e, c, valores), e # "esperar"
  PROVE  /\ SoloHilo(h) /\ hilo[h].pc = d /\ hilo'[h].pc = e /\ hilo'[h].actual = hilo[h].actual
         /\ colas'[c] \in valores /\ \A x \in ConEspera \ {c} : colas'[x] = colas[x]
         /\ qm' = qm /\ colas[c] \in Seq(Queries)
<1>1. Va(h, d, e) /\ qm' = qm /\ \E s \in valores : colas' = [colas EXCEPT ![c] = s]
  BY DEF PonCola
<1>2. /\ colas'[c] \in valores /\ \A x \in ConEspera \ {c} : colas'[x] = colas[x]
      /\ colas[c] \in Seq(Queries)
  BY <1>1 DEF EnOrden, Tipos, MasterOK, ColasOK, Colas, ConEspera
<1> QED
  BY <1>1, <1>2, VaSolo DEF EnOrden, Tipos, MasterOK

\* A thread that keeps its query changes one queue, with queries some queue
\* or thread had already.
LEMMA PonColaConocida ==
  ASSUME EnOrden, NEW h \in Hilos, NEW d, NEW e, NEW c \in ConEspera, NEW valores,
         PonCola(h, d, e, c, valores), e \notin {"esperar", "conectar"}, h[1] = "aging" => d # "fin",
         \A q \in ToSet(colas'[c]) : Conocida(q)
  PROVE  SoloConectadas' /\ ConMarca'
<1>1. /\ SoloHilo(h) /\ hilo[h].pc = d /\ hilo'[h].pc = e /\ hilo'[h].actual = hilo[h].actual
      /\ \A x \in ConEspera \ {c} : colas'[x] = colas[x]
      /\ qm' = qm
  BY PonColaEspera
<1>2. \A w \in Workers : Suya(w)' = Suya(w)
  BY <1>1, HilosTipo DEF Suya, SoloHilo
<1>3. \A q \in Queries : Conocida(q)' => Conocida(q)
  BY <1>1, <1>2 DEF Conocida
<1> QED
  BY <1>1, <1>3, ConectadasPaso, MarcaPaso DEF EnOrden, Orden

\* An aging thread lowers a priority, and sorts.
LEMMA AgingOrden ==
  ASSUME EnOrden, NEW q \in Queries, PasoAging(q)
  PROVE  Orden'
<1> USE DEF EnOrden
<1>1. PICK h \in Hilos : h = Aging(q) /\ h[1] = "aging"
  BY HilosTipo, HilosNombres
<1>2. CASE AgingCondicion(q) \/ AgingDespierta(q)
  <2>1. \E d \in {"condicion", "dormido"} : \E c : \E si, no \in {"dormido", "saliendo", "disminuir", "condicion"} :
          Mira(h, d, c, si, no)
    BY <1>1, <1>2 DEF AgingCondicion, AgingDespierta
  <2>2. PICK d \in {"condicion", "dormido"} :
          \E c : \E si, no \in {"dormido", "saliendo", "disminuir", "condicion"} : Mira(h, d, c, si, no)
    BY <2>1
  <2>3. \A e \in {"dormido", "saliendo", "disminuir", "condicion"} : Corriente(d, e)
    BY DEF Corriente
  <2>4. Aparte(h)
    BY <2>2, <2>3, AparteMira
  <2> QED
    BY <2>4, AparteOrden
<1>3. CASE AgingDisminuye(q)
  <2>1. \E v : PonCampo(h, "disminuir", "ordenar", q, "prioridad", v)
    BY <1>1, <1>3 DEF AgingDisminuye
  <2>2. PICK v : PonCampo(h, "disminuir", "ordenar", q, "prioridad", v)
    BY <2>1
  <2>3. Va(h, "disminuir", "ordenar") /\ qm' = [qm EXCEPT ![q].prioridad = v] /\ colas' = colas
    BY <2>2 DEF PonCampo
  <2>4. SoloHilo(h) /\ hilo[h].pc = "disminuir" /\ hilo'[h].pc = "ordenar" /\ hilo'[h].actual = hilo[h].actual
    BY <2>3, VaSolo DEF Tipos, MasterOK
  <2>5. \A p \in Queries : qm'[p].agingIniciado = qm[p].agingIniciado
    BY <2>3 DEF Tipos, MasterOK, QmOK, Registro
  <2>6. SoloConectadas'
    <3>1. \A w \in Workers : Suya(w)' = Suya(w)
      BY <2>4, HilosTipo DEF Suya, SoloHilo
    <3>2. \A p \in Queries : Conocida(p)' => Conocida(p)
      BY <2>3, <3>1 DEF Conocida
    <3> QED
      BY <2>4, <3>2, ConectadasPaso DEF Orden
  <2>7. ConMarca'
    BY <2>4, <2>5, MarcaPaso DEF Orden
  <2>8. ReadyOrdenada'
    BY <1>1, <2>4 DEF ReadyOrdenada
  <2> QED
    BY <2>6, <2>7, <2>8 DEF Orden
<1>4. CASE AgingOrdena(q)
  <2>1. PonCola(h, "ordenar", "hayExecute", "ready", Ordenaciones(colas["ready"])) /\ "ready" \in ConEspera
    BY <1>1, <1>4 DEF AgingOrdena, ConEspera
  <2>2. PICK s \in Ordenaciones(colas["ready"]) : colas'["ready"] = s
    BY <2>1, PonColaEspera
  <2>3. qm' = qm /\ colas["ready"] \in Seq(Queries)
    BY <2>1, PonColaEspera
  <2>4. ToSet(s) = ToSet(colas["ready"])
    BY <2>3, OrdenacionesConjunto
  <2>5. Ordenada(s)
    BY DEF Ordenaciones, Ordenada, Menor
  <2>6. \A p \in ToSet(colas'["ready"]) : Conocida(p)
    BY <2>2, <2>4 DEF Conocida, ConEspera
  <2>7. SoloConectadas' /\ ConMarca'
    BY <2>1, <2>6, PonColaConocida
  <2>8. ReadyOrdenada'
    BY <2>2, <2>3, <2>5 DEF ReadyOrdenada, Ordenada, Menor
  <2> QED
    BY <2>7, <2>8 DEF Orden
<1>5. CASE AgingSale(q)
  <2>1. Va(h, "saliendo", "fin") /\ qm' = [qm EXCEPT ![q].agingIniciado = FALSE] /\ colas' = colas
    BY <1>1, <1>5 DEF AgingSale, PonCampo
  <2>2. SoloHilo(h) /\ hilo[h].pc = "saliendo" /\ hilo'[h].pc = "fin" /\ hilo'[h].actual = hilo[h].actual
    BY <2>1, VaSolo DEF Tipos, MasterOK
  <2>3. \A p \in Queries : /\ qm'[p].prioridad = qm[p].prioridad
                           /\ p # q => qm'[p].agingIniciado = qm[p].agingIniciado
    BY <2>1 DEF Tipos, MasterOK, QmOK, Registro
  <2>4. SoloConectadas'
    <3>1. \A w \in Workers : Suya(w)' = Suya(w)
      BY <2>2, HilosTipo DEF Suya, SoloHilo
    <3>2. \A p \in Queries : Conocida(p)' => Conocida(p)
      BY <2>1, <3>1 DEF Conocida
    <3> QED
      BY <2>2, <3>2, ConectadasPaso DEF Orden
  <2>5. ConMarca'
    <3> SUFFICES ASSUME NEW p \in Queries, hilo'[Aging(p)].pc # "fin" PROVE qm'[p].agingIniciado
      BY DEF ConMarca
    <3>1. p # q
      BY <1>1, <2>2
    <3>2. hilo'[Aging(p)] = hilo[Aging(p)]
      BY <1>1, <2>2, <3>1, HilosTipo, HilosNombres DEF SoloHilo
    <3> QED
      BY <2>3, <3>1, <3>2 DEF Orden, ConMarca
  <2>6. ReadyOrdenada'
    <3>1. NadieOrdena' => NadieOrdena
      BY <2>2, NadiePaso
    <3>2. ToSet(colas["ready"]) \subseteq Queries
      BY DEF Tipos, MasterOK, ColasOK, Colas, ToSet
    <3> QED
      BY <2>1, <2>3, <3>1, <3>2, MismoOrden DEF Orden
  <2> QED
    BY <2>4, <2>5, <2>6 DEF Orden
<1> QED
  BY <1>2, <1>3, <1>4, <1>5 DEF PasoAging

\* A Worker thread takes the first of listaReady.
LEMMA TomaReadyOrden ==
  ASSUME EnOrden, NEW w \in Workers, TomaReady(w)
  PROVE  Orden'
<1>1. PICK h \in Hilos : h = DeWorker(w) /\ h[1] = "worker"
  BY HilosTipo, HilosNombres
<1>2. PICK s \in Seq(Queries) : s = colas["ready"]
  BY DEF EnOrden, Tipos, MasterOK, ColasOK, Colas
<1>3. /\ hilo[h].pc = "esperar" /\ s # <<>> /\ colas' = [colas EXCEPT !["ready"] = Tail(@)] /\ qm' = qm
      /\ hilo' = [hilo EXCEPT ![h].pc = "agregar", ![h].actual = Head(s)]
  BY <1>1, <1>2 DEF TomaReady
<1>4. SoloHilo(h) /\ hilo'[h].pc = "agregar" /\ hilo'[h].actual = Head(s)
  BY <1>3 DEF SoloHilo, EnOrden, Tipos, MasterOK, HiloOK, Hilo
<1>5. colas'["ready"] = Tail(s) /\ \A x \in ConEspera \ {"ready"} : colas'[x] = colas[x]
  BY <1>2, <1>3 DEF EnOrden, Tipos, MasterOK, ColasOK, Colas, ConEspera
<1>6. SinUno(Tail(s), s, 1) /\ Head(s) \in ToSet(s) /\ ToSet(Tail(s)) \subseteq ToSet(s)
  BY <1>3, TailElementos, SinUnoConjunto
<1>7. \A p \in ToSet(s) : Conocida(p)
  BY <1>2 DEF Conocida, ConEspera
<1>8. SoloConectadas'
  <2>1. \A x \in ConEspera : \A p \in ToSet(colas'[x]) : Conocida(p)
    BY <1>5, <1>6, <1>7 DEF Conocida
  <2>2. ASSUME NEW p \in Queries, NEW v \in Workers, Suya(v)' = p PROVE Conocida(p)
    <3>1. CASE DeWorker(v) = h
      BY <1>4, <1>6, <1>7, <2>2, <3>1 DEF Suya
    <3>2. CASE DeWorker(v) # h
      <4>1. Suya(v) = p
        BY <1>4, <2>2, <3>2, HilosTipo DEF Suya, SoloHilo
      <4> QED
        BY <4>1 DEF Conocida
    <3> QED
      BY <3>1, <3>2
  <2>3. \A p \in Queries : Conocida(p)' => Conocida(p)
    BY <2>1, <2>2 DEF Conocida
  <2> QED
    BY <1>4, <2>3, ConectadasPaso DEF EnOrden, Orden
<1>9. ConMarca'
  BY <1>1, <1>3, <1>4, MarcaPaso DEF EnOrden, Orden
<1>10. ReadyOrdenada'
  <2>1. NadieOrdena' => NadieOrdena
    BY <1>3, <1>4, NadiePaso
  <2>2. Ordenada(colas["ready"]) => Ordenada(Tail(s))
    BY <1>2, <1>6, SinUnoOrden
  <2> QED
    BY <1>3, <1>5, <2>1, <2>2, OtroOrden DEF EnOrden, Orden
<1> QED
  BY <1>8, <1>9, <1>10 DEF Orden

\* An evicted query is queued again.
LEMMA DesalojaReencolaOrden ==
  ASSUME EnOrden, NEW w \in Workers, DesalojaReencola(w)
  PROVE  Orden'
<1>1. PICK h \in Hilos : h = DeWorker(w) /\ h[1] = "worker"
  BY HilosTipo, HilosNombres
<1>2. PICK q : q = Suya(w)
  OBVIOUS
<1> PICK valores : valores = {Append(colas["desalojo"], q)}
  OBVIOUS
<1>3. PonCola(h, "reencolar", "codReencolada", "desalojo", valores) /\ "desalojo" \in ConEspera
  BY <1>1, <1>2 DEF DesalojaReencola, ConEspera
<1>4. /\ SoloHilo(h) /\ hilo[h].pc = "reencolar"
      /\ colas'["desalojo"] = Append(colas["desalojo"], q) /\ qm' = qm
      /\ colas'["ready"] = colas["ready"] /\ colas["desalojo"] \in Seq(Queries)
  <2>1. /\ SoloHilo(h) /\ hilo[h].pc = "reencolar" /\ colas'["desalojo"] \in valores /\ qm' = qm
        /\ colas["desalojo"] \in Seq(Queries)
    BY <1>3, PonColaEspera
  <2>2. \A x \in ConEspera \ {"desalojo"} : colas'[x] = colas[x]
    BY <1>3, PonColaEspera
  <2> QED
    BY <2>1, <2>2 DEF ConEspera
<1>5. q \in Queries
  BY <1>1, <1>2, <1>4 DEF EnOrden, Tipos, MasterOK, HiloOK, HiloBien, SinActual, Suya
<1>6. \A p \in ToSet(colas'["desalojo"]) : Conocida(p)
  <2>1. ToSet(colas'["desalojo"]) = ToSet(colas["desalojo"]) \cup {q}
    BY <1>4, <1>5, AppendConjunto
  <2> QED
    BY <1>2, <2>1 DEF Conocida, ConEspera
<1>7. SoloConectadas' /\ ConMarca'
  BY <1>1, <1>3, <1>6, PonColaConocida
<1>8. ReadyOrdenada'
  <2>1. NadieOrdena' => NadieOrdena
    BY <1>4, NadiePaso
  <2> QED
    BY <1>4, <2>1, MismoOrden DEF EnOrden, Orden
<1> QED
  BY <1>7, <1>8 DEF Orden

\* One atenderWorker.
LEMMA WorkerOrden ==
  ASSUME EnOrden, NEW w \in Workers, PasoWorker(w)
  PROVE  Orden'
<1> USE DEF EnOrden
<1>1. PICK h \in Hilos : h = DeWorker(w)
  BY HilosTipo
<1> SUFFICES Aparte(h) \/ Orden'
  BY AparteOrden
<1> DEFINE Iguales == /\ \A c \in ConEspera : colas'[c] = colas[c]
                      /\ \A p \in Queries : /\ qm'[p].prioridad = qm[p].prioridad
                                            /\ qm'[p].agingIniciado = qm[p].agingIniciado
<1>2. CASE ConectaWorker(w) \/ AsignaQuery(w) \/ Finaliza(w) \/ DesalojaLiberaId(w) \/ DetectaCaida(w)
           \/ AvisaFin(w)
  <2>1. \E d \in {"conectar", "asignar", "finalizar", "liberarId", "recibir", "avisar"} :
        \E e \in {"esperar", "serializar", "avisar", "sacarExecute"} :
          Va(h, d, e) /\ colas' = colas /\ qm' = qm
    BY <1>1, <1>2 DEF ConectaWorker, AsignaQuery, Finaliza, DesalojaLiberaId, DetectaCaida, AvisaFin, PoneIdQuery
  <2>2. PICK d \in {"conectar", "asignar", "finalizar", "liberarId", "recibir", "avisar"},
             e \in {"esperar", "serializar", "avisar", "sacarExecute"} :
          Va(h, d, e) /\ colas' = colas /\ qm' = qm
    BY <2>1
  <2>3. Corriente(d, e)
    BY DEF Corriente
  <2> QED
    BY <2>2, <2>3, AparteVa
<1>3. CASE RecibeRespuesta(w) \/ Responde(w) \/ DesalojaPublica(w) \/ PoneFin(w)
  <2>1. \E d \in {"recibir", "responder", "codReencolada", "codFin"} :
        \E e \in {"desalojar", "responder", "finalizar", "recibir", "liberarId", "esperar", "fin"} : Va(h, d, e)
    BY <1>1, <1>3 DEF RecibeRespuesta, Responde, DesalojaPublica, PoneFin, Destino
  <2>2. PICK d \in {"recibir", "responder", "codReencolada", "codFin"},
             e \in {"desalojar", "responder", "finalizar", "recibir", "liberarId", "esperar", "fin"} : Va(h, d, e)
    BY <2>1
  <2>3. Corriente(d, e)
    BY DEF Corriente
  <2>4. colas' = colas
    BY <1>3 DEF RecibeRespuesta, Responde, DesalojaPublica, PoneFin
  <2>5. Iguales
    <3>1. CASE RecibeRespuesta(w)
      <4>1. PICK c, n : qm' = [qm EXCEPT ![Suya(w)].cod = c, ![Suya(w)].pc = n]
        BY <3>1 DEF RecibeRespuesta
      <4> QED
        BY <2>4, <4>1 DEF Tipos, MasterOK, QmOK, Registro
    <3>2. CASE Responde(w) \/ DesalojaPublica(w) \/ PoneFin(w)
      <4>1. PICK c : qm' = [qm EXCEPT ![Suya(w)].cod = c]
        BY <3>2 DEF Responde, DesalojaPublica, PoneFin
      <4> QED
        BY <2>4, <4>1 DEF Tipos, MasterOK, QmOK, Registro
    <3> QED
      BY <1>3, <3>1, <3>2
  <2> QED
    BY <2>2, <2>3, <2>5, AparteVa
<1>4. CASE PoneEjecucion(w) \/ DesalojaDesconectada(w)
  <2>1. PICK d \in {"codEjecucion", "codQCFin"}, e \in {"asignar", "codDesconectada"} :
          \E v : PonCampo(h, d, e, Suya(w), "cod", v)
    BY <1>1, <1>4 DEF PoneEjecucion, DesalojaDesconectada
  <2>2. Corriente(d, e)
    BY DEF Corriente
  <2> QED
    BY <2>1, <2>2, ApartePonCampo
<1>5. CASE AgregaExecute(w) \/ DesalojaSacaExecute(w) \/ SacaExecute(w) \/ DesalojaExit(w) \/ AgregaExit(w)
  <2>1. PICK d \in {"agregar", "desalojar", "sacarExecute", "codDesconectada", "agregarExit"},
             e \in {"codEjecucion", "mirarQC", "agregarExit", "postExit", "codFin"}, c \in {"execute", "exit"} :
          \E v : PonCola(h, d, e, c, v)
    BY <1>1, <1>5 DEF AgregaExecute, DesalojaSacaExecute, SacaExecute, DesalojaExit, AgregaExit, EncolaExit
  <2>2. Corriente(d, e) /\ c \notin ConEspera
    BY DEF Corriente, ConEspera
  <2> QED
    BY <2>1, <2>2, ApartePonCola
<1>6. CASE DesalojaMiraQC(w)
  <2>1. \E c : Mira(h, "mirarQC", c, "codQCFin", "reencolar")
    BY <1>1, <1>6 DEF DesalojaMiraQC
  <2>2. Corriente("mirarQC", "codQCFin") /\ Corriente("mirarQC", "reencolar")
    BY DEF Corriente
  <2> QED
    BY <2>1, <2>2, AparteMira
<1> QED
  BY <1>2, <1>3, <1>4, <1>5, <1>6, TomaReadyOrden, DesalojaReencolaOrden DEF PasoWorker

\* A query arrives, with a priority nobody has compared yet.
LEMMA ConectaQueryOrden ==
  ASSUME EnOrden, NEW q \in Queries, ConectaQuery(q)
  PROVE  Orden'
<1>1. PICK h \in Hilos : h = DeQuery(q) /\ h[1] = "query" /\ \A w : DeWorker(w) # h
  BY HilosTipo, HilosNombres
<1>2. /\ Va(h, "conectar", "escuchar") /\ colas' = [colas EXCEPT !["new"] = Append(@, q)]
      /\ \E p : qm' = [qm EXCEPT ![q].prioridad = p]
  BY <1>1 DEF ConectaQuery
<1>3. SoloHilo(h) /\ hilo[h].pc = "conectar" /\ hilo'[h].pc = "escuchar"
  BY <1>2, VaSolo DEF EnOrden, Tipos, MasterOK
<1>4. /\ colas'["new"] = Append(colas["new"], q) /\ colas["new"] \in Seq(Queries)
      /\ \A x \in ConEspera \ {"new"} : colas'[x] = colas[x]
  BY <1>2 DEF EnOrden, Tipos, MasterOK, ColasOK, Colas, ConEspera
<1>5. \A p \in Queries : /\ qm'[p].agingIniciado = qm[p].agingIniciado
                         /\ p # q => qm'[p].prioridad = qm[p].prioridad
  BY <1>2 DEF EnOrden, Tipos, MasterOK, QmOK, Registro
<1>6. SoloConectadas'
  <2>1. Conectada(q)'
    BY <1>1, <1>3 DEF Conectada
  <2>2. ToSet(colas'["new"]) = ToSet(colas["new"]) \cup {q}
    BY <1>4, AppendConjunto
  <2>3. \A w \in Workers : Suya(w)' = Suya(w)
    BY <1>1, <1>3, HilosTipo DEF Suya, SoloHilo
  <2>4. \A p \in Queries : Conocida(p)' => Conocida(p) \/ p = q
    BY <1>4, <2>2, <2>3 DEF Conocida
  <2>5. \A p \in Queries : Conocida(p)' => Conocida(p) \/ Conectada(p)'
    BY <2>1, <2>4
  <2> QED
    BY <1>3, <2>5, ConectadasPaso DEF EnOrden, Orden
<1>7. ConMarca'
  BY <1>1, <1>3, <1>5, MarcaPaso DEF EnOrden, Orden
<1>8. ReadyOrdenada'
  <2>1. ToSet(colas["ready"]) \subseteq Queries
    BY DEF EnOrden, Tipos, MasterOK, ColasOK, Colas, ToSet
  <2>2. q \notin ToSet(colas["ready"])
    BY <1>1, <1>3 DEF EnOrden, Orden, SoloConectadas, Conocida, Conectada, ConEspera
  <2>3. NadieOrdena' => NadieOrdena
    BY <1>3, NadiePaso
  <2>4. colas'["ready"] = colas["ready"]
    BY <1>4 DEF ConEspera
  <2> QED
    BY <1>5, <2>1, <2>2, <2>3, <2>4, MismoOrden DEF EnOrden, Orden
<1> QED
  BY <1>6, <1>7, <1>8 DEF Orden

\* A query whose Query Control left is taken out of listaReady.
LEMMA SacaDeReadyOrden ==
  ASSUME EnOrden, NEW q \in Queries, SacaDeReady(q)
  PROVE  Orden'
<1>1. PICK h \in Hilos : h = DeQuery(q) /\ h[1] = "query"
  BY HilosTipo, HilosNombres
<1>2. PICK r : r = RemoveFirst(colas["ready"], q)
  OBVIOUS
<1> PICK valores : valores = {r}
  OBVIOUS
<1>3. PonCola(h, "sacarReady", "codFinReady", "ready", valores) /\ "ready" \in ConEspera
  BY <1>1, <1>2 DEF SacaDeReady, ConEspera
<1>4. /\ SoloHilo(h) /\ hilo[h].pc = "sacarReady" /\ colas'["ready"] = r /\ qm' = qm
      /\ colas["ready"] \in Seq(Queries)
  <2>1. /\ SoloHilo(h) /\ hilo[h].pc = "sacarReady" /\ colas'["ready"] \in valores /\ qm' = qm
        /\ colas["ready"] \in Seq(Queries)
    BY <1>3, PonColaEspera
  <2> QED
    BY <2>1
<1>5. r = colas["ready"] \/ \E n : SinUno(r, colas["ready"], n)
  <2>1. CASE q \in ToSet(colas["ready"])
    BY <1>2, <1>4, <2>1, RemoveFirstElementos
  <2>2. CASE q \notin ToSet(colas["ready"])
    <3>1. DOMAIN colas["ready"] = 1 .. Len(colas["ready"])
      BY <1>4, LenProperties
    <3>2. ~\E k \in 1 .. Len(colas["ready"]) : colas["ready"][k] = q
      BY <2>2, <3>1 DEF ToSet
    <3> QED
      BY <1>2, <3>2 DEF RemoveFirst
  <2> QED
    BY <2>1, <2>2
<1>6. ToSet(r) \subseteq ToSet(colas["ready"]) /\ (Ordenada(colas["ready"]) => Ordenada(r))
  BY <1>4, <1>5, SinUnoConjunto, SinUnoOrden
<1>7. SoloConectadas' /\ ConMarca'
  <2>1. \A p \in ToSet(colas'["ready"]) : Conocida(p)
    BY <1>4, <1>6 DEF Conocida, ConEspera
  <2> QED
    BY <1>1, <1>3, <2>1, PonColaConocida
<1>8. ReadyOrdenada'
  <2>1. NadieOrdena' => NadieOrdena
    BY <1>4, NadiePaso
  <2> QED
    BY <1>4, <1>6, <2>1, OtroOrden DEF EnOrden, Orden
<1> QED
  BY <1>7, <1>8 DEF Orden

\* One atenderQuery.
LEMMA QueryOrden ==
  ASSUME EnOrden, NEW q \in Queries, PasoQuery(q)
  PROVE  Orden'
<1> USE DEF EnOrden
<1>1. PICK h \in Hilos : h = DeQuery(q) /\ h[1] = "query"
  BY HilosTipo, HilosNombres
<1> SUFFICES Aparte(h) \/ Orden'
  BY AparteOrden
<1>2. CASE DetectaDesconexion(q) \/ RegistraDesconexion(q) \/ BuscaEnReady(q)
  <2>1. PICK d \in {"escuchar", "registrar", "buscarReady"}, si \in {"desconectar", "fin", "desconectarReady"},
             no \in {"buscarReady", "fin"} :
          \E c : Mira(h, d, c, si, no)
    BY <1>1, <1>2 DEF DetectaDesconexion, RegistraDesconexion, BuscaEnReady
  <2>2. Corriente(d, si) /\ Corriente(d, no)
    BY DEF Corriente
  <2> QED
    BY <2>1, <2>2, AparteMira
<1>3. CASE DesconectaEnExecute(q)
  <2>1. /\ hilo[h].pc = "desconectar" /\ qm' = [qm EXCEPT ![q].desconectado = TRUE] /\ colas' = colas
        /\ hilo' = [hilo EXCEPT ![h].pc = "buscar", ![h].victima = q]
    BY <1>1, <1>3 DEF DesconectaEnExecute
  <2>2. SoloHilo(h) /\ hilo'[h].pc = "buscar"
    BY <2>1 DEF SoloHilo, Tipos, MasterOK, HiloOK, Hilo
  <2>3. \A p \in Queries : qm'[p].prioridad = qm[p].prioridad /\ qm'[p].agingIniciado = qm[p].agingIniciado
    BY <2>1 DEF Tipos, MasterOK, QmOK, Registro
  <2> QED
    BY <1>1, <2>1, <2>2, <2>3 DEF Aparte
<1>4. CASE DesconectaEnReady(q) \/ PoneFinReady(q)
  <2>1. PICK d \in {"desconectarReady", "codFinReady"}, e \in {"sacarReady", "exitReady"},
             campo \in {"desconectado", "cod"} :
          \E v : PonCampo(h, d, e, q, campo, v)
    BY <1>1, <1>4 DEF DesconectaEnReady, PoneFinReady
  <2>2. Corriente(d, e)
    BY DEF Corriente
  <2> QED
    BY <2>1, <2>2, ApartePonCampo
<1>5. CASE ExitDeReady(q)
  <2>1. \E v : PonCola(h, "exitReady", "postExit", "exit", v)
    BY <1>1, <1>5 DEF ExitDeReady, EncolaExit
  <2>2. Corriente("exitReady", "postExit") /\ "exit" \notin ConEspera
    BY DEF Corriente, ConEspera
  <2> QED
    BY <2>1, <2>2, ApartePonCola
<1> QED
  BY <1>2, <1>3, <1>4, <1>5, ConectaQueryOrden, SacaDeReadyOrden DEF PasoQuery

\* Nobody moves in the Master.
LEMMA QuietoOrden ==
  ASSUME EnOrden, UNCHANGED <<colas, qm, hilo>>
  PROVE  Orden'
BY DEF EnOrden, Orden, SoloConectadas, Conocida, Conectada, Suya, ConMarca, ReadyOrdenada

\* Every step keeps the order.
LEMMA OrdenPaso ==
  ASSUME Algoritmo # "FIFO", EnOrden, [Next]_vars
  PROVE  EnOrden'
<1>1. Tipos'
  BY TiposPaso DEF EnOrden
<1>2. Orden'
  <2>1. CASE UNCHANGED vars
    BY <2>1, QuietoOrden DEF vars, varsMaster
  <2>2. CASE MasterReady \/ MasterExit
    BY <2>2, ReadyOrden, ExitOrden DEF MasterReady, MasterExit
  <2>3. ASSUME NEW h \in Hilos, MasterDesalojo(h) PROVE Orden'
    BY <2>3, DesalojoOrden DEF MasterDesalojo
  <2>4. ASSUME NEW h \in Hilos, MasterFalla(h) PROVE Orden'
    <3>1. UNCHANGED <<colas, qm, hilo>>
      BY <2>4 DEF MasterFalla, PasoFalla, FallaPunteroNulo, FallaUsoTrasLiberar, FallaDobleLiberacion,
                  FallaSIGPIPE, Muere
    <3> QED
      BY <3>1, QuietoOrden
  <2>5. ASSUME NEW q \in Queries, MasterAging(q) \/ MasterQuery(q) PROVE Orden'
    BY <2>5, AgingOrden, QueryOrden DEF MasterAging, MasterQuery
  <2>6. ASSUME NEW q \in Queries, QCTermina(q) \/ QCAbandona(q) PROVE Orden'
    <3>1. UNCHANGED <<colas, qm, hilo>>
      BY <2>6 DEF QCTermina, QCAbandona, CierraQC, varsMaster
    <3> QED
      BY <3>1, QuietoOrden
  <2>7. ASSUME NEW w \in Workers, MasterWorker(w) PROVE Orden'
    BY <2>7, WorkerOrden DEF MasterWorker
  <2>8. ASSUME NEW w \in Workers, Worker(w) \/ WorkerCae(w) PROVE Orden'
    BY <2>8, QuietoOrden DEF Worker, WorkerCae, varsMaster
  <2> QED
    BY <2>1, <2>2, <2>3, <2>4, <2>5, <2>6, <2>7, <2>8 DEF Next
<1> QED
  BY <1>1, <1>2 DEF EnOrden

\* Before the first query arrives.
LEMMA OrdenInit == Init => EnOrden
<1> SUFFICES ASSUME Init PROVE EnOrden
  OBVIOUS
<1>1. Tipos
  BY TiposInit
<1>2. colas = [c \in Colas |-> <<>>] /\ hilo = [h \in Hilos |-> Inicial(h)]
  BY DEF Init, InitMaster
<1>3. SoloConectadas
  <2>1. \A c \in ConEspera : ToSet(colas[c]) = {}
    BY <1>2 DEF ConEspera, Colas, ToSet
  <2>2. \A w \in Workers : Suya(w) = Ninguna
    BY <1>2, HilosTipo, HilosNombres DEF Suya, Inicial
  <2> QED
    BY <2>1, <2>2, CanalesAssumption DEF SoloConectadas, Conocida
<1>4. ConMarca
  BY <1>2, HilosTipo, HilosNombres DEF ConMarca, Inicial
<1>5. ReadyOrdenada
  <2>1. DOMAIN colas["ready"] = {}
    BY <1>2 DEF Colas
  <2> QED
    BY <2>1 DEF ReadyOrdenada
<1> QED
  BY <1>1, <1>3, <1>4, <1>5 DEF EnOrden, Orden

\* Under PRIORIDADES listaReady is ordered by priority, but while an aging
\* thread has lowered one and not sorted yet (116-117): whoever else inserts,
\* takes out or goes between the two, and whether Query Controls stay or not.
THEOREM ReadyOrdenadaSiempre ==
  ASSUME Algoritmo # "FIFO" PROVE Spec => []ReadyOrdenada
<1>1. Init => EnOrden
  BY OrdenInit
<1>2. EnOrden /\ [Next]_vars => EnOrden'
  BY OrdenPaso
<1>3. EnOrden => ReadyOrdenada
  BY DEF EnOrden, Orden
<1> QED
  BY <1>1, <1>2, <1>3, PTL DEF Spec

=============================================================================
