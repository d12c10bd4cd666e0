------------------------------ MODULE Canales ------------------------------
(***************************************************************************)
(* The sockets between the processes: Master <-> Worker and Master <->     *)
(* Query Control (utils: paquetes.c, estructuras.c, servidor.c).           *)
(*                                                                         *)
(* A packet is a record: the query it speaks of, the codigo_accion_query   *)
(* it carries and a program counter.  A t_respuesta_query does not carry   *)
(* the id of the query; the field q of a reply is kept for the properties  *)
(* only and no action of the Master reads it.                              *)
(***************************************************************************)
EXTENDS Integers, Sequences, FiniteSets

CONSTANTS
  Queries,   \* the queries submitted, one Query Control process each
  Workers,   \* the Worker processes (one connection to the Master each)
  Ninguna,   \* NULL, or an id of -1: no query, no worker
  Largo      \* instructions of every query script, the last one is END

ASSUME CanalesAssumption ==
  /\ IsFiniteSet(Queries) /\ IsFiniteSet(Workers)
  /\ Queries \cap Workers = {}
  /\ Ninguna \notin Queries \cup Workers
  /\ Largo \in Nat \ {0}

VARIABLES
  aWorker,       \* packets sent by the Master, not yet read by each Worker
  aMaster,       \* packets sent by each Worker, not yet read by the Master
  socketWorker,  \* state of the Master's end of each Worker connection
  socketQC,      \* the same for each Query Control connection
  avisos         \* FIN_QUERY packets written to each Query Control

varsCanales == <<aWorker, aMaster, socketWorker, socketQC, avisos>>

\* What the peer did with its end: still open, closed, or closed and reset
\* (a packet was sent to it afterwards, or it left packets unread).
EstadoSocket == {"abierto", "cerrado", "roto"}

CodAccion == {"CREACION", "EJECUCION", "DESALOJO", "ESPERA", "RESPUESTA", "FIN"}

Paquete == [q : Queries, cod : CodAccion, pc : 0 .. Largo]

TypeOKCanales ==
  /\ aWorker \in [Workers -> Seq(Paquete)]
  /\ aMaster \in [Workers -> Seq(Paquete)]
  /\ socketWorker \in [Workers -> EstadoSocket]
  /\ socketQC \in [Queries -> EstadoSocket]
  /\ avisos \in [Queries -> Nat]

InitCanales ==
  /\ aWorker = [w \in Workers |-> <<>>]
  /\ aMaster = [w \in Workers |-> <<>>]
  /\ socketWorker = [w \in Workers |-> "abierto"]
  /\ socketQC = [q \in Queries |-> "abierto"]
  /\ avisos = [q \in Queries |-> 0]

\* send() ignores its result: to a closed peer the packet is lost and the
\* answer to it resets the connection; a later send may raise SIGPIPE.
TrasEnviar(estado) == IF estado = "abierto" THEN "abierto" ELSE "roto"

\* enviarQuery, the send: the packet reaches an open worker.
EnviaAWorker(w, p) ==
  /\ aWorker' = IF socketWorker[w] = "abierto"
                THEN [aWorker EXCEPT ![w] = Append(@, p)]
                ELSE aWorker
  /\ socketWorker' = [socketWorker EXCEPT ![w] = TrasEnviar(@)]
  /\ UNCHANGED <<aMaster, socketQC, avisos>>

\* enviarRespuestaQuery from the Master to the Query Control of q: only the
\* FIN_QUERY packets are counted, a RESPUESTA_QUERY is printed and forgotten.
EnviaAQC(q, cod) ==
  /\ avisos' = IF cod = "FIN" /\ socketQC[q] = "abierto"
               THEN [avisos EXCEPT ![q] = @ + 1]
               ELSE avisos
  /\ socketQC' = [socketQC EXCEPT ![q] = TrasEnviar(@)]
  /\ UNCHANGED <<aWorker, aMaster, socketWorker>>

\* enviarRespuestaQuery from worker w to the Master.
EnviaAMaster(w, p) == aMaster' = [aMaster EXCEPT ![w] = Append(@, p)]

\* A process ends: the system closes its end.  Packets it had not read make
\* the close a reset.
CierraWorker(w) ==
  /\ socketWorker' = [socketWorker EXCEPT
       ![w] = IF aWorker[w] = <<>> THEN "cerrado" ELSE "roto"]
  /\ aWorker' = [aWorker EXCEPT ![w] = <<>>]
  /\ UNCHANGED <<aMaster, socketQC, avisos>>

=============================================================================
