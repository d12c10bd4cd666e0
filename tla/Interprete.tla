----------------------------- MODULE Interprete -----------------------------
(***************************************************************************)
(* The two threads of each Worker process (worker/src/ejecucion.c and      *)
(* worker.c): escucharMaster takes packets of the Master, queryInterpreter *)
(* executes one query at a time.  What an instruction does to the memory   *)
(* and to the Storage is abstracted to its outcome.                        *)
(***************************************************************************)
EXTENDS Canales

CONSTANTS
  HayErrores,         \* the Storage or the memory may refuse an instruction
  WorkersInestables   \* Workers that may end at any moment

ASSUME InterpreteAssumption ==
  /\ HayErrores \in BOOLEAN
  /\ WorkersInestables \subseteq Workers

VARIABLES
  queryActual,    \* the t_query to run: an EJECUCION packet, or NULL
  semQuery,       \* sem_query
  interrupcion,   \* set by a DESALOJO_QUERY packet
  ejec            \* queryInterpreter: label, queryIDactual, programCounter

varsInterprete == <<queryActual, semQuery, interrupcion, ejec>>

NULL == [q |-> Ninguna, pc |-> 0]

TypeOKInterprete ==
  /\ queryActual \in [Workers -> [q : Queries \cup {Ninguna}, pc : 0 .. Largo]]
  /\ semQuery \in [Workers -> Nat]
  /\ interrupcion \in [Workers -> BOOLEAN]
  /\ ejec \in [Workers ->
       [en : {"esperar", "ejecutar", "verificar", "persistir", "muerto"},
        q : Queries \cup {Ninguna}, pc : 0 .. Largo]]

InitInterprete ==
  /\ queryActual = [w \in Workers |-> NULL]
  /\ semQuery = [w \in Workers |-> 0]
  /\ interrupcion = [w \in Workers |-> FALSE]
  /\ ejec = [w \in Workers |-> [en |-> "esperar", q |-> Ninguna, pc |-> 0]]

Corre(w) == ejec[w].en # "muerto"

Ocioso == [en |-> "esperar", q |-> Ninguna, pc |-> 0]

-----------------------------------------------------------------------------
(* Slips the code does not make (see Master).                              *)

\* "<=" for "<" (SigueEn).
SigueHastaLargo(q, n) ==
  IF n <= Largo THEN [en |-> "ejecutar", q |-> q, pc |-> n] ELSE Ocioso

\* The last line is never executed (SigueEn).
SigueSinUltima(q, n) ==
  IF n < Largo - 1 THEN [en |-> "ejecutar", q |-> q, pc |-> n] ELSE Ocioso

\* programCounter starts at 0 whatever queryActual->pc says (Toma).
TomaDesdeCero(w) ==
  /\ ejec[w].en = "esperar" /\ semQuery[w] > 0 /\ queryActual[w] # NULL
  /\ semQuery' = [semQuery EXCEPT ![w] = @ - 1]
  /\ ejec' = [ejec EXCEPT ![w] = [en |-> "ejecutar", q |-> queryActual[w].q, pc |-> 0]]
  /\ UNCHANGED <<queryActual, interrupcion, varsCanales>>

\* No break after procesarError (ProcesaError).
SigueTrasError(w) ==
  /\ ejec[w].en \in {"ejecutar", "persistir"} /\ queryActual[w] # NULL
  /\ queryActual' = [queryActual EXCEPT ![w] = NULL]
  /\ ejec' = [ejec EXCEPT ![w].en = "verificar"]
  /\ EnviaAMaster(w, [q |-> ejec[w].q, cod |-> "FIN", pc |-> 0])
  /\ UNCHANGED <<semQuery, interrupcion, aWorker, socketWorker, socketQC, avisos>>

\* queryActual stays after the confirmation (ConfirmaDesalojo).
ConfirmaSinSoltar(w) ==
  /\ ejec[w].en = "persistir"
  /\ ejec' = [ejec EXCEPT ![w] = Ocioso]
  /\ EnviaAMaster(w, [q |-> ejec[w].q, cod |-> "DESALOJO", pc |-> ejec[w].pc])
  /\ UNCHANGED <<queryActual, semQuery, interrupcion, aWorker, socketWorker, socketQC, avisos>>

-----------------------------------------------------------------------------
(* escucharMaster (4-41).                                                  *)

Escucha(w) ==
  LET p == Head(aWorker[w]) IN
  /\ Corre(w) /\ aWorker[w] # <<>>
  /\ aWorker' = [aWorker EXCEPT ![w] = Tail(@)]
  /\ queryActual' = IF p.cod = "EJECUCION"
                    THEN [queryActual EXCEPT ![w] = [q |-> p.q, pc |-> p.pc]]
                    ELSE queryActual
  /\ semQuery' = IF p.cod = "EJECUCION" THEN [semQuery EXCEPT ![w] = @ + 1] ELSE semQuery
  /\ interrupcion' = [interrupcion EXCEPT ![w] = @ \/ p.cod = "DESALOJO"]
  /\ UNCHANGED <<ejec, aMaster, socketWorker, socketQC, avisos>>

-----------------------------------------------------------------------------
(* queryInterpreter (56-151).                                              *)

\* A line remains at this program counter; otherwise the inner loop ends and
\* the thread goes back to sem_wait without a word to the Master.
SigueEn(q, n) ==
  IF n < Largo THEN [en |-> "ejecutar", q |-> q, pc |-> n] ELSE Ocioso

\* sem_wait, then the fields of queryActual are copied.
Toma(w) ==
  /\ ejec[w].en = "esperar" /\ semQuery[w] > 0 /\ queryActual[w] # NULL
  /\ semQuery' = [semQuery EXCEPT ![w] = @ - 1]
  /\ ejec' = [ejec EXCEPT ![w] = SigueEn(queryActual[w].q, queryActual[w].pc)]
  /\ UNCHANGED <<queryActual, interrupcion, varsCanales>>

Es_END(w) == ejec[w].pc = Largo - 1

\* ejecutarInstruccion succeeds without a packet to the Master.
Ejecuta(w) ==
  /\ ejec[w].en = "ejecutar" /\ ~Es_END(w)
  /\ ejec' = [ejec EXCEPT ![w].en = "verificar"]
  /\ UNCHANGED <<queryActual, semQuery, interrupcion, varsCanales>>

\* READ sends what it read (188-189).
EjecutaRead(w) ==
  /\ ejec[w].en = "ejecutar" /\ ~Es_END(w)
  /\ ejec' = [ejec EXCEPT ![w].en = "verificar"]
  /\ EnviaAMaster(w, [q |-> ejec[w].q, cod |-> "RESPUESTA", pc |-> ejec[w].pc + 1])
  /\ UNCHANGED <<queryActual, semQuery, interrupcion, aWorker, socketWorker,
                 socketQC, avisos>>

\* liberarQuery(queryActual), queryActual = NULL, and a last packet:
\* END (218-225), procesarError and confirmarDesalojo (worker.c 19-39).
Suelta(w, cod, n, hasta) ==
  /\ queryActual[w] # NULL
  /\ queryActual' = [queryActual EXCEPT ![w] = NULL]
  /\ ejec' = [ejec EXCEPT ![w] = hasta]
  /\ EnviaAMaster(w, [q |-> ejec[w].q, cod |-> cod, pc |-> n])
  /\ UNCHANGED <<semQuery, interrupcion, aWorker, socketWorker, socketQC, avisos>>

\* After END the thread goes on to look at the interruption flag.
EjecutaEnd(w) ==
  /\ ejec[w].en = "ejecutar" /\ Es_END(w)
  /\ Suelta(w, "FIN", ejec[w].pc + 1, [ejec[w] EXCEPT !.en = "verificar"])

\* An instruction, or the flush before an eviction, is refused.
ProcesaError(w) ==
  /\ HayErrores
  /\ \/ ejec[w].en = "ejecutar" /\ ~Es_END(w)
     \/ ejec[w].en = "persistir"
  /\ Suelta(w, "FIN", 0, Ocioso)

\* huboInterrupcion (43-54) resets the flag it finds set; programCounter++.
Verifica(w) ==
  LET n == ejec[w].pc + 1 IN
  /\ ejec[w].en = "verificar"
  /\ ejec' = [ejec EXCEPT ![w] =
       IF interrupcion[w] THEN [en |-> "persistir", q |-> ejec[w].q, pc |-> n]
       ELSE SigueEn(ejec[w].q, n)]
  /\ interrupcion' = [interrupcion EXCEPT ![w] = FALSE]
  /\ UNCHANGED <<queryActual, semQuery, varsCanales>>

\* persistirMemoriaCompleta went well.
ConfirmaDesalojo(w) ==
  /\ ejec[w].en = "persistir"
  /\ Suelta(w, "DESALOJO", ejec[w].pc, Ocioso)

-----------------------------------------------------------------------------
(* The end of a Worker.                                                    *)

\* queryActual is dereferenced or freed while NULL.
PunteroNuloWorker(w) ==
  /\ queryActual[w] = NULL
  /\ \/ ejec[w].en = "esperar" /\ semQuery[w] > 0
     \/ ejec[w].en = "persistir"
     \/ ejec[w].en = "ejecutar" /\ Es_END(w)

Cae(w) ==
  /\ Corre(w)
  /\ ejec' = [ejec EXCEPT ![w] = [Ocioso EXCEPT !.en = "muerto"]]
  /\ queryActual' = [queryActual EXCEPT ![w] = NULL]
  /\ semQuery' = [semQuery EXCEPT ![w] = 0]
  /\ interrupcion' = [interrupcion EXCEPT ![w] = FALSE]
  /\ CierraWorker(w)

FallaWorker(w) == PunteroNuloWorker(w) /\ Cae(w)

\* The process is killed, or SIGINT closes its connections (manejar_sigint).
CaeWorker(w) == w \in WorkersInestables /\ Cae(w)

PasoInterprete(w) ==
  \/ Escucha(w) \/ Toma(w) \/ Ejecuta(w) \/ EjecutaRead(w) \/ EjecutaEnd(w)
  \/ ProcesaError(w) \/ Verifica(w) \/ ConfirmaDesalojo(w) \/ FallaWorker(w)

=============================================================================
