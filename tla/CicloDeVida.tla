---------------------------- MODULE CicloDeVida -----------------------------
(***************************************************************************)
(* What the Master promises of the queries it accepts: each one waits,     *)
(* runs on one Worker at a time, may be taken back to wait, and is         *)
(* finished once, from a Worker.  Nothing is said of how: no queues,       *)
(* threads or packets.                                                     *)
(***************************************************************************)
CONSTANTS Queries, Workers, Ninguna

VARIABLES
  enEspera,      \* accepted queries that no Worker runs
  asignada,      \* the query each Worker runs, or Ninguna
  finalizadas    \* queries whose Query Control was told of the end

varsCiclo == <<enEspera, asignada, finalizadas>>

EnEjecucion == {asignada[w] : w \in Workers} \ {Ninguna}

Init ==
  /\ enEspera = {}
  /\ asignada = [w \in Workers |-> Ninguna]
  /\ finalizadas = {}

Llega(q) ==
  /\ q \notin enEspera \cup EnEjecucion \cup finalizadas
  /\ enEspera' = enEspera \cup {q}
  /\ UNCHANGED <<asignada, finalizadas>>

Despacha(w, q) ==
  /\ q \in enEspera /\ asignada[w] = Ninguna
  /\ enEspera' = enEspera \ {q}
  /\ asignada' = [asignada EXCEPT ![w] = q]
  /\ UNCHANGED finalizadas

Devuelve(w) ==
  /\ asignada[w] # Ninguna
  /\ enEspera' = enEspera \cup {asignada[w]}
  /\ asignada' = [asignada EXCEPT ![w] = Ninguna]
  /\ UNCHANGED finalizadas

Finaliza(w) ==
  /\ asignada[w] # Ninguna /\ asignada[w] \notin finalizadas
  /\ finalizadas' = finalizadas \cup {asignada[w]}
  /\ asignada' = [asignada EXCEPT ![w] = Ninguna]
  /\ UNCHANGED enEspera

Next ==
  \/ \E q \in Queries : Llega(q)
  \/ \E w \in Workers : Devuelve(w) \/ Finaliza(w) \/ \E q \in Queries : Despacha(w, q)

Spec == Init /\ [][Next]_varsCiclo

=============================================================================
