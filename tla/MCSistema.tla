----------------------------- MODULE MCSistema ------------------------------
(***************************************************************************)
(* Finite instances of Sistema for TLC.                                    *)
(***************************************************************************)
EXTENDS Sistema

CONSTANTS q1, q2, q3, w1, w2

\* Queries are interchangeable, and so are Workers, unless a constant singles
\* some of them out; liveness is checked without symmetry.
SimetriaWorkers == Permutations(Workers)
Simetria == Permutations(Workers) \cup Permutations(Queries)

\* A bound on the runs with aging: nothing is explored past the moment a
\* Query Control closes its end.
QCAbiertos == \A q \in Queries : socketQC[q] = "abierto"

=============================================================================
