----------------------------- MODULE MCMemoria ------------------------------
(***************************************************************************)
(* Finite instances of Memoria and Desalojo for TLC.                       *)
(***************************************************************************)
EXTENDS Desalojo

CONSTANTS a, b, c, o, x, y, w1, w2

EnCero(n) == [k \in 1 .. n |-> [j \in 0 .. SizeBlock - 1 |-> o]]
Lleno(n) == [k \in 1 .. n |-> [j \in 0 .. SizeBlock - 1 |-> IF (k + j) % 2 = 0 THEN x ELSE y]]

\* a is being written, b was committed by another query.
MCArbol == [ft \in FileTags |->
  IF ft = a THEN [estado |-> "WORK_IN_PROGRESS", datos |-> EnCero(2)]
  ELSE IF ft = b THEN [estado |-> "COMMITED", datos |-> Lleno(2)]
  ELSE NoHay]

Pide(op, ft) == [op |-> op, ft |-> ft, dst |-> ft, dir |-> 0, tam |-> 0, datos |-> <<>>]
Escribir(ft, dir, datos) == [Pide("WRITE", ft) EXCEPT !.dir = dir, !.datos = datos]
Etiquetar(ft, dst) == [Pide("TAG", ft) EXCEPT !.dst = dst]
Leer(ft, dir, tam) == [Pide("READ", ft) EXCEPT !.dir = dir, !.tam = tam]

\* a is only written, across its two pages; b is only read; c gets everything
\* but a READ.
CadaUno ==
  {Escribir(a, 1, <<x, x, x>>), Pide("FLUSH", a), Leer(b, 1, 3), Leer(b, 2, 1)}
  \cup {Pide("CREATE", c), [Pide("TRUNCATE", c) EXCEPT !.tam = SizeBlock], Pide("COMMIT", c),
        Etiquetar(b, c), Pide("DELETE", c), Escribir(c, 0, <<x>>), Leer(b, 2, 0)}

\* A query that writes a page by page and reads b, evicted after any
\* instruction and given to either Worker.
Viajera == {Escribir(a, 0, <<x, x>>), Escribir(a, 0, <<x, y>>), Leer(b, 1, 3)}

MCGuiones == {CadaUno, Viajera}
MCDestinos == [g \in MCGuiones |-> IF g = Viajera THEN {w1, w2} ELSE {w1}]

\* These scripts are as the theorems on written pages ask.
ASSUME GuionesAssumption == SinComiteados /\ FlushEnUno

=============================================================================
