----------------------------- MODULE MCStorage ------------------------------
(***************************************************************************)
(* Finite instances of Storage for TLC.                                    *)
(***************************************************************************)
EXTENDS Storage

CONSTANTS w1, w2, cero, x, y

base == <<"initial_file", "BASE">>
a1 == <<"a", "1">>
a2 == <<"a", "2">>
a3 == <<"a", "3">>
b1 == <<"b", "1">>

Pide(op, ft) == [op |-> op, ft |-> ft, dst |-> ft, n |-> 0, c |-> cero]
Crear(ft) == Pide("CREATE", ft)
Truncar(ft, n) == [Pide("TRUNCATE", ft) EXCEPT !.n = n]
Etiquetar(ft, dst) == [Pide("TAG", ft) EXCEPT !.dst = dst]
Commitear(ft) == Pide("COMMIT", ft)
Escribir(ft, n, c) == [Pide("WRITE", ft) EXCEPT !.n = n, !.c = c]
Leer(ft, n) == [Pide("READ", ft) EXCEPT !.n = n]
Borrar(ft) == Pide("DELETE", ft)

MCFileTags == {base, a1, a2, a3}
UnArchivo == {base, a1, a2}
DosArchivos == {base, a1, a2, b1}
MCBase == base

\* One Worker that asks for everything; a1 and a2 may be committed, a3 deleted.
TodoDeUno == [w \in {w1} |->
  {Crear(a1), Etiquetar(a1, a2), Etiquetar(a1, a3), Commitear(a1), Commitear(a2), Borrar(a3)}
  \cup {Truncar(a1, n) : n \in {0, 2}} \cup {Truncar(a3, 1)}
  \cup {Escribir(ft, 0, x) : ft \in {a1, a2, a3}}]

\* w1 is the only Worker that takes or gives back blocks; w2 creates, grows
\* and tags at the same time, the tag w1 writes and deletes included.
UnEscritor == [w \in {w1, w2} |->
  IF w = w1
  THEN {Commitear(a1), Borrar(a2), Escribir(a2, 0, y)} \cup {Escribir(a1, 0, c) : c \in {cero, x}}
  ELSE {Crear(a1), Truncar(a1, 2), Etiquetar(a1, a2), Etiquetar(base, a2), Leer(a2, 0)}]

\* queryEjemplo.txt and a second file: nothing is left out.
Ejemplo == [w \in {w1} |->
  {Crear(a1), Crear(b1), Truncar(a1, 1), Truncar(b1, 1), Etiquetar(a1, a2)}
  \cup {Commitear(ft) : ft \in {a1, a2, b1}} \cup {Borrar(a1)}
  \cup {Escribir(ft, 0, x) : ft \in {a1, b1}} \cup {Escribir(a2, 0, y)}]

=============================================================================
