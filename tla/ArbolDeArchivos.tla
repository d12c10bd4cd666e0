-------------------------- MODULE ArbolDeArchivos ---------------------------
(***************************************************************************)
(* What the Storage promises of its file:tags: each is a sequence of       *)
(* contents of its own.  Blocks, links, hashes and mutexes do not exist    *)
(* here, so nothing done to a file:tag shows in another, and a COMMIT      *)
(* changes no content.                                                     *)
(***************************************************************************)
EXTENDS Naturals, Sequences

CONSTANTS FileTags, Base, Contenidos, Cero, NoHay

VARIABLE arbol   \* the state and the contents of each file:tag, or NoHay

FileTag(estado, datos) == [estado |-> estado, datos |-> datos]

Init ==
  arbol = [ft \in FileTags |-> IF ft = Base THEN FileTag("COMMITED", <<Cero>>) ELSE NoHay]

Editable(ft) == arbol[ft] # NoHay /\ arbol[ft].estado = "WORK_IN_PROGRESS"

Crea(ft) ==
  /\ arbol[ft] = NoHay
  /\ arbol' = [arbol EXCEPT ![ft] = FileTag("WORK_IN_PROGRESS", <<>>)]

Agrega(ft) ==
  /\ Editable(ft)
  /\ arbol' = [arbol EXCEPT ![ft].datos = Append(@, Cero)]

Recorta(ft) ==
  /\ Editable(ft) /\ arbol[ft].datos # <<>>
  /\ arbol' = [arbol EXCEPT ![ft].datos = SubSeq(@, 1, Len(@) - 1)]

Escribe(ft) ==
  /\ Editable(ft)
  /\ \E i \in DOMAIN arbol[ft].datos, c \in Contenidos :
       arbol' = [arbol EXCEPT ![ft].datos[i] = c]

Etiqueta(ft, dst) ==
  /\ arbol[ft] # NoHay /\ arbol[dst] = NoHay
  /\ arbol' = [arbol EXCEPT ![dst] = FileTag("WORK_IN_PROGRESS", arbol[ft].datos)]

Commitea(ft) ==
  /\ Editable(ft)
  /\ arbol' = [arbol EXCEPT ![ft].estado = "COMMITED"]

Borra(ft) ==
  /\ arbol[ft] # NoHay
  /\ arbol' = [arbol EXCEPT ![ft] = NoHay]

Next == \E ft \in FileTags :
  \/ Crea(ft) \/ Agrega(ft) \/ Recorta(ft) \/ Escribe(ft) \/ Commitea(ft) \/ Borra(ft)
  \/ \E dst \in FileTags : Etiqueta(ft, dst)

Spec == Init /\ [][Next]_arbol

=============================================================================
