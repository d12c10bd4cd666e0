------------------------------ MODULE Desalojo ------------------------------
(***************************************************************************)
(* A query that is evicted and goes on in another Worker: the interpreters *)
(* and memories of several Workers over one Storage.  The Master gives the *)
(* query to one Worker at a time (UnSoloEjecutor of Sistema), so one       *)
(* memory is in use and the others wait as they were left.  The pages are  *)
(* not thrown away when a query leaves.                                    *)
(***************************************************************************)
EXTENDS Memoria

CONSTANTS
  Workers,    \* the Workers connected to the Master
  Destinos    \* the Workers each script may run on

ASSUME DesalojoAssumption ==
  Destinos \in [Guiones -> (SUBSET Workers) \ {{}}]

VARIABLES
  actual,     \* the Worker that has the query
  otras,      \* the memory of each of the other Workers
  escrito     \* history: the last bytes a WRITE put on a whole first page

varsDesalojo == <<vars, actual, otras, escrito>>

\* A Worker that has run nothing: inicializarMemoriaInterna, crearBitmapWorker.
Vacia == [tablas |-> [ft \in FileTags |-> <<>>], global |-> <<>>, bitmap |-> {},
          marcos |-> [m \in Marcos |-> Cero], puntero |-> 0]

InitDesalojo ==
  /\ Init
  /\ actual \in Destinos[guion]
  /\ otras = [w \in Workers |-> Vacia]
  /\ escrito = [ft \in FileTags |-> <<>>]

EscribioPagina ==
  /\ instr.pc # "interrupcion" /\ instr'.pc = "interrupcion"
  /\ instr.p.op = "WRITE" /\ instr.p.dir = 0 /\ Len(instr.p.datos) = SizeBlock

\* A step of the Worker that has the query, up to the confirmation.
Trabaja ==
  /\ Next /\ instr.pc # "desalojo"
  /\ escrito' = IF EscribioPagina THEN [escrito EXCEPT ![instr.p.ft] = instr.p.datos] ELSE escrito
  /\ UNCHANGED <<actual, otras>>

\* The query is confirmed, waits in the Master and is given to a Worker: to
\* the same one, or to another, which finds its own memory.
Queda ==
  /\ ConfirmaDesalojo
  /\ UNCHANGED <<actual, otras, escrito>>

Pasa ==
  /\ En("desalojo")
  /\ instr' = Ociosa
  /\ \E w \in Destinos[guion] \ {actual} :
       /\ actual' = w
       /\ otras' = [otras EXCEPT ![w] = Vacia, ![actual] =
            [tablas |-> tablas, global |-> global, bitmap |-> bitmap,
             marcos |-> marcos, puntero |-> puntero]]
       /\ tablas' = otras[w].tablas /\ global' = otras[w].global
       /\ bitmap' = otras[w].bitmap /\ marcos' = otras[w].marcos
       /\ puntero' = otras[w].puntero
  /\ UNCHANGED <<arbol, escrito>>

NextDesalojo == Trabaja \/ Queda \/ Pasa

SpecDesalojo == InitDesalojo /\ [][NextDesalojo]_varsDesalojo

\* The interpreters are scheduled, the Storage answers and the Master gives an
\* evicted query to a Worker again; no script has to have another instruction.
FairDesalojo == SpecDesalojo /\ WF_varsDesalojo(instr.pc # "libre" /\ NextDesalojo)

-----------------------------------------------------------------------------
(* Properties.                                                             *)

\* The file:tags of one page that the script only writes, page by page.
DeUnaPagina == {ft \in SoloEscritos :
  \A p \in guion : p.ft = ft /\ p.op = "WRITE" => p.dir = 0 /\ Len(p.datos) = SizeBlock}

Bytes1(ft) == [k \in 1 .. SizeBlock |-> arbol[ft].datos[1][k - 1]]

\* What a query wrote before an eviction is in the Storage when the Worker
\* confirms it, and no page another Worker kept from an earlier run undoes it
\* (huboInterrupcion, persistirMemoriaCompleta, liberarVictima).
EscritoPersiste == instr.pc = "desalojo" =>
  \A ft \in DeUnaPagina : escrito[ft] # <<>> => Bytes1(ft) = escrito[ft]

-----------------------------------------------------------------------------
(* What the theorems on written pages ask of the scripts.                  *)

\* The Storage refuses to write what is committed, and persistirMemoria marks
\* the page clean all the same (619): the file:tags that a script only writes
\* and flushes are not committed from before.
SinComiteados ==
  \A g \in Guiones : \A p \in g :
    p.op = "WRITE" /\ (\A q \in g : q.ft = p.ft => q.op \in {"WRITE", "FLUSH"}) =>
      ArbolInicial[p.ft] = NoHay \/ ArbolInicial[p.ft].estado # "COMMITED"

\* A Worker keeps the pages of the queries that left, and does not hear of
\* what another one writes: a script with a FLUSH runs on one Worker.
FlushEnUno ==
  \A g \in Guiones : (\E p \in g : p.op = "FLUSH") => \E w \in Workers : Destinos[g] = {w}

=============================================================================
