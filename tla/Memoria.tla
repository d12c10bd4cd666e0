------------------------------ MODULE Memoria -------------------------------
(***************************************************************************)
(* The internal memory of a Worker (memoria.c) and the instructions that   *)
(* use it (ejecutarInstruccion in ejecucion.c): page tables, frames, the   *)
(* global table of LRU and CLOCK-M, and the blocks that travel to and from *)
(* the Storage, which is seen as ArbolDeArchivos promises it.              *)
(*                                                                         *)
(* Only the interpreter thread touches this memory.  A step is what it     *)
(* does up to the next request to the Storage, or one turn of a loop.      *)
(*                                                                         *)
(* A definition marked Slip is a mistake the code does not make.           *)
(***************************************************************************)
EXTENDS Integers, FiniteSets, SequencesExt

CONSTANTS
  FileTags,      \* the file:tags the queries name
  Base,          \* initial_file:BASE
  NoHay,         \* the file:tag does not exist in the Storage
  SizeBlock,     \* bytes of a block, of a page and of a frame
  CantMarcos,    \* frames: TAM_MEMORIA / SizeBlock
  Bytes,         \* what a byte may hold
  ByteCero,      \* the byte of a formatted block
  ArbolInicial,  \* what the Storage holds when the Worker connects
  Algoritmos,    \* the values of ALGORITMO_REEMPLAZO
  Guiones        \* what each query script is made of: sets of instructions

Marcos == 0 .. CantMarcos - 1
Contenidos == [0 .. SizeBlock - 1 -> Bytes]
Cero == [j \in 0 .. SizeBlock - 1 |-> ByteCero]

Instrucciones == {"CREATE", "TRUNCATE", "TAG", "DELETE", "COMMIT", "FLUSH", "WRITE", "READ"}

EnStorage == [estado : {"WORK_IN_PROGRESS", "COMMITED"}, datos : Seq(Contenidos)]

\* dir is the base address of a WRITE or READ; tam the length of a READ or the
\* new size of a TRUNCATE; the length of a WRITE is that of its content.
Instruccion ==
  [op : Instrucciones, ft : FileTags, dst : FileTags, dir : Nat, tam : Nat, datos : Seq(Bytes)]

ASSUME MemoriaAssumption ==
  /\ SizeBlock \in Nat \ {0} /\ CantMarcos \in Nat \ {0}
  /\ IsFiniteSet(FileTags) /\ Base \in FileTags /\ ByteCero \in Bytes
  /\ ArbolInicial \in [FileTags -> EnStorage \cup {NoHay}]
  /\ Algoritmos \subseteq {"LRU", "CLOCK-M"}
  /\ \A guion \in Guiones : guion \subseteq Instruccion

\* What stands for no file:tag is not one.
ASSUME NoHayAssumption == NoHay \notin EnStorage

VARIABLES
  guion,      \* the instructions of the query at hand, again and again
  arbol,      \* the state and the blocks of each file:tag in the Storage
  algoritmo,  \* configuracion->algoritmoRemplazo
  tablas,     \* the pages of each table; <<>> when there is no table
  global,     \* tablaPagGlobal: file:tag and number of each page in it
  bitmap,     \* the frames in use
  marcos,     \* memoriaInterna
  puntero,    \* puntero_clock
  instr,      \* the instruction at hand and the locals of its functions
  vivo        \* FALSE after a fault

memoria == <<tablas, global, bitmap, marcos, puntero>>
vars == <<guion, arbol, algoritmo, memoria, instr, vivo>>

Storage == INSTANCE ArbolDeArchivos

-----------------------------------------------------------------------------
(* Pages and frames.                                                       *)

Pagina == [marco : Marcos, precencia : BOOLEAN, uso : BOOLEAN, modificada : BOOLEAN]

CrearPagina(marco, flagM, precencia) ==
  [marco |-> marco, precencia |-> precencia, uso |-> TRUE, modificada |-> flagM]

\* agregarPaginasAusentes, then list_add.
AgregarPagATabla(tabla, n, pagina) ==
  tabla \o [k \in 1 .. n - Len(tabla) |-> CrearPagina(0, FALSE, FALSE)] \o <<pagina>>

EnTabla(ft, n) == n < Len(tablas[ft])
LaPagina(ft, n) == tablas[ft][n + 1]

\* encontrarNumeroDePagina: the last page with that frame, present or not.
NumeroDePagina(tabla, marco) ==
  CHOOSE n \in 0 .. Len(tabla) - 1 :
    /\ tabla[n + 1].marco = marco
    /\ \A k \in n + 1 .. Len(tabla) - 1 : tabla[k + 1].marco # marco

SinPresentes(tabla) == \A k \in DOMAIN tabla : ~tabla[k].precencia

Entrada(ft, n) == [ft |-> ft, n |-> n]

\* Slip: CLOCK-M adds at the end too.
AgregarAlFinal(lista, e, marco, tabs) ==
  Append(RemoveFirstMatch(lista, LAMBDA o : tabs[o.ft][o.n + 1].marco = marco), e)

\* agregarClockM puts the page at the position of its frame (list_add_in_index
\* ignores a position past the end), agregarLRU at the end.
AgregarGlobal(lista, e, marco, tabs) ==
  IF algoritmo = "CLOCK-M"
  THEN IF marco <= Len(lista) THEN InsertAt(lista, marco + 1, e) ELSE lista
  ELSE Append(RemoveFirstMatch(lista, LAMBDA o : tabs[o.ft][o.n + 1].marco = marco), e)

\* escribirContenidoEnMarco.
Escrito(contenido, desp, datos) ==
  [j \in 0 .. SizeBlock - 1 |->
     IF j >= desp /\ j - desp < Len(datos) THEN datos[j - desp + 1] ELSE contenido[j]]

Sobrante(desp, datos) == SubSeq(datos, SizeBlock - desp + 1, Len(datos))

\* READ_BLOCK and WRITE_BLOCK, as the Storage answers them.
HayBloque(ft, n) == arbol[ft] # NoHay /\ n < Len(arbol[ft].datos)
AceptaBloque(ft, n) == HayBloque(ft, n) /\ arbol[ft].estado # "COMMITED"
EscribeBloque(ft, n, marco) ==
  arbol' = IF AceptaBloque(ft, n)
           THEN [arbol EXCEPT ![ft].datos[n + 1] = marcos[marco]] ELSE arbol

-----------------------------------------------------------------------------
(* The interpreter.                                                        *)

Fin == [op |-> "END", ft |-> Base, dst |-> Base, dir |-> 0, tam |-> 0, datos |-> <<>>]

\* p: the instruction; pag, desp, quedan: the page, the offset in it and the
\* pages left; datos, tam: the bytes left of a WRITE or READ; lectura: what a
\* READ answers; leido: the block read; victima, vueltas, i: of the
\* replacement; tabs: the tables still to persist; luego: what follows.
Ociosa == [pc |-> "libre", p |-> Fin, pag |-> 0, desp |-> 0, quedan |-> 0, datos |-> <<>>,
           tam |-> 0, lectura |-> <<>>, leido |-> Cero, victima |-> Entrada(Base, 0),
           vueltas |-> 1, i |-> 0, tabs |-> <<>>, luego |-> "libre"]

Etiquetas == {"libre", "pagina", "asignar", "reloj", "liberar", "persistir", "commit",
              "sinPagina", "interrupcion", "desalojo"}

En(pc) == vivo /\ UNCHANGED <<guion, algoritmo, vivo>> /\ instr.pc = pc
Va(pc) == instr' = [instr EXCEPT !.pc = pc]

\* An error ends the query; procesarError touches no page.
Error == instr' = Ociosa

\* The instruction went well: huboInterrupcion is next.
Bien == Va("interrupcion")

Init ==
  /\ guion \in Guiones
  /\ arbol = ArbolInicial
  /\ algoritmo \in Algoritmos
  /\ tablas = [ft \in FileTags |-> <<>>]
  /\ global = <<>> /\ bitmap = {} /\ puntero = 0
  /\ marcos = [m \in Marcos |-> Cero]
  /\ instr = Ociosa
  /\ vivo = TRUE

\* A TRUNCATE, whose blocks ArbolDeArchivos adds or takes off one by one.
Redimensiona(ft, n) ==
  /\ Storage!Editable(ft)
  /\ arbol' = [arbol EXCEPT ![ft].datos =
       [k \in 1 .. n |-> IF k <= Len(@) THEN @[k] ELSE Cero]]

\* CREATE, TRUNCATE, TAG and DELETE only go to the Storage, which may refuse.
Directa ==
  /\ En("libre")
  /\ \E p \in guion :
       \/ /\ \/ p.op = "CREATE" /\ Storage!Crea(p.ft)
             \/ p.op = "TRUNCATE" /\ Redimensiona(p.ft, p.tam \div SizeBlock)
             \/ p.op = "TAG" /\ Storage!Etiqueta(p.ft, p.dst)
             \/ p.op = "DELETE" /\ Storage!Borra(p.ft)
          /\ Bien
       \/ /\ p.op \in {"CREATE", "TRUNCATE", "TAG", "DELETE"}
          /\ UNCHANGED arbol /\ Error
  /\ UNCHANGED memoria

\* marcosNecesarios does not count the offset in the first page.
MarcosNecesarios(largo) == (largo + SizeBlock - 1) \div SizeBlock
Largo(p) == IF p.op = "WRITE" THEN Len(p.datos) ELSE p.tam

\* escribirMemoria and leerMemoria, up to the loop.  Without a table the
\* first page is loaded before it, even when no byte is asked for.
ComienzaAcceso ==
  /\ En("libre")
  /\ \E p \in guion :
       /\ p.op \in {"WRITE", "READ"}
       /\ instr' = [Ociosa EXCEPT !.p = p,
                      !.pc = IF Largo(p) = 0 /\ tablas[p.ft] # <<>> THEN "sinPagina" ELSE "pagina",
                      !.pag = p.dir \div SizeBlock, !.desp = p.dir % SizeBlock,
                      !.quedan = MarcosNecesarios(Largo(p)), !.datos = p.datos, !.tam = p.tam]
  /\ UNCHANGED <<arbol, memoria>>

\* persistirMemoria of one table, for a FLUSH or before a COMMIT.
ComienzaPersistir ==
  /\ En("libre")
  /\ \E p \in guion :
       /\ p.op \in {"FLUSH", "COMMIT"}
       /\ instr' = [Ociosa EXCEPT !.pc = "persistir", !.p = p, !.tabs = <<p.ft>>,
                      !.luego = IF p.op = "COMMIT" THEN "commit" ELSE "interrupcion"]
  /\ UNCHANGED <<arbol, memoria>>

ConTabla == {ft \in FileTags : tablas[ft] # <<>>}

\* huboInterrupcion: persistirMemoriaCompleta when the Master evicts.  The
\* order of the tables in their list is left open.
Interrumpe ==
  /\ En("interrupcion")
  /\ \/ instr' = Ociosa
     \/ \E orden \in Bijection(1 .. Cardinality(ConTabla), ConTabla) :
          instr' = [Ociosa EXCEPT !.pc = "persistir", !.tabs = orden, !.luego = "desalojo"]
  /\ UNCHANGED <<arbol, memoria>>

-----------------------------------------------------------------------------
(* One turn of the loop over pages (352-427 and 486-571).                  *)

EsPresente == EnTabla(instr.p.ft, instr.pag) /\ LaPagina(instr.p.ft, instr.pag).precencia
EsEscritura == instr.p.op = "WRITE"

\* Slip (Leido): the offset in the page is left out.
LeidoDesdeCero(contenido, desp, tam) ==
  LET hasta == IF tam < SizeBlock - desp THEN tam ELSE SizeBlock - desp IN
  [k \in 1 .. hasta |-> contenido[k - 1]]

\* leerContenidoParaMaster and string_append: a byte 0 ends the text.
Leido(contenido, desp, tam) ==
  LET hasta == IF tam < SizeBlock - desp THEN desp + tam ELSE SizeBlock
      bytes == [k \in 1 .. hasta - desp |-> contenido[desp + k - 1]]
      ceros == {k \in DOMAIN bytes : bytes[k] = ByteCero} IN
  SubSeq(bytes, 1, IF ceros = {} THEN Len(bytes) ELSE Min(ceros) - 1)

Resto(tam, desp) == IF tam < SizeBlock - desp THEN 0 ELSE tam - (SizeBlock - desp)

\* The page at hand, in its frame, is written or read; then the next one.
AccedeA(tabs, mem) ==
  LET ft == instr.p.ft  k == instr.pag + 1  m == tabs[ft][k].marco IN
  /\ instr.quedan > 0
  /\ tablas' = [tabs EXCEPT ![ft][k].modificada = EsEscritura]
  /\ marcos' = IF EsEscritura
               THEN [mem EXCEPT ![m] = Escrito(@, instr.desp, instr.datos)] ELSE mem
  /\ instr' = [Ociosa EXCEPT
                 !.pc = IF instr.quedan = 1 THEN "interrupcion" ELSE "pagina",
                 !.p = instr.p, !.pag = k, !.quedan = instr.quedan - 1,
                 !.datos = Sobrante(instr.desp, instr.datos), !.tam = Resto(instr.tam, instr.desp),
                 !.lectura = IF EsEscritura THEN <<>>
                             ELSE instr.lectura \o Leido(mem[m], instr.desp, instr.tam)]

\* The loop makes no turn and paginaInicial is read without a value (428, 572).
SinAcceso(tabs, mem) ==
  /\ instr.quedan = 0
  /\ tablas' = tabs /\ marcos' = mem
  /\ Va("sinPagina")

PaginaInicialSinValor ==
  /\ instr.pc = "sinPagina" /\ vivo
  /\ \/ Bien /\ UNCHANGED vivo
     \/ vivo' = FALSE /\ UNCHANGED instr
  /\ UNCHANGED <<guion, arbol, algoritmo, memoria>>

Accede(tabs, mem) == AccedeA(tabs, mem) \/ SinAcceso(tabs, mem)

AccedePresente ==
  /\ En("pagina") /\ EsPresente
  /\ AccedeA(tablas, marcos)
  /\ UNCHANGED <<arbol, global, bitmap, puntero>>

\* realizarLecturaDeBloque; a page of the table is marked present before it
\* has a frame (397-399, 536-538).
LeeBloque ==
  LET ft == instr.p.ft  n == instr.pag IN
  /\ En("pagina") /\ ~EsPresente
  /\ IF HayBloque(ft, n)
     THEN /\ instr' = [instr EXCEPT !.pc = "asignar", !.leido = arbol[ft].datos[n + 1]]
          /\ tablas' = IF EnTabla(ft, n)
                       THEN [tablas EXCEPT ![ft][n + 1] =
                               CrearPagina(@.marco, EsEscritura, TRUE)]
                       ELSE tablas
     ELSE Error /\ UNCHANGED tablas
  /\ UNCHANGED <<arbol, global, bitmap, marcos, puntero>>

\* Slip: a READ leaves in the frame what the page before it had there.
CargaSinCopiar(tabs, lista, m) ==
  LET ft == instr.p.ft  n == instr.pag IN
  /\ bitmap' = bitmap \cup {m}
  /\ global' = AgregarGlobal(lista, Entrada(ft, n), m, tabs)
  /\ Accede(IF n < Len(tabs[ft]) THEN [tabs EXCEPT ![ft][n + 1].marco = m]
            ELSE [tabs EXCEPT ![ft] = AgregarPagATabla(@, n, CrearPagina(m, EsEscritura, TRUE))],
            marcos)

\* The page gets frame m: crearTabla, agregarPagATabla, or the page's own
\* field; agregarATablaGlobal.  Only a READ copies the block into the frame.
Carga(tabs, lista, m) ==
  LET ft == instr.p.ft  n == instr.pag
      cargadas == IF n < Len(tabs[ft]) THEN [tabs EXCEPT ![ft][n + 1].marco = m]
                  ELSE [tabs EXCEPT ![ft] = AgregarPagATabla(@, n, CrearPagina(m, EsEscritura, TRUE))] IN
  /\ bitmap' = bitmap \cup {m}
  /\ global' = AgregarGlobal(lista, Entrada(ft, n), m, tabs)
  /\ Accede(cargadas, IF EsEscritura THEN marcos ELSE [marcos EXCEPT ![m] = instr.leido])

\* asignarMarco: the first free frame, or a victim.
AsignaLibre ==
  LET libres == Marcos \ bitmap IN
  /\ En("asignar") /\ libres # {}
  /\ \E m \in libres : (\A o \in libres : m <= o) /\ Carga(tablas, global, m)
  /\ UNCHANGED <<arbol, puntero>>

EligeLRU ==
  /\ En("asignar") /\ algoritmo = "LRU" /\ bitmap = Marcos
  /\ instr' = [instr EXCEPT !.pc = "liberar", !.victima = Head(global)]
  /\ global' = Tail(global)
  /\ UNCHANGED <<arbol, tablas, bitmap, marcos, puntero>>

EligeClockM ==
  /\ En("asignar") /\ algoritmo = "CLOCK-M" /\ bitmap = Marcos
  /\ Va("reloj")
  /\ UNCHANGED <<arbol, memoria>>

\* One turn of elegirVictimaClockM: the odd rounds look for uso = 0 and
\* modificada = 0, the even ones for modificada = 1 and clear the uso of what
\* they pass.
\* Slip: the pointer does not go back to the first frame.
AumentarSinVuelta == puntero' = puntero + 1

AumentarPuntero == puntero' = IF puntero + 1 = CantMarcos THEN 0 ELSE puntero + 1

\* Slip: the even rounds do not clear uso.
RelojSinBajarUso ==
  LET e == global[puntero + 1]
      pagina == LaPagina(e.ft, e.n)
      ultima == instr.i + 1 = Len(global) IN
  /\ En("reloj") /\ puntero < Len(global)
  /\ IF ~pagina.uso /\ pagina.modificada = (instr.vueltas = 2)
     THEN /\ instr' = [instr EXCEPT !.pc = "liberar", !.victima = e, !.vueltas = 1, !.i = 0]
          /\ global' = RemoveAt(global, puntero + 1)
     ELSE /\ instr' = [instr EXCEPT !.i = IF ultima THEN 0 ELSE @ + 1,
                                    !.vueltas = IF ultima THEN 3 - @ ELSE @]
          /\ UNCHANGED global
  /\ AumentarPuntero
  /\ UNCHANGED <<arbol, tablas, bitmap, marcos>>

RelojMira ==
  LET e == global[puntero + 1]
      pagina == LaPagina(e.ft, e.n)
      ultima == instr.i + 1 = Len(global) IN
  /\ En("reloj") /\ puntero < Len(global)
  /\ IF ~pagina.uso /\ pagina.modificada = (instr.vueltas = 2)
     THEN /\ instr' = [instr EXCEPT !.pc = "liberar", !.victima = e, !.vueltas = 1, !.i = 0]
          /\ global' = RemoveAt(global, puntero + 1)
          /\ UNCHANGED tablas
     ELSE /\ instr' = [instr EXCEPT !.i = IF ultima THEN 0 ELSE @ + 1,
                                    !.vueltas = IF ultima THEN 3 - @ ELSE @]
          /\ tablas' = IF instr.vueltas = 2
                       THEN [tablas EXCEPT ![e.ft][e.n + 1].uso = FALSE] ELSE tablas
          /\ UNCHANGED global
  /\ AumentarPuntero
  /\ UNCHANGED <<arbol, bitmap, marcos>>

\* Slip: the page is not marked absent.
TrasLiberarPresente(e) == [tablas EXCEPT ![e.ft][e.n + 1].modificada = FALSE]

\* liberarVictima: the page leaves its frame, its block goes to the Storage
\* whatever it answers, and a table without pages present is destroyed.
TrasLiberar(e) ==
  LET tabla == [tablas[e.ft] EXCEPT ![e.n + 1].precencia = FALSE, ![e.n + 1].modificada = FALSE]
  IN [tablas EXCEPT ![e.ft] = IF SinPresentes(tabla) THEN <<>> ELSE tabla]

\* Slip (DevuelveBloque): the frame is given away before it is written.
SinDevolver(e) == UNCHANGED arbol

DevuelveBloque(e) ==
  LET m == LaPagina(e.ft, e.n).marco IN
  IF LaPagina(e.ft, e.n).modificada
  THEN EscribeBloque(e.ft, NumeroDePagina(tablas[e.ft], m), m) ELSE UNCHANGED arbol

\* The table the instruction is growing was destroyed under it.
TablaLiberada(e) ==
  e.ft = instr.p.ft /\ ~EnTabla(instr.p.ft, instr.pag) /\ TrasLiberar(e)[e.ft] = <<>>

LiberaYCarga ==
  LET e == instr.victima  m == LaPagina(e.ft, e.n).marco IN
  /\ En("liberar") /\ ~TablaLiberada(e)
  /\ DevuelveBloque(e)
  /\ Carga(TrasLiberar(e), global, m)
  /\ UNCHANGED puntero

\* agregarPagATabla uses it after the free: its two fields were overwritten
\* by the allocator, and the first access faults.
FallaTablaLiberada ==
  /\ vivo /\ instr.pc = "liberar" /\ TablaLiberada(instr.victima)
  /\ DevuelveBloque(instr.victima)
  /\ vivo' = FALSE
  /\ UNCHANGED <<guion, algoritmo, memoria, instr>>

-----------------------------------------------------------------------------
(* persistirMemoria, persistirMemoriaCompleta and COMMIT.                  *)

\* Slip: the last page of the table is left out.
ModificadasMenosUna(ft) == {n \in 0 .. Len(tablas[ft]) - 2 : LaPagina(ft, n).modificada}

Modificadas(ft) == {n \in 0 .. Len(tablas[ft]) - 1 : LaPagina(ft, n).modificada}

\* One page: it is marked clean even if the Storage refuses it, which ends
\* the query.
PersistePagina ==
  LET ft == Head(instr.tabs) IN
  /\ En("persistir") /\ instr.tabs # <<>>
  /\ \E n \in Modificadas(ft) :
       /\ \A k \in Modificadas(ft) : n <= k
       /\ EscribeBloque(ft, n, LaPagina(ft, n).marco)
       /\ tablas' = [tablas EXCEPT ![ft][n + 1].modificada = FALSE]
       /\ IF AceptaBloque(ft, n) THEN UNCHANGED instr ELSE Error
  /\ UNCHANGED <<global, bitmap, marcos, puntero>>

TerminaTabla ==
  /\ En("persistir") /\ instr.tabs # <<>> /\ Modificadas(Head(instr.tabs)) = {}
  /\ instr' = [instr EXCEPT !.tabs = Tail(@)]
  /\ UNCHANGED <<arbol, memoria>>

TerminaPersistir ==
  /\ En("persistir") /\ instr.tabs = <<>>
  /\ Va(instr.luego)
  /\ UNCHANGED <<arbol, memoria>>

\* confirmarDesalojo: the query goes back to the Master.
ConfirmaDesalojo ==
  /\ En("desalojo")
  /\ instr' = Ociosa
  /\ UNCHANGED <<arbol, memoria>>

EnviaCommit ==
  /\ En("commit")
  /\ \/ Storage!Commitea(instr.p.ft) /\ Bien
     \/ UNCHANGED arbol /\ Error
  /\ UNCHANGED memoria

-----------------------------------------------------------------------------

Recibe == Directa \/ ComienzaAcceso \/ ComienzaPersistir

Sigue ==
  \/ AccedePresente \/ LeeBloque \/ AsignaLibre \/ EligeLRU \/ EligeClockM \/ RelojMira
  \/ LiberaYCarga \/ FallaTablaLiberada \/ PaginaInicialSinValor
  \/ PersistePagina \/ TerminaTabla \/ TerminaPersistir \/ EnviaCommit
  \/ Interrumpe \/ ConfirmaDesalojo

Next == Recibe \/ Sigue

Spec == Init /\ [][Next]_vars

\* The interpreter thread is scheduled and the Storage answers; no script is
\* obliged to have another instruction.
FairSpec == Spec /\ WF_vars(Sigue)

-----------------------------------------------------------------------------
(* Properties.                                                             *)

Turno ==
  [pc : Etiquetas, p : Instruccion \cup {Fin}, pag : Nat, desp : 0 .. SizeBlock - 1, quedan : Nat,
   datos : Seq(Bytes), tam : Nat, lectura : Seq(Bytes), leido : Contenidos,
   victima : [ft : FileTags, n : Nat], vueltas : {1, 2}, i : Nat, tabs : Seq(FileTags),
   luego : Etiquetas]

TypeOK ==
  /\ arbol \in [FileTags -> EnStorage \cup {NoHay}]
  /\ algoritmo \in Algoritmos
  /\ tablas \in [FileTags -> Seq(Pagina)]
  /\ global \in Seq([ft : FileTags, n : Nat])
  /\ bitmap \subseteq Marcos
  /\ marcos \in [Marcos -> Contenidos]
  /\ puntero \in Marcos
  /\ instr \in Turno
  /\ vivo \in BOOLEAN

\* No page is between its old frame and its new one.
Quieta == instr.pc \notin {"asignar", "reloj", "liberar"}

Paginas == UNION {{Entrada(ft, n) : n \in 0 .. Len(tablas[ft]) - 1} : ft \in FileTags}
Presentes == {e \in Paginas : LaPagina(e.ft, e.n).precencia}
Marco(e) == LaPagina(e.ft, e.n).marco

\* Two pages never share a frame and the bitmap has exactly the frames of
\* the pages present; an absent page is clean, or a flush would write another
\* page's frame in its block (asignarMarco, liberarVictima).
MarcosCoherentes == Quieta =>
  /\ bitmap = {Marco(e) : e \in Presentes}
  /\ \A e, f \in Presentes : Marco(e) = Marco(f) => e = f
  /\ \A e \in Paginas \ Presentes : ~LaPagina(e.ft, e.n).modificada

\* The replacement sees each page present once; under CLOCK-M the position
\* of a page is its frame, which is what the pointer counts.
TablaGlobalExacta == Quieta =>
  /\ ToSet(global) = Presentes /\ Len(global) = Cardinality(Presentes)
  /\ algoritmo = "CLOCK-M" => \A i \in DOMAIN global : Marco(global[i]) = i - 1

\* The file:tags the scripts only read, and those they only write and flush.
Usos(ft) == {p.op : p \in {r \in guion : r.ft = ft}}
SoloLeidos == {ft \in FileTags : Usos(ft) \subseteq {"READ", "TAG"}}
SoloEscritos == {ft \in FileTags : Usos(ft) \subseteq {"WRITE", "FLUSH"}}

\* Whatever the other file:tags lose, a page of one that is only read shows
\* the block the Storage holds.
AjenasFieles == Quieta =>
  \A e \in Presentes : e.ft \in SoloLeidos => marcos[Marco(e)] = arbol[e.ft].datos[e.n + 1]

\* The bytes of a file:tag that a READ reaches; the pages it visits are
\* counted without the offset in the first one, so the last ones may be missing.
Alcanza(p) ==
  LET cubre == MarcosNecesarios(p.tam) * SizeBlock - (p.dir % SizeBlock)
      hasta == p.dir + Min({p.tam, cubre}) - 1 IN
  [k \in 1 .. hasta - p.dir + 1 |->
     LET d == p.dir + k - 1 IN arbol[p.ft].datos[d \div SizeBlock + 1][d % SizeBlock]]

\* What a READ answers to the Query Control is what the Storage holds at those
\* addresses, across pages and whatever they replaced (a byte 0 cuts a page).
LecturaFiel ==
  (instr.pc = "interrupcion" /\ instr.p.op = "READ" /\ instr.p.ft \in SoloLeidos) =>
    (ByteCero \notin Range(Alcanza(instr.p)) => instr.lectura = Alcanza(instr.p))

\* After a FLUSH of a file:tag that is only written, its pages in memory and
\* their blocks are the same.
IgualQueStorage(ft) == \A e \in Presentes :
  e.ft = ft => HayBloque(ft, e.n) /\ marcos[Marco(e)] = arbol[ft].datos[e.n + 1]

TerminaFlush(ft) ==
  /\ instr.p.op = "FLUSH" /\ instr.p.ft = ft
  /\ instr.pc = "persistir" /\ instr'.pc = instr.luego

FlushPersiste == [][\A ft \in SoloEscritos : TerminaFlush(ft) => IgualQueStorage(ft)]_vars

\* Every instruction ends, whatever round CLOCK-M is in, or the Worker dies.
TodaInstruccionTermina == [](instr.pc # "libre" => <>(instr.pc = "libre" \/ ~vivo))

=============================================================================
