---------------------------- MODULE Memoria_proofs ----------------------------
(***************************************************************************)
(* The memory of a Worker is coherent whatever it loads, replaces and      *)
(* flushes, under LRU and under CLOCK-M, for any number of frames, files   *)
(* and Workers a query goes through: pages, bitmap and global table agree, *)
(* and what is only read shows what the Storage holds.  What a query wrote *)
(* is in the Storage once it was flushed or evicted, and a READ answers    *)
(* the bytes that the Storage holds at its addresses.                      *)
(***************************************************************************)
EXTENDS Desalojo, Listas_proofs

-----------------------------------------------------------------------------
(* The invariant.                                                          *)

Entradas == [ft : FileTags, n : Nat]

Pag(tabs, e) == tabs[e.ft][e.n + 1]
Tiene(tabs, e) == e.n < Len(tabs[e.ft])

\* The pages in a frame of their own; those of fuera have none yet.
EnMarco(tabs, fuera) == {e \in Entradas : Tiene(tabs, e) /\ Pag(tabs, e).precencia} \ fuera

\* The bitmap and the pages.
MarcosBien(tabs, usados, fuera) ==
  /\ usados = {Pag(tabs, e).marco : e \in EnMarco(tabs, fuera)}
  /\ \A e, f \in EnMarco(tabs, fuera) : Pag(tabs, e).marco = Pag(tabs, f).marco => e = f
  /\ \A e \in Entradas :
       Tiene(tabs, e) /\ ~Pag(tabs, e).precencia => ~Pag(tabs, e).modificada

\* tablaPagGlobal and the pages: under CLOCK-M each page is at the position
\* of its frame, but for the hole that the victim left.
GlobalBien(tabs, lista, fuera, hueco) ==
  /\ ToSet(lista) = EnMarco(tabs, fuera) /\ IsInjective(lista)
  /\ algoritmo = "CLOCK-M" =>
       \A i \in DOMAIN lista : Pag(tabs, lista[i]).marco = IF i - 1 < hueco THEN i - 1 ELSE i

\* The page that is being loaded, from the READ_BLOCK to its frame.
Cargando == {"asignar", "reloj", "liberar"}
Nueva == Entrada(instr.p.ft, instr.pag)
AlAire == IF instr.pc \in Cargando THEN {Nueva} ELSE {}

\* The victim, out of the global table and not yet out of its frame.
Sacada == IF instr.pc = "liberar" THEN {instr.victima} ELSE {}
Hueco == IF instr.pc = "liberar" THEN Pag(tablas, instr.victima).marco ELSE CantMarcos

Coherente ==
  /\ MarcosBien(tablas, bitmap, AlAire)
  /\ GlobalBien(tablas, global, AlAire \cup Sacada, Hueco)
  /\ instr.pc \in {"reloj", "liberar"} => bitmap = Marcos
  /\ instr.pc = "liberar" => instr.victima \in EnMarco(tablas, AlAire)
  /\ instr.pc \in Cargando /\ Tiene(tablas, Nueva) => Pag(tablas, Nueva).precencia
  /\ instr.pc = "reloj" => algoritmo = "CLOCK-M"

MemoriaBien == TypeOK /\ Coherente

\* What the instruction at hand is.
Papel ==
  /\ guion \in Guiones
  /\ instr.p \in guion \cup {Fin}
  /\ instr.pc \in {"pagina"} \cup Cargando => instr.p \in guion /\ instr.p.op \in {"READ", "WRITE"}
  /\ instr.pc = "commit" \/ (instr.pc = "persistir" /\ instr.luego = "commit") =>
       instr.p \in guion /\ instr.p.op = "COMMIT"
  /\ instr.pc = "persistir" =>
       /\ instr.luego \in {"commit", "interrupcion", "desalojo"}
       /\ instr.luego = "desalojo" => instr.p = Fin

\* The pages of what is only read.
Hay(archivos, ft, n) == archivos[ft] # NoHay /\ n < Len(archivos[ft].datos)
LimpiasDe(tabs, S) ==
  \A e \in Entradas : e.ft \in S /\ Tiene(tabs, e) => ~Pag(tabs, e).modificada
IgualesDe(archivos, tabs, mem, fuera, S) ==
  \A e \in EnMarco(tabs, fuera) : e.ft \in S =>
    /\ Hay(archivos, e.ft, e.n)
    /\ mem[Pag(tabs, e).marco] = archivos[e.ft].datos[e.n + 1]

Fieles ==
  /\ LimpiasDe(tablas, SoloLeidos)
  /\ IgualesDe(arbol, tablas, marcos, AlAire, SoloLeidos)
  /\ instr.pc \in Cargando /\ instr.p.ft \in SoloLeidos =>
       /\ Hay(arbol, instr.p.ft, instr.pag)
       /\ instr.leido = arbol[instr.p.ft].datos[instr.pag + 1]

\* The memory of the Workers that do not have the query.
OtraBien(o) ==
  /\ o \in [tablas : [FileTags -> Seq(Pagina)], global : Seq(Entradas), bitmap : SUBSET Marcos,
            marcos : [Marcos -> Contenidos], puntero : Marcos]
  /\ MarcosBien(o.tablas, o.bitmap, {})
  /\ GlobalBien(o.tablas, o.global, {}, CantMarcos)
OtraFiel(o) ==
  /\ LimpiasDe(o.tablas, FileTags)
  /\ IgualesDe(arbol, o.tablas, o.marcos, {}, SoloLeidos)

OtrasBien ==
  /\ otras = [w \in Workers |-> otras[w]]
  /\ \A w \in Workers : OtraBien(otras[w]) /\ OtraFiel(otras[w])

\* persistirMemoriaCompleta: the tables gone through have no page to write.
Persistidas ==
  /\ instr.pc = "persistir" /\ instr.luego = "desalojo" =>
       LimpiasDe(tablas, FileTags \ ToSet(instr.tabs))
  /\ instr.pc = "desalojo" => LimpiasDe(tablas, FileTags)

-----------------------------------------------------------------------------
(* Pages and tables.                                                       *)

Tablas == [FileTags -> Seq(Pagina)]

\* A page of a table is typed, and is what the code's index names.
LEMMA PagTipo ==
  ASSUME NEW t \in Tablas, NEW e \in Entradas, Tiene(t, e)
  PROVE  /\ e.ft \in FileTags /\ e.n + 1 \in 1 .. Len(t[e.ft]) /\ t[e.ft] \in Seq(Pagina)
         /\ Pag(t, e) \in Pagina
BY ElementOfSeq DEF Tablas, Entradas, Tiene, Pag

\* An entry is its file:tag and its number.
LEMMA EntradaIgual ==
  ASSUME NEW e \in Entradas, NEW f \in Entradas
  PROVE  /\ e = f <=> e.ft = f.ft /\ e.n = f.n
         /\ Entrada(e.ft, e.n) = e
BY DEF Entradas, Entrada

\* One page of a table is replaced.
Pone(t, e, q) == [t EXCEPT ![e.ft] = [@ EXCEPT ![e.n + 1] = q]]

\* Replacing a page changes that page and the size of no table.
LEMMA PoneEfecto ==
  ASSUME NEW t \in Tablas, NEW e \in Entradas, Tiene(t, e), NEW q \in Pagina
  PROVE  /\ Pone(t, e, q) \in Tablas
         /\ \A ft \in FileTags : Len(Pone(t, e, q)[ft]) = Len(t[ft])
         /\ \A f \in Entradas : Tiene(Pone(t, e, q), f) <=> Tiene(t, f)
         /\ \A f \in Entradas : Tiene(t, f) =>
              Pag(Pone(t, e, q), f) = IF f = e THEN q ELSE Pag(t, f)
<1> DEFINE s == [t[e.ft] EXCEPT ![e.n + 1] = q]
<1>1. e.ft \in FileTags /\ e.n + 1 \in 1 .. Len(t[e.ft]) /\ t[e.ft] \in Seq(Pagina)
  BY PagTipo
<1>2. /\ s \in Seq(Pagina) /\ Len(s) = Len(t[e.ft])
      /\ \A k \in 1 .. Len(t[e.ft]) : s[k] = IF k = e.n + 1 THEN q ELSE t[e.ft][k]
  BY <1>1, ExceptSeq
<1> HIDE DEF s
<1>3. Pone(t, e, q) = [t EXCEPT ![e.ft] = s]
  BY DEF Pone, s
<1>4. Pone(t, e, q) \in Tablas
  BY <1>1, <1>2, <1>3 DEF Tablas
<1>5. \A ft \in FileTags : Pone(t, e, q)[ft] = IF ft = e.ft THEN s ELSE t[ft]
  BY <1>3 DEF Tablas
<1>6. \A f \in Entradas : Tiene(Pone(t, e, q), f) <=> Tiene(t, f)
  BY <1>2, <1>5 DEF Entradas, Tiene
<1>7. ASSUME NEW f \in Entradas, Tiene(t, f)
      PROVE  Pag(Pone(t, e, q), f) = IF f = e THEN q ELSE Pag(t, f)
  <2>1. f.ft \in FileTags /\ f.n + 1 \in 1 .. Len(t[f.ft]) /\ f.n \in Nat /\ e.n \in Nat
    BY <1>7, PagTipo DEF Entradas
  <2>2. CASE f.ft = e.ft
    BY <1>2, <1>5, <2>1, <2>2, EntradaIgual DEF Pag
  <2>3. CASE f.ft # e.ft
    BY <1>5, <2>1, <2>3 DEF Pag
  <2> QED
    BY <2>2, <2>3
<1>8. \A ft \in FileTags : Len(Pone(t, e, q)[ft]) = Len(t[ft])
  BY <1>2, <1>5
<1> QED
  BY <1>4, <1>6, <1>7, <1>8

\* The pages of u are those of t, in the same frames.
Retocadas(t, u) ==
  /\ \A f \in Entradas : Tiene(u, f) <=> Tiene(t, f)
  /\ \A f \in Entradas : Tiene(t, f) =>
       Pag(u, f).marco = Pag(t, f).marco /\ Pag(u, f).precencia = Pag(t, f).precencia

\* What the flags tell apart is nothing to the frames.
LEMMA RetocadasBien ==
  ASSUME NEW t \in Tablas, NEW u \in Tablas, Retocadas(t, u), NEW fuera, NEW usados,
         MarcosBien(t, usados, fuera),
         \A f \in Entradas : Tiene(u, f) /\ ~Pag(u, f).precencia => ~Pag(u, f).modificada
  PROVE  EnMarco(u, fuera) = EnMarco(t, fuera) /\ MarcosBien(u, usados, fuera)
<1>1. EnMarco(u, fuera) = EnMarco(t, fuera)
  BY DEF EnMarco, Retocadas
<1>2. \A e \in EnMarco(t, fuera) : Pag(u, e).marco = Pag(t, e).marco
  BY DEF EnMarco, Retocadas
<1>3. {Pag(u, e).marco : e \in EnMarco(t, fuera)} = {Pag(t, e).marco : e \in EnMarco(t, fuera)}
  BY <1>2
<1> QED
  BY <1>1, <1>2, <1>3 DEF MarcosBien

\* Pages that keep their frame leave the global table as it was.
LEMMA RetocadasGlobal ==
  ASSUME NEW t, NEW u, Retocadas(t, u), NEW fuera, NEW hueco,
         NEW lista, GlobalBien(t, lista, fuera, hueco)
  PROVE  GlobalBien(u, lista, fuera, hueco)
<1>1. EnMarco(u, fuera) = EnMarco(t, fuera)
  BY DEF EnMarco, Retocadas
<1>2. \A i \in DOMAIN lista : lista[i] \in EnMarco(t, fuera)
  BY DEF GlobalBien, ToSet
<1>3. \A i \in DOMAIN lista : Pag(u, lista[i]).marco = Pag(t, lista[i]).marco
  BY <1>2 DEF EnMarco, Retocadas
<1> QED
  BY <1>1, <1>3 DEF GlobalBien

-----------------------------------------------------------------------------
(* A page gets a frame.                                                    *)

\* Carga's tables: the page of e has frame m, in the table or at its end.
ConMarco(t, e, m, flagM) ==
  IF e.n < Len(t[e.ft]) THEN [t EXCEPT ![e.ft][e.n + 1].marco = m]
  ELSE [t EXCEPT ![e.ft] = AgregarPagATabla(@, e.n, CrearPagina(m, flagM, TRUE))]

\* agregarPaginasAusentes and list_add.
LEMMA AgregarPagATablaEfecto ==
  ASSUME NEW s \in Seq(Pagina), NEW n \in Nat, n >= Len(s), NEW q \in Pagina
  PROVE  /\ AgregarPagATabla(s, n, q) \in Seq(Pagina)
         /\ Len(AgregarPagATabla(s, n, q)) = n + 1
         /\ \A k \in 1 .. n + 1 : AgregarPagATabla(s, n, q)[k] =
              IF k <= Len(s) THEN s[k] ELSE IF k = n + 1 THEN q ELSE CrearPagina(0, FALSE, FALSE)
<1> DEFINE a == CrearPagina(0, FALSE, FALSE)
           b == [k \in 1 .. n - Len(s) |-> a]
           c == s \o b
<1>0. n - Len(s) \in Nat /\ Len(s) \in Nat
  BY LenProperties
<1>1. a \in Pagina
  BY MemoriaAssumption DEF CrearPagina, Pagina, Marcos
<1> HIDE DEF a
<1>2. b \in Seq(Pagina) /\ Len(b) = n - Len(s) /\ \A k \in 1 .. n - Len(s) : b[k] = a
  BY <1>0, <1>1, IsASeq
<1> HIDE DEF b
<1>3. c \in Seq(Pagina) /\ Len(c) = n
      /\ \A k \in 1 .. n : c[k] = IF k <= Len(s) THEN s[k] ELSE a
  BY <1>0, <1>2, ConcatProperties
<1> HIDE DEF c
<1>4. AgregarPagATabla(s, n, q) = Append(c, q)
  <2>1. AgregarPagATabla(s, n, q) = c \o <<q>>
    BY DEF AgregarPagATabla, a, b, c
  <2> QED
    BY <1>3, <2>1, AppendIsConcat
<1>5. /\ Append(c, q) \in Seq(Pagina) /\ Len(Append(c, q)) = n + 1
      /\ \A k \in 1 .. n : Append(c, q)[k] = c[k]
      /\ Append(c, q)[n + 1] = q
  BY <1>3, AppendProperties
<1>6. ASSUME NEW k \in 1 .. n + 1
      PROVE  Append(c, q)[k] = IF k <= Len(s) THEN s[k] ELSE IF k = n + 1 THEN q ELSE a
  <2>1. CASE k = n + 1
    BY <1>0, <1>5, <2>1
  <2>2. CASE k # n + 1
    <3>1. k \in 1 .. n
      BY <2>2
    <3> QED
      BY <1>3, <1>5, <2>2, <3>1
  <2> QED
    BY <2>1, <2>2
<1> QED
  BY <1>4, <1>5, <1>6 DEF a

\* The page of e is in frame m; of the others, only absent ones appear.
EfectoMarco(t, e, m, u) ==
  /\ u \in Tablas /\ Tiene(u, e)
  /\ Pag(u, e).marco = m
  /\ Tiene(t, e) => /\ Pag(u, e).precencia = Pag(t, e).precencia
                   /\ Pag(u, e).modificada = Pag(t, e).modificada
  /\ ~Tiene(t, e) => Pag(u, e).precencia = TRUE
  /\ \A f \in Entradas : Tiene(t, f) => Tiene(u, f)
  /\ \A f \in Entradas : Tiene(t, f) /\ f # e => Pag(u, f) = Pag(t, f)
  /\ \A f \in Entradas : Tiene(u, f) /\ ~Tiene(t, f) /\ f # e =>
       f.ft = e.ft /\ f.n < e.n /\ Pag(u, f) = CrearPagina(0, FALSE, FALSE)

\* crearTabla, agregarPagATabla and the assignment of line 400 do that.
LEMMA ConMarcoEfecto ==
  ASSUME NEW t \in Tablas, NEW e \in Entradas, NEW m \in Marcos, NEW flagM \in BOOLEAN
  PROVE  /\ EfectoMarco(t, e, m, ConMarco(t, e, m, flagM))
         /\ ~Tiene(t, e) => Pag(ConMarco(t, e, m, flagM), e).modificada = flagM
<1> DEFINE u == ConMarco(t, e, m, flagM)
<1> SUFFICES EfectoMarco(t, e, m, u) /\ (~Tiene(t, e) => Pag(u, e).modificada = flagM)
  OBVIOUS
<1>u. u = ConMarco(t, e, m, flagM)
  OBVIOUS
<1> HIDE DEF u
<1>1. CASE Tiene(t, e)
  <2> DEFINE q == [Pag(t, e) EXCEPT !.marco = m]
  <2>1. q \in Pagina /\ q.marco = m /\ q.precencia = Pag(t, e).precencia
        /\ q.modificada = Pag(t, e).modificada
    <3>1. Pag(t, e) \in Pagina
      BY <1>1, PagTipo
    <3> QED
      BY <3>1 DEF Pagina
  <2>2. u = Pone(t, e, q)
    BY <1>1, <1>u DEF ConMarco, Tiene, Pone, Pag
  <2> HIDE DEF q
  <2>3. /\ Pone(t, e, q) \in Tablas
        /\ \A f \in Entradas : Tiene(Pone(t, e, q), f) <=> Tiene(t, f)
        /\ \A f \in Entradas : Tiene(t, f) =>
             Pag(Pone(t, e, q), f) = IF f = e THEN q ELSE Pag(t, f)
    BY <1>1, <2>1, PoneEfecto
  <2> QED
    BY <1>1, <2>1, <2>2, <2>3 DEF EfectoMarco
<1>2. CASE ~Tiene(t, e)
  <2>0. PICK v \in Seq(Pagina) : v = t[e.ft]
    BY DEF Entradas, Tablas
  <2>n. e.ft \in FileTags /\ e.n \in Nat /\ e.n >= Len(v) /\ Len(v) \in Nat
    BY <1>2, <2>0, LenProperties DEF Entradas, Tablas, Tiene
  <2>1. PICK q \in Pagina : q = CrearPagina(m, flagM, TRUE)
    BY DEF CrearPagina, Pagina
  <2>q. q.marco = m /\ q.precencia = TRUE /\ q.modificada = flagM
    BY <2>1 DEF CrearPagina
  <2>2. u = [t EXCEPT ![e.ft] = AgregarPagATabla(v, e.n, q)]
    BY <1>2, <1>u, <2>0, <2>1 DEF ConMarco, Tiene
  <2>3. PICK s \in Seq(Pagina) :
        /\ s = AgregarPagATabla(v, e.n, q) /\ Len(s) = e.n + 1
        /\ \A k \in 1 .. e.n + 1 : s[k] = IF k <= Len(v) THEN v[k]
             ELSE IF k = e.n + 1 THEN q ELSE CrearPagina(0, FALSE, FALSE)
    <3>1. PICK n \in Nat : n = e.n
      BY <2>n
    <3>2. n >= Len(v)
      BY <2>n, <3>1
    <3>3. /\ AgregarPagATabla(v, n, q) \in Seq(Pagina)
          /\ Len(AgregarPagATabla(v, n, q)) = n + 1
          /\ \A k \in 1 .. n + 1 : AgregarPagATabla(v, n, q)[k] =
               IF k <= Len(v) THEN v[k] ELSE IF k = n + 1 THEN q ELSE CrearPagina(0, FALSE, FALSE)
      BY <3>2, AgregarPagATablaEfecto
    <3> QED
      BY <3>1, <3>3
  <2>4. u \in Tablas /\ \A ft \in FileTags : u[ft] = IF ft = e.ft THEN s ELSE t[ft]
    BY <2>n, <2>2, <2>3 DEF Tablas
  <2>5. Tiene(u, e) /\ Pag(u, e) = q
    <3>1. u[e.ft] = s /\ e.n + 1 \in 1 .. e.n + 1 /\ ~(e.n + 1 <= Len(v)) /\ e.n < e.n + 1
      BY <2>n, <2>4
    <3>2. s[e.n + 1] = q
      BY <2>3, <3>1
    <3> QED
      BY <2>3, <3>1, <3>2 DEF Tiene, Pag
  <2>6. ASSUME NEW f \in Entradas, Tiene(t, f) PROVE Tiene(u, f) /\ Pag(u, f) = Pag(t, f)
    <3>1. f.ft \in FileTags /\ f.n \in Nat
      BY DEF Entradas
    <3>2. CASE f.ft = e.ft
      <4>1. f.n < Len(v)
        BY <2>0, <2>6, <3>2 DEF Tiene
      <4>2. u[f.ft] = s /\ f.n + 1 \in 1 .. e.n + 1 /\ f.n + 1 <= Len(v) /\ f.n < e.n + 1
        BY <2>n, <2>4, <3>1, <3>2, <4>1
      <4>3. s[f.n + 1] = v[f.n + 1]
        BY <2>3, <4>2
      <4> QED
        BY <2>0, <2>3, <3>2, <4>2, <4>3 DEF Tiene, Pag
    <3>3. CASE f.ft # e.ft
      BY <2>4, <2>6, <3>1, <3>3 DEF Tiene, Pag
    <3> QED
      BY <3>2, <3>3
  <2>7. ASSUME NEW f \in Entradas, Tiene(u, f), ~Tiene(t, f), f # e
        PROVE  f.ft = e.ft /\ f.n < e.n /\ Pag(u, f) = CrearPagina(0, FALSE, FALSE)
    <3>1. f.ft \in FileTags /\ f.n \in Nat
      BY DEF Entradas
    <3>2. f.ft = e.ft
      BY <2>4, <2>7, <3>1 DEF Tiene
    <3>3. u[f.ft] = s /\ f.n < e.n + 1 /\ ~(f.n < Len(v))
      BY <2>0, <2>3, <2>4, <2>7, <3>1, <3>2 DEF Tiene
    <3>5. f.n # e.n
      BY <2>7, <3>2, EntradaIgual
    <3>4. f.n + 1 \in 1 .. e.n + 1 /\ f.n + 1 # e.n + 1 /\ f.n < e.n /\ ~(f.n + 1 <= Len(v))
      BY <2>n, <3>1, <3>3, <3>5
    <3> QED
      BY <2>3, <3>2, <3>3, <3>4 DEF Pag
  <2> QED
    BY <1>2, <2>q, <2>4, <2>5, <2>6, <2>7 DEF EfectoMarco
<1> QED
  BY <1>1, <1>2

\* The frame given was free, so no two pages share it.
LEMMA CargaMarcos ==
  ASSUME NEW t \in Tablas, NEW e \in Entradas, NEW m \in Marcos,
         NEW usados, MarcosBien(t, usados, {e}), m \notin usados,
         Tiene(t, e) => Pag(t, e).precencia,
         NEW u, EfectoMarco(t, e, m, u)
  PROVE  EnMarco(u, {}) = EnMarco(t, {e}) \cup {e} /\ MarcosBien(u, usados \cup {m}, {})
<1>1. /\ u \in Tablas /\ Tiene(u, e)
      /\ Pag(u, e).marco = m /\ Pag(u, e).precencia
      /\ \A f \in Entradas : Tiene(t, f) => Tiene(u, f)
      /\ \A f \in Entradas : Tiene(t, f) /\ f # e => Pag(u, f) = Pag(t, f)
      /\ \A f \in Entradas : Tiene(u, f) /\ ~Tiene(t, f) /\ f # e =>
           Pag(u, f) = CrearPagina(0, FALSE, FALSE)
  BY DEF EfectoMarco
<1>2. CrearPagina(0, FALSE, FALSE).precencia = FALSE /\ CrearPagina(0, FALSE, FALSE).modificada = FALSE
  BY DEF CrearPagina
<1>3. EnMarco(u, {}) = EnMarco(t, {e}) \cup {e}
  BY <1>1, <1>2 DEF EnMarco
<1>4. \A f \in EnMarco(t, {e}) : Pag(u, f).marco = Pag(t, f).marco /\ Pag(t, f).marco \in usados
  BY <1>1 DEF EnMarco, MarcosBien
<1>5. usados \cup {m} = {Pag(u, f).marco : f \in EnMarco(u, {})}
  <2>1. usados = {Pag(t, f).marco : f \in EnMarco(t, {e})}
    BY DEF MarcosBien
  <2>2. ASSUME NEW x \in usados PROVE x \in {Pag(u, f).marco : f \in EnMarco(u, {})}
    BY <1>3, <1>4, <2>1
  <2>3. m \in {Pag(u, f).marco : f \in EnMarco(u, {})}
    BY <1>1, <1>3
  <2>4. ASSUME NEW f \in EnMarco(u, {}) PROVE Pag(u, f).marco \in usados \cup {m}
    BY <1>1, <1>3, <1>4
  <2> QED
    BY <2>2, <2>3, <2>4
<1>6. ASSUME NEW f \in EnMarco(u, {}), NEW g \in EnMarco(u, {}), Pag(u, f).marco = Pag(u, g).marco
      PROVE  f = g
  <2>1. CASE f = e /\ g # e
    BY <1>1, <1>3, <1>4, <1>6, <2>1
  <2>2. CASE g = e /\ f # e
    BY <1>1, <1>3, <1>4, <1>6, <2>2
  <2>3. CASE f # e /\ g # e
    BY <1>3, <1>4, <1>6, <2>3 DEF MarcosBien
  <2> QED
    BY <2>1, <2>2, <2>3
<1>7. ASSUME NEW f \in Entradas, Tiene(u, f), ~Pag(u, f).precencia PROVE ~Pag(u, f).modificada
  BY <1>1, <1>2, <1>7 DEF MarcosBien
<1> QED
  BY <1>3, <1>5, <1>6, <1>7 DEF MarcosBien

\* Under CLOCK-M the page goes to the hole, which is the position of its frame.
LEMMA CargaGlobal ==
  ASSUME NEW t \in Tablas, NEW e \in Entradas, NEW m \in Marcos,
         NEW usados, MarcosBien(t, usados, {e}), m \notin usados,
         Tiene(t, e) => Pag(t, e).precencia,
         \A f \in Marcos : f < m => f \in usados,
         NEW lista \in Seq(Entradas), GlobalBien(t, lista, {e}, m),
         NEW u, EfectoMarco(t, e, m, u)
  PROVE  /\ AgregarGlobal(lista, e, m, t) \in Seq(Entradas)
         /\ GlobalBien(u, AgregarGlobal(lista, e, m, t), {}, CantMarcos)
<1>0. /\ Len(lista) \in Nat /\ DOMAIN lista = 1 .. Len(lista)
      /\ m \in Nat /\ m < CantMarcos /\ CantMarcos \in Nat
  BY LenProperties, MemoriaAssumption DEF Marcos
<1>1. EnMarco(u, {}) = EnMarco(t, {e}) \cup {e} /\ MarcosBien(u, usados \cup {m}, {})
  BY CargaMarcos
<1>2. /\ u \in Tablas /\ Pag(u, e).marco = m
      /\ \A f \in Entradas : Tiene(t, f) /\ f # e => Pag(u, f) = Pag(t, f)
  BY DEF EfectoMarco
<1>3. /\ ToSet(lista) = EnMarco(t, {e}) /\ IsInjective(lista) /\ e \notin ToSet(lista)
  BY DEF GlobalBien, EnMarco
<1>4. \A i \in 1 .. Len(lista) : lista[i] \in EnMarco(t, {e})
  BY <1>0, <1>3 DEF ToSet
<1>5. \A i \in 1 .. Len(lista) :
        Pag(u, lista[i]).marco = Pag(t, lista[i]).marco /\ Pag(t, lista[i]).marco \in usados
  BY <1>2, <1>4 DEF EnMarco, MarcosBien
<1>6. CASE algoritmo # "CLOCK-M"
  <2>1. ~\E i \in 1 .. Len(lista) : t[lista[i].ft][lista[i].n + 1].marco = m
    BY <1>5 DEF Pag
  <2>2. AgregarGlobal(lista, e, m, t) = Append(lista, e)
    BY <1>6, <2>1 DEF AgregarGlobal, RemoveFirstMatch
  <2>3. ToSet(Append(lista, e)) = ToSet(lista) \cup {e} /\ IsInjective(Append(lista, e))
        /\ Append(lista, e) \in Seq(Entradas)
    BY <1>3, AppendConjunto, AppendProperties
  <2> QED
    BY <1>1, <1>3, <1>6, <2>2, <2>3 DEF GlobalBien
<1>7. CASE algoritmo = "CLOCK-M"
  <2>1. \A i \in 1 .. Len(lista) : Pag(t, lista[i]).marco = IF i - 1 < m THEN i - 1 ELSE i
    BY <1>0, <1>7 DEF GlobalBien
  <2>2. m <= Len(lista)
    <3> SUFFICES ASSUME Len(lista) < m PROVE FALSE
      BY <1>0
    <3>1. Len(lista) \in Marcos
      BY <1>0 DEF Marcos
    <3>2. PICK f \in EnMarco(t, {e}) : Pag(t, f).marco = Len(lista)
      BY <3>1 DEF MarcosBien
    <3>3. PICK i \in 1 .. Len(lista) : lista[i] = f
      BY <1>0, <1>3, <3>2 DEF ToSet
    <3>4. Len(lista) = IF i - 1 < m THEN i - 1 ELSE i
      BY <2>1, <3>2, <3>3
    <3> QED
      BY <1>0, <3>3, <3>4
  <2>3. PICK j \in 1 .. Len(lista) + 1 : j = m + 1
    BY <1>0, <2>2
  <2>4. PICK r \in Seq(Entradas) : r = InsertAt(lista, j, e) /\ Len(r) = Len(lista) + 1
    BY InsertAtTipo
  <2>5. AgregarGlobal(lista, e, m, t) = r
    BY <1>7, <2>2, <2>3, <2>4 DEF AgregarGlobal
  <2>6. /\ ToSet(r) = ToSet(lista) \cup {e} /\ IsInjective(r)
        /\ \A k \in 1 .. Len(lista) + 1 :
             r[k] = IF k < j THEN lista[k] ELSE IF k = j THEN e ELSE lista[k - 1]
    BY <1>3, <2>4, InsertAtConjunto, InsertAtElementos
  <2>7. ASSUME NEW k \in 1 .. Len(lista) + 1 PROVE Pag(u, r[k]).marco = k - 1
    <3>1. CASE k < j
      <4>1. k \in 1 .. Len(lista) /\ k - 1 < m
        BY <1>0, <2>3, <3>1
      <4> QED
        BY <1>5, <2>1, <2>6, <3>1, <4>1
    <3>2. CASE k = j
      BY <1>0, <1>2, <2>3, <2>6, <3>2
    <3>3. CASE k > j
      <4>1. k - 1 \in 1 .. Len(lista) /\ ~((k - 1) - 1 < m) /\ ~(k < j) /\ k # j
        BY <1>0, <2>3, <3>3
      <4> QED
        BY <1>5, <2>1, <2>6, <4>1
    <3> QED
      BY <2>3, <3>1, <3>2, <3>3
  <2>8. \A k \in DOMAIN r : Pag(u, r[k]).marco = IF k - 1 < CantMarcos THEN k - 1 ELSE k
    <3> SUFFICES ASSUME NEW k \in DOMAIN r
                 PROVE  Pag(u, r[k]).marco = IF k - 1 < CantMarcos THEN k - 1 ELSE k
      OBVIOUS
    <3>1. k \in 1 .. Len(lista) + 1
      BY <2>4, LenProperties
    <3>2. r[k] \in EnMarco(u, {})
      BY <1>1, <1>3, <2>6 DEF ToSet
    <3>3. Pag(u, r[k]) \in Pagina
      BY <1>2, <3>2, PagTipo DEF EnMarco
    <3>4. k - 1 < CantMarcos
      BY <1>0, <2>7, <3>1, <3>3 DEF Pagina, Marcos
    <3> QED
      BY <2>7, <3>1, <3>4
  <2> QED
    BY <1>1, <1>3, <2>5, <2>6, <2>8 DEF GlobalBien
<1> QED
  BY <1>6, <1>7

-----------------------------------------------------------------------------
(* A page leaves its frame.                                                *)

\* The page of e is absent and clean, or its table, which had no other in
\* memory, is gone.
EfectoLiberar(t, e, u) ==
  /\ u \in Tablas
  /\ \A f \in Entradas : Tiene(u, f) => Tiene(t, f)
  /\ \A f \in Entradas : Tiene(u, f) /\ f # e => Pag(u, f) = Pag(t, f)
  /\ Tiene(u, e) => /\ Pag(u, e).precencia = FALSE /\ Pag(u, e).modificada = FALSE
                    /\ Pag(u, e).marco = Pag(t, e).marco
  /\ \A f \in Entradas : Tiene(t, f) /\ f # e /\ (f.ft # e.ft \/ Pag(t, f).precencia) =>
       Tiene(u, f)

\* liberarVictima does that.
LEMMA LiberaEfecto ==
  ASSUME tablas \in Tablas, NEW e \in Entradas, Tiene(tablas, e)
  PROVE  EfectoLiberar(tablas, e, TrasLiberar(e))
<1> SUFFICES ASSUME NEW t \in Tablas, tablas = t, Tiene(t, e), NEW u, u = TrasLiberar(e)
             PROVE  EfectoLiberar(t, e, u)
  OBVIOUS
<1> DEFINE q == [Pag(t, e) EXCEPT !.precencia = FALSE, !.modificada = FALSE]
<1>1. q \in Pagina /\ q.precencia = FALSE /\ q.modificada = FALSE /\ q.marco = Pag(t, e).marco
  <2>1. Pag(t, e) \in Pagina
    BY PagTipo
  <2> QED
    BY <2>1 DEF Pagina
<1>2. PICK v \in Tablas :
      /\ v = Pone(t, e, q)
      /\ \A ft \in FileTags : Len(v[ft]) = Len(t[ft])
      /\ \A f \in Entradas : Tiene(v, f) <=> Tiene(t, f)
      /\ \A f \in Entradas : Tiene(t, f) => Pag(v, f) = IF f = e THEN q ELSE Pag(t, f)
  BY <1>1, PoneEfecto
<1>3. e.ft \in FileTags /\ e.n + 1 \in 1 .. Len(t[e.ft]) /\ t[e.ft] \in Seq(Pagina)
  BY PagTipo
<1>4. u = [t EXCEPT ![e.ft] = IF SinPresentes(v[e.ft]) THEN <<>> ELSE v[e.ft]]
  <2>1. v[e.ft] = [t[e.ft] EXCEPT ![e.n + 1] = q]
    BY <1>2, <1>3 DEF Pone, Tablas
  <2>2. [t[e.ft] EXCEPT ![e.n + 1].precencia = FALSE, ![e.n + 1].modificada = FALSE]
          = [t[e.ft] EXCEPT ![e.n + 1] = q]
    <3>1. t[e.ft][e.n + 1] \in Pagina /\ DOMAIN t[e.ft] = 1 .. Len(t[e.ft])
      BY <1>3, ElementOfSeq, LenProperties
    <3> QED
      BY <1>3, <3>1 DEF Pag, Pagina
  <2> QED
    BY <2>1, <2>2 DEF TrasLiberar
<1> HIDE DEF q
<1>5. CASE SinPresentes(v[e.ft])
  <2>1. u \in Tablas /\ u[e.ft] = <<>> /\ \A ft \in FileTags : ft # e.ft => u[ft] = t[ft]
    <3>1. <<>> \in Seq(Pagina)
      BY EmptySeq
    <3> QED
      BY <1>3, <1>4, <1>5, <3>1 DEF Tablas
  <2>2. \A f \in Entradas : Tiene(u, f) => f.ft # e.ft
    BY <2>1, EmptySeq DEF Tiene, Entradas
  <2>3. \A f \in Entradas : f.ft # e.ft => (Tiene(u, f) <=> Tiene(t, f)) /\ Pag(u, f) = Pag(t, f)
    BY <2>1 DEF Tiene, Pag, Entradas
  <2>4. ASSUME NEW f \in Entradas, Tiene(t, f), f # e, Pag(t, f).precencia PROVE f.ft # e.ft
    <3>1. Tiene(v, f) /\ Pag(v, f).precencia
      BY <1>2, <2>4
    <3>2. f.n + 1 \in 1 .. Len(v[f.ft]) /\ v[f.ft] \in Seq(Pagina)
      BY <3>1, PagTipo
    <3>3. f.n + 1 \in DOMAIN v[f.ft]
      BY <3>2, LenProperties
    <3> QED
      BY <1>5, <3>1, <3>3 DEF SinPresentes, Pag
  <2> QED
    BY <2>1, <2>2, <2>3, <2>4 DEF EfectoLiberar
<1>6. CASE ~SinPresentes(v[e.ft])
  <2>1. u = v
    BY <1>2, <1>3, <1>4, <1>6 DEF Pone, Tablas
  <2> QED
    BY <1>1, <1>2, <2>1 DEF EfectoLiberar
<1> QED
  BY <1>5, <1>6

\* The frame is free and the position of the page a hole.
LEMMA LiberaMarcos ==
  ASSUME NEW t \in Tablas, tablas = t, NEW fuera, NEW e \in EnMarco(t, fuera),
         NEW usados, MarcosBien(t, usados, fuera),
         NEW lista, GlobalBien(t, lista, fuera \cup {e}, Pag(t, e).marco),
         NEW u, u = TrasLiberar(e)
  PROVE  /\ EnMarco(u, fuera) = EnMarco(t, fuera) \ {e}
         /\ MarcosBien(u, usados \ {Pag(t, e).marco}, fuera)
         /\ GlobalBien(u, lista, fuera, Pag(t, e).marco)
<1>0. e \in Entradas /\ Tiene(t, e) /\ Pag(t, e).precencia /\ e \notin fuera
  BY DEF EnMarco
<1>1. /\ \A f \in Entradas : Tiene(u, f) => Tiene(t, f)
      /\ \A f \in Entradas : Tiene(u, f) /\ f # e => Pag(u, f) = Pag(t, f)
      /\ Tiene(u, e) => Pag(u, e).precencia = FALSE /\ Pag(u, e).modificada = FALSE
      /\ \A f \in Entradas : Tiene(t, f) /\ f # e /\ Pag(t, f).precencia => Tiene(u, f)
  <2>1. EfectoLiberar(t, e, u)
    BY <1>0, LiberaEfecto
  <2> QED
    BY <2>1 DEF EfectoLiberar
<1>2. EnMarco(u, fuera) = EnMarco(t, fuera) \ {e}
  BY <1>0, <1>1 DEF EnMarco
<1>3. \A f \in EnMarco(u, fuera) : Pag(u, f).marco = Pag(t, f).marco /\ f \in EnMarco(t, fuera) /\ f # e
  BY <1>1, <1>2 DEF EnMarco
<1>4. \A f \in EnMarco(t, fuera) : f # e => Pag(t, f).marco # Pag(t, e).marco
  BY DEF MarcosBien
<1>5. usados \ {Pag(t, e).marco} = {Pag(u, f).marco : f \in EnMarco(u, fuera)}
  <2>1. usados = {Pag(t, f).marco : f \in EnMarco(t, fuera)}
    BY DEF MarcosBien
  <2>2. ASSUME NEW x \in usados, x # Pag(t, e).marco
        PROVE  x \in {Pag(u, f).marco : f \in EnMarco(u, fuera)}
    BY <1>2, <1>3, <2>1, <2>2
  <2>3. ASSUME NEW f \in EnMarco(u, fuera)
        PROVE  Pag(u, f).marco \in usados \ {Pag(t, e).marco}
    BY <1>3, <1>4, <2>1
  <2> QED
    BY <2>2, <2>3
<1>6. MarcosBien(u, usados \ {Pag(t, e).marco}, fuera)
  <2>1. ASSUME NEW f \in EnMarco(u, fuera), NEW g \in EnMarco(u, fuera),
               Pag(u, f).marco = Pag(u, g).marco
        PROVE  f = g
    BY <1>3, <2>1 DEF MarcosBien
  <2>2. ASSUME NEW f \in Entradas, Tiene(u, f), ~Pag(u, f).precencia PROVE ~Pag(u, f).modificada
    BY <1>1, <2>2 DEF MarcosBien
  <2> QED
    BY <1>5, <2>1, <2>2 DEF MarcosBien
<1>7. GlobalBien(u, lista, fuera, Pag(t, e).marco)
  <2>1. ToSet(lista) = EnMarco(u, fuera)
    BY <1>2 DEF GlobalBien, EnMarco
  <2>2. \A i \in DOMAIN lista : Pag(u, lista[i]).marco = Pag(t, lista[i]).marco
    BY <1>3, <2>1 DEF ToSet
  <2> QED
    BY <2>1, <2>2 DEF GlobalBien
<1> QED
  BY <1>2, <1>6, <1>7

-----------------------------------------------------------------------------
(* The types of what an instruction computes.                              *)

\* The fields of an instruction.
LEMMA InstruccionTipo ==
  ASSUME NEW p \in Instruccion \cup {Fin}
  PROVE  /\ p.ft \in FileTags /\ p.dst \in FileTags /\ p.dir \in Nat /\ p.tam \in Nat
         /\ p.datos \in Seq(Bytes)
<1>1. CASE p \in Instruccion
  BY <1>1 DEF Instruccion
<1>2. CASE p = Fin
  <2>1. <<>> \in Seq(Bytes) /\ Base \in FileTags
    BY MemoriaAssumption, EmptySeq
  <2> QED
    BY <1>2, <2>1 DEF Fin
<1> QED
  BY <1>1, <1>2

\* A page of zeros is a content (memset of a new page).
LEMMA CeroTipo == Cero \in Contenidos
BY MemoriaAssumption DEF Cero, Contenidos

\* No instruction.
LEMMA OciosaTipo == Ociosa \in Turno /\ Ociosa.pc = "libre" /\ Ociosa.p = Fin /\ Ociosa.tabs = <<>>
<1>1. /\ <<>> \in Seq(Bytes) /\ <<>> \in Seq(FileTags) /\ 0 \in 0 .. SizeBlock - 1
      /\ Entrada(Base, 0) \in [ft : FileTags, n : Nat]
  BY MemoriaAssumption, EmptySeq DEF Entrada
<1> QED
  BY <1>1, CeroTipo DEF Ociosa, Turno, Etiquetas

\* Where a byte is: its page and its offset.
LEMMA PaginaTipo ==
  ASSUME NEW d \in Nat
  PROVE  d \div SizeBlock \in Nat /\ d % SizeBlock \in 0 .. SizeBlock - 1
BY MemoriaAssumption

\* marcosNecesarios counts pages.
LEMMA NecesariosTipo ==
  ASSUME NEW d \in Nat
  PROVE  MarcosNecesarios(d) \in Nat
<1>1. d + SizeBlock - 1 \in Nat
  BY MemoriaAssumption
<1> QED
  BY <1>1, PaginaTipo DEF MarcosNecesarios

\* escribirContenidoEnMarco writes bytes in the frame.
LEMMA EscritoTipo ==
  ASSUME NEW c \in Contenidos, NEW desp \in 0 .. SizeBlock - 1, NEW d \in Seq(Bytes)
  PROVE  Escrito(c, desp, d) \in Contenidos
<1> SUFFICES ASSUME NEW j \in 0 .. SizeBlock - 1
             PROVE  (IF j >= desp /\ j - desp < Len(d) THEN d[j - desp + 1] ELSE c[j]) \in Bytes
  BY DEF Escrito, Contenidos
<1>0. SizeBlock \in Nat /\ Len(d) \in Nat
  BY MemoriaAssumption, LenProperties
<1>1. CASE j >= desp /\ j - desp < Len(d)
  <2>1. j - desp + 1 \in 1 .. Len(d)
    BY <1>0, <1>1
  <2> QED
    BY <1>1, <2>1, ElementOfSeq
<1>2. CASE ~(j >= desp /\ j - desp < Len(d))
  BY <1>2 DEF Contenidos
<1> QED
  BY <1>1, <1>2

\* What is left to write after a page are bytes.
LEMMA SobranteTipo ==
  ASSUME NEW desp \in 0 .. SizeBlock - 1, NEW d \in Seq(Bytes)
  PROVE  Sobrante(desp, d) \in Seq(Bytes)
<1>1. SizeBlock - desp + 1 \in Nat /\ SizeBlock - desp + 1 >= 1 /\ Len(d) \in Nat
  BY MemoriaAssumption, LenProperties
<1>2. PICK m \in Nat : m = SizeBlock - desp + 1 /\ m >= 1
  BY <1>1
<1>3. SubSeq(d, m, Len(d)) \in Seq(Bytes)
  <2>1. \A k \in m .. Len(d) : d[k] \in Bytes
    BY <1>1, <1>2, ElementOfSeq
  <2> QED
    BY <1>1, <1>2, <2>1, SubSeqProperties
<1> QED
  BY <1>2, <1>3 DEF Sobrante

\* leerContenidoParaMaster answers bytes of the frame, and no more than asked.
LEMMA LeidoTipo ==
  ASSUME NEW c \in Contenidos, NEW desp \in 0 .. SizeBlock - 1, NEW tam \in Nat
  PROVE  Leido(c, desp, tam) \in Seq(Bytes) /\ Resto(tam, desp) \in Nat
<1> DEFINE hasta == IF tam < SizeBlock - desp THEN desp + tam ELSE SizeBlock
           bytes == [k \in 1 .. hasta - desp |-> c[desp + k - 1]]
           ceros == {k \in DOMAIN bytes : bytes[k] = ByteCero}
           corte == IF ceros = {} THEN Len(bytes) ELSE Min(ceros) - 1
<1>0. SizeBlock \in Nat
  BY MemoriaAssumption
<1>1. hasta \in Nat /\ hasta - desp \in Nat /\ hasta <= SizeBlock
  BY <1>0
<1>2. Resto(tam, desp) \in Nat
  BY <1>0 DEF Resto
<1> HIDE DEF hasta
<1>3. \A k \in 1 .. hasta - desp : c[desp + k - 1] \in Bytes
  <2> SUFFICES ASSUME NEW k \in 1 .. hasta - desp PROVE c[desp + k - 1] \in Bytes
    OBVIOUS
  <2>1. desp + k - 1 \in 0 .. SizeBlock - 1
    BY <1>0, <1>1
  <2> QED
    BY <2>1 DEF Contenidos
<1>4. bytes \in Seq(Bytes) /\ Len(bytes) = hasta - desp /\ DOMAIN bytes = 1 .. Len(bytes)
  BY <1>1, <1>3, IsASeq
<1> HIDE DEF bytes
<1>5. corte \in 0 .. Len(bytes)
  <2>1. CASE ceros = {}
    BY <1>1, <1>4, <2>1
  <2>2. CASE ceros # {}
    <3>1. ceros \in SUBSET Nat /\ \A k \in ceros : k \in 1 .. Len(bytes)
      BY <1>4
    <3>2. Min(ceros) \in ceros
      BY <2>2, <3>1, MinTipo
    <3> QED
      BY <1>1, <1>4, <2>2, <3>1, <3>2
  <2> QED
    BY <2>1, <2>2
<1>6. Leido(c, desp, tam) = SubSeq(bytes, 1, corte)
  BY DEF Leido, bytes, hasta
<1> HIDE DEF corte
<1>7. SubSeq(bytes, 1, corte) \in Seq(Bytes)
  <2>1. \A k \in 1 .. corte : bytes[k] \in Bytes
    BY <1>1, <1>4, <1>5, ElementOfSeq
  <2>2. corte \in Int
    BY <1>1, <1>4, <1>5
  <2> QED
    BY <1>4, <2>1, <2>2, SubSeqProperties
<1> QED
  BY <1>2, <1>6, <1>7

-----------------------------------------------------------------------------
(* One access to a page.                                                   *)

\* The fields of the instruction at hand.
LEMMA TurnoTipo ==
  ASSUME TypeOK
  PROVE  /\ instr \in Turno /\ instr.pc \in Etiquetas /\ instr.p \in Instruccion \cup {Fin}
         /\ instr.pag \in Nat /\ instr.desp \in 0 .. SizeBlock - 1 /\ instr.quedan \in Nat
         /\ instr.datos \in Seq(Bytes) /\ instr.tam \in Nat /\ instr.lectura \in Seq(Bytes)
         /\ instr.leido \in Contenidos /\ instr.victima \in Entradas
         /\ instr.tabs \in Seq(FileTags) /\ instr.luego \in Etiquetas
         /\ instr.p.ft \in FileTags /\ Nueva \in Entradas
         /\ Nueva.ft = instr.p.ft /\ Nueva.n = instr.pag
         /\ EsEscritura \in BOOLEAN
<1>1. instr \in Turno
  BY DEF TypeOK
<1>2. /\ instr.pc \in Etiquetas /\ instr.p \in Instruccion \cup {Fin}
      /\ instr.pag \in Nat /\ instr.desp \in 0 .. SizeBlock - 1 /\ instr.quedan \in Nat
      /\ instr.datos \in Seq(Bytes) /\ instr.tam \in Nat /\ instr.lectura \in Seq(Bytes)
      /\ instr.leido \in Contenidos /\ instr.victima \in Entradas
      /\ instr.tabs \in Seq(FileTags) /\ instr.luego \in Etiquetas
  BY <1>1 DEF Turno, Entradas
<1>3. instr.p.ft \in FileTags
  BY <1>2, InstruccionTipo
<1> QED
  BY <1>1, <1>2, <1>3 DEF Nueva, Entrada, Entradas, EsEscritura

\* The page at hand is marked and its frame written or read; no other page
\* is touched.
EfectoAcceso(t, mem) ==
  /\ tablas' \in Tablas /\ marcos' \in [Marcos -> Contenidos]
  /\ instr' \in Turno /\ instr'.pc \in {"interrupcion", "pagina", "sinPagina"}
  /\ instr'.p = instr.p
  /\ Retocadas(t, tablas')
  /\ \A f \in Entradas : Tiene(t, f) /\ f # Nueva => Pag(tablas', f) = Pag(t, f)
  /\ IF instr.quedan > 0
     THEN /\ Pag(tablas', Nueva).modificada = EsEscritura
          /\ marcos' = IF EsEscritura
                       THEN [mem EXCEPT ![Pag(t, Nueva).marco] = Escrito(@, instr.desp, instr.datos)]
                       ELSE mem
     ELSE tablas' = t /\ marcos' = mem

\* An access to a page in memory reorders the global table under LRU, sets
\* modificada on a WRITE and touches no other page.
LEMMA AccesoEfecto ==
  ASSUME TypeOK, NEW t \in Tablas, NEW mem \in [Marcos -> Contenidos], Tiene(t, Nueva),
         AccedeA(t, mem)
  PROVE  EfectoAcceso(t, mem)
<1> DEFINE q == [Pag(t, Nueva) EXCEPT !.modificada = EsEscritura]
           m == Pag(t, Nueva).marco
<1>1. Nueva \in Entradas /\ Nueva.ft = instr.p.ft /\ Nueva.n = instr.pag
  BY TurnoTipo
<1>2. Pag(t, Nueva) \in Pagina
  BY <1>1, PagTipo
<1>3. q \in Pagina /\ q.marco = m /\ q.precencia = Pag(t, Nueva).precencia
      /\ q.modificada = EsEscritura /\ m \in Marcos
  BY <1>2, TurnoTipo DEF Pagina
<1>4. instr.quedan > 0 /\ tablas' = Pone(t, Nueva, q)
      /\ marcos' = (IF EsEscritura THEN [mem EXCEPT ![m] = Escrito(@, instr.desp, instr.datos)] ELSE mem)
  BY <1>1 DEF AccedeA, Pone, Pag
<1>5. /\ tablas' \in Tablas
      /\ \A f \in Entradas : Tiene(tablas', f) <=> Tiene(t, f)
      /\ \A f \in Entradas : Tiene(t, f) => Pag(tablas', f) = IF f = Nueva THEN q ELSE Pag(t, f)
  <2> HIDE DEF q
  <2>1. /\ Pone(t, Nueva, q) \in Tablas
        /\ \A f \in Entradas : Tiene(Pone(t, Nueva, q), f) <=> Tiene(t, f)
        /\ \A f \in Entradas : Tiene(t, f) =>
             Pag(Pone(t, Nueva, q), f) = IF f = Nueva THEN q ELSE Pag(t, f)
    BY <1>1, <1>3, PoneEfecto
  <2> QED
    BY <1>4, <2>1
<1>6. marcos' \in [Marcos -> Contenidos]
  <2>1. Escrito(mem[m], instr.desp, instr.datos) \in Contenidos
    BY <1>3, EscritoTipo, TurnoTipo
  <2> HIDE DEF m
  <2> QED
    BY <1>4, <2>1
<1>7. instr' \in Turno /\ instr'.pc \in {"interrupcion", "pagina"} /\ instr'.p = instr.p
  <2> DEFINE le == IF EsEscritura THEN <<>>
                   ELSE instr.lectura \o Leido(mem[m], instr.desp, instr.tam)
             pc == IF instr.quedan = 1 THEN "interrupcion" ELSE "pagina"
             da == Sobrante(instr.desp, instr.datos)
             ta == Resto(instr.tam, instr.desp)
  <2>1. le \in Seq(Bytes) /\ ta \in Nat
    <3>1. mem[m] \in Contenidos
      BY <1>3
    <3>2. Leido(mem[m], instr.desp, instr.tam) \in Seq(Bytes) /\ ta \in Nat
      BY <3>1, LeidoTipo, TurnoTipo
    <3> QED
      BY <3>2, TurnoTipo, EmptySeq, ConcatProperties
  <2>2. da \in Seq(Bytes)
    BY SobranteTipo, TurnoTipo
  <2>3. pc \in {"interrupcion", "pagina"} /\ pc \in Etiquetas
    BY DEF Etiquetas
  <2>4. instr.pag + 1 \in Nat /\ instr.quedan - 1 \in Nat
    BY <1>4, TurnoTipo
  <2>5. instr' = [Ociosa EXCEPT !.pc = pc, !.p = instr.p, !.pag = instr.pag + 1,
                    !.quedan = instr.quedan - 1, !.datos = da, !.tam = ta, !.lectura = le]
    BY <1>1 DEF AccedeA, Pag
  <2> HIDE DEF le, da, ta, pc
  <2> QED
    BY <2>1, <2>2, <2>3, <2>4, <2>5, OciosaTipo, TurnoTipo DEF Turno
<1> HIDE DEF q
<1>8. Retocadas(t, tablas')
  BY <1>3, <1>5 DEF Retocadas
<1> QED
  BY <1>1, <1>3, <1>4, <1>5, <1>6, <1>7, <1>8 DEF EfectoAcceso

\* With no byte asked for nothing is read or written.
LEMMA SinAccesoEfecto ==
  ASSUME TypeOK, NEW t \in Tablas, NEW mem \in [Marcos -> Contenidos], SinAcceso(t, mem)
  PROVE  EfectoAcceso(t, mem)
<1>1. instr' \in Turno /\ instr'.pc = "sinPagina" /\ instr'.p = instr.p
  <2>1. instr' = [instr EXCEPT !.pc = "sinPagina"]
    BY DEF SinAcceso, Va
  <2> QED
    BY <2>1, TurnoTipo DEF Turno, Etiquetas
<1> QED
  BY <1>1 DEF EfectoAcceso, SinAcceso, Retocadas

\* The same for an access that goes on to the next page.
LEMMA AccedeEfecto ==
  ASSUME TypeOK, NEW t \in Tablas, NEW mem \in [Marcos -> Contenidos], Tiene(t, Nueva),
         Accede(t, mem)
  PROVE  EfectoAcceso(t, mem)
BY AccesoEfecto, SinAccesoEfecto DEF Accede

-----------------------------------------------------------------------------
(* The state between two loads.                                            *)

\* Coherente when no page is being loaded...
LEMMA QuietoDe ==
  ASSUME Coherente, instr.pc \notin Cargando
  PROVE  MarcosBien(tablas, bitmap, {}) /\ GlobalBien(tablas, global, {}, CantMarcos)
<1>1. AlAire = {} /\ AlAire \cup Sacada = {} /\ Hueco = CantMarcos
  BY DEF AlAire, Sacada, Hueco, Cargando
<1> QED
  BY <1>1 DEF Coherente

\* ... and what it takes to restore it there.
LEMMA QuietoEs ==
  ASSUME algoritmo' = algoritmo, instr'.pc \notin Cargando,
         MarcosBien(tablas', bitmap', {}), GlobalBien(tablas', global', {}, CantMarcos)
  PROVE  Coherente'
<1>1. AlAire' = {} /\ (AlAire \cup Sacada)' = {} /\ Hueco' = CantMarcos
  BY DEF AlAire, Sacada, Hueco, Cargando
<1>2. MarcosBien(tablas, bitmap, AlAire)'
  BY <1>1 DEF MarcosBien, EnMarco, Tiene, Pag
<1>3. GlobalBien(tablas, global, AlAire \cup Sacada, Hueco)'
  BY <1>1 DEF GlobalBien, EnMarco, Tiene, Pag
<1> QED
  BY <1>2, <1>3 DEF Coherente, Cargando

\* A step that leaves the memory alone, out of a load.
LEMMA QuietoQueda ==
  ASSUME Coherente, UNCHANGED memoria, algoritmo' = algoritmo,
         instr.pc \notin Cargando, instr'.pc \notin Cargando
  PROVE  Coherente'
<1>1. MarcosBien(tablas', bitmap', {}) /\ GlobalBien(tablas', global', {}, CantMarcos)
  BY QuietoDe DEF memoria
<1> QED
  BY <1>1, QuietoEs

-----------------------------------------------------------------------------
(* The requests to the Storage keep the type of its tree.                  *)

Arbol == [FileTags -> EnStorage \cup {NoHay}]

\* A block is replaced.
LEMMA CambiaUno ==
  ASSUME NEW S, NEW s \in Seq(S), NEW x, NEW c \in S
  PROVE  [s EXCEPT ![x] = c] \in Seq(S) /\ Len([s EXCEPT ![x] = c]) = Len(s)
<1>1. DOMAIN s = 1 .. Len(s)
  BY LenProperties
<1>2. CASE x \in 1 .. Len(s)
  BY <1>2, ExceptSeq
<1>3. CASE x \notin 1 .. Len(s)
  <2>1. [s EXCEPT ![x] = c] = s
    BY <1>1, <1>3
  <2> QED
    BY <2>1
<1> QED
  BY <1>2, <1>3

\* WRITE_BLOCK leaves a tree.
LEMMA EscribeTipo ==
  ASSUME arbol \in Arbol, NEW ft \in FileTags, NEW n, NEW m \in Marcos,
         marcos \in [Marcos -> Contenidos], EscribeBloque(ft, n, m)
  PROVE  arbol' \in Arbol
<1>1. CASE AceptaBloque(ft, n)
  <2>1. arbol[ft] \in EnStorage
    BY <1>1 DEF AceptaBloque, HayBloque, Arbol
  <2> DEFINE d == [arbol[ft].datos EXCEPT ![n + 1] = marcos[m]]
  <2>2. d \in Seq(Contenidos)
    BY <2>1, CambiaUno DEF EnStorage
  <2>3. arbol' = [arbol EXCEPT ![ft] = [@ EXCEPT !.datos = d]]
    BY <1>1 DEF EscribeBloque
  <2> HIDE DEF d
  <2>4. [arbol[ft] EXCEPT !.datos = d] \in EnStorage
    BY <2>1, <2>2 DEF EnStorage
  <2> QED
    BY <2>3, <2>4 DEF Arbol
<1>2. CASE ~AceptaBloque(ft, n)
  BY <1>2 DEF EscribeBloque
<1> QED
  BY <1>1, <1>2

\* TRUNCATE leaves a tree.
LEMMA RedimensionaTipo ==
  ASSUME arbol \in Arbol, NEW ft \in FileTags, NEW n \in Nat, Redimensiona(ft, n)
  PROVE  arbol' \in Arbol
<1>1. arbol[ft] \in EnStorage
  BY DEF Redimensiona, Storage!Editable, Arbol
<1> DEFINE s == arbol[ft].datos
           d == [k \in 1 .. n |-> IF k <= Len(s) THEN s[k] ELSE Cero]
<1>2. s \in Seq(Contenidos) /\ Len(s) \in Nat
  BY <1>1, LenProperties DEF EnStorage
<1>3. d \in Seq(Contenidos)
  <2>1. \A k \in 1 .. n : (IF k <= Len(s) THEN s[k] ELSE Cero) \in Contenidos
    BY <1>2, ElementOfSeq, CeroTipo
  <2> QED
    BY <2>1, IsASeq
<1>4. arbol' = [arbol EXCEPT ![ft] = [@ EXCEPT !.datos = d]]
  BY DEF Redimensiona
<1> HIDE DEF d
<1>5. [arbol[ft] EXCEPT !.datos = d] \in EnStorage
  BY <1>1, <1>3 DEF EnStorage
<1> QED
  BY <1>4, <1>5 DEF Arbol

\* CREATE, TAG, DELETE and COMMIT leave a tree.
LEMMA PedidoTipo ==
  ASSUME arbol \in Arbol, NEW ft \in FileTags, NEW dst \in FileTags,
         Storage!Crea(ft) \/ Storage!Etiqueta(ft, dst) \/ Storage!Borra(ft) \/ Storage!Commitea(ft)
  PROVE  arbol' \in Arbol
<1>1. CASE Storage!Crea(ft)
  <2>1. [estado |-> "WORK_IN_PROGRESS", datos |-> <<>>] \in EnStorage
    BY EmptySeq DEF EnStorage
  <2> QED
    BY <1>1, <2>1 DEF Storage!Crea, Storage!FileTag, Arbol
<1>2. CASE Storage!Etiqueta(ft, dst)
  <2>1. arbol[ft] \in EnStorage
    BY <1>2 DEF Storage!Etiqueta, Arbol
  <2>2. [estado |-> "WORK_IN_PROGRESS", datos |-> arbol[ft].datos] \in EnStorage
    BY <2>1 DEF EnStorage
  <2> QED
    BY <1>2, <2>2 DEF Storage!Etiqueta, Storage!FileTag, Arbol
<1>3. CASE Storage!Borra(ft)
  BY <1>3 DEF Storage!Borra, Arbol
<1>4. CASE Storage!Commitea(ft)
  <2>1. arbol[ft] \in EnStorage
    BY <1>4 DEF Storage!Commitea, Storage!Editable, Arbol
  <2>2. [arbol[ft] EXCEPT !.estado = "COMMITED"] \in EnStorage
    BY <2>1 DEF EnStorage
  <2> QED
    BY <1>4, <2>2 DEF Storage!Commitea, Arbol
<1> QED
  BY <1>1, <1>2, <1>3, <1>4

-----------------------------------------------------------------------------
(* The steps.                                                              *)

\* The parts of TypeOK, for the steps.
LEMMA TipoDe ==
  ASSUME TypeOK
  PROVE  /\ arbol \in Arbol /\ tablas \in Tablas /\ global \in Seq(Entradas)
         /\ bitmap \subseteq Marcos /\ marcos \in [Marcos -> Contenidos] /\ puntero \in Marcos
BY DEF TypeOK, Arbol, Tablas, Entradas

\* A step that leaves the memory alone.
LEMMA TipoQueda ==
  ASSUME TypeOK, UNCHANGED memoria, algoritmo' = algoritmo, vivo' \in BOOLEAN,
         arbol' \in Arbol, instr' \in Turno
  PROVE  TypeOK'
BY DEF TypeOK, memoria, Arbol

\* The label changes, or the instruction ends.
LEMMA VaTipo ==
  ASSUME TypeOK, NEW pc \in Etiquetas, Va(pc)
  PROVE  instr' \in Turno /\ instr'.pc = pc /\ instr'.p = instr.p /\ instr'.pag = instr.pag
         /\ instr'.victima = instr.victima /\ instr'.tabs = instr.tabs /\ instr'.luego = instr.luego
         /\ instr'.leido = instr.leido
BY TurnoTipo DEF Va, Turno

\* An error ends the query.
LEMMA ErrorTipo ==
  ASSUME Error
  PROVE  instr' \in Turno /\ instr'.pc = "libre" /\ instr'.p = Fin /\ instr'.tabs = <<>>
BY OciosaTipo DEF Error

\* The instructions of a script.
LEMMA GuionTipo ==
  ASSUME guion \in Guiones
  PROVE  \A p \in guion : p \in Instruccion
BY MemoriaAssumption

\* CREATE, TRUNCATE, TAG and DELETE: no page is touched.
LEMMA DirectaBien ==
  ASSUME MemoriaBien, guion \in Guiones, Directa
  PROVE  MemoriaBien'
<1>1. PICK p \in guion :
       \/ /\ \/ p.op = "CREATE" /\ Storage!Crea(p.ft)
             \/ p.op = "TRUNCATE" /\ Redimensiona(p.ft, p.tam \div SizeBlock)
             \/ p.op = "TAG" /\ Storage!Etiqueta(p.ft, p.dst)
             \/ p.op = "DELETE" /\ Storage!Borra(p.ft)
          /\ Bien
       \/ UNCHANGED arbol /\ Error
  BY DEF Directa
<1>2. /\ UNCHANGED memoria /\ algoritmo' = algoritmo /\ vivo' = vivo /\ instr.pc = "libre"
      /\ UNCHANGED guion
  BY DEF Directa, En
<1>3. p.ft \in FileTags /\ p.dst \in FileTags /\ p.tam \div SizeBlock \in Nat
  BY GuionTipo, InstruccionTipo, PaginaTipo
<1>4. arbol' \in Arbol
  BY <1>1, <1>3, PedidoTipo, RedimensionaTipo, TipoDe DEF MemoriaBien
<1>5. instr' \in Turno /\ instr'.pc \in {"interrupcion", "libre"}
  BY <1>1, VaTipo, ErrorTipo DEF Bien, MemoriaBien, Etiquetas
<1>6. TypeOK'
  BY <1>2, <1>4, <1>5, TipoQueda DEF MemoriaBien, TypeOK
<1>7. Coherente'
  BY <1>2, <1>5, QuietoQueda DEF MemoriaBien, Cargando
<1> QED
  BY <1>6, <1>7 DEF MemoriaBien

\* A WRITE or READ begins.
LEMMA AccesoTipo ==
  ASSUME NEW p \in Instruccion, NEW pc \in Etiquetas
  PROVE  [Ociosa EXCEPT !.p = p, !.pc = pc, !.pag = p.dir \div SizeBlock,
            !.desp = p.dir % SizeBlock, !.quedan = MarcosNecesarios(Largo(p)),
            !.datos = p.datos, !.tam = p.tam] \in Turno
<1>1. p.ft \in FileTags /\ p.dir \in Nat /\ p.tam \in Nat /\ p.datos \in Seq(Bytes)
  BY InstruccionTipo
<1>2. p.dir \div SizeBlock \in Nat /\ p.dir % SizeBlock \in 0 .. SizeBlock - 1
  BY <1>1, PaginaTipo
<1>3. Largo(p) \in Nat
  BY <1>1, LenProperties DEF Largo
<1>4. MarcosNecesarios(Largo(p)) \in Nat
  BY <1>3, NecesariosTipo
<1> QED
  BY <1>1, <1>2, <1>4, OciosaTipo DEF Turno

\* READ and WRITE up to the first page.
LEMMA ComienzaAccesoBien ==
  ASSUME MemoriaBien, guion \in Guiones, ComienzaAcceso
  PROVE  MemoriaBien'
<1>1. PICK p \in guion :
       instr' = [Ociosa EXCEPT !.p = p,
                      !.pc = IF Largo(p) = 0 /\ tablas[p.ft] # <<>> THEN "sinPagina" ELSE "pagina",
                      !.pag = p.dir \div SizeBlock, !.desp = p.dir % SizeBlock,
                      !.quedan = MarcosNecesarios(Largo(p)), !.datos = p.datos, !.tam = p.tam]
  BY DEF ComienzaAcceso
<1>2. PICK pc \in {"sinPagina", "pagina"} :
        pc = IF Largo(p) = 0 /\ tablas[p.ft] # <<>> THEN "sinPagina" ELSE "pagina"
  OBVIOUS
<1>3. instr' = [Ociosa EXCEPT !.p = p, !.pc = pc, !.pag = p.dir \div SizeBlock,
            !.desp = p.dir % SizeBlock, !.quedan = MarcosNecesarios(Largo(p)),
            !.datos = p.datos, !.tam = p.tam]
  BY <1>1, <1>2
<1>4. instr' \in Turno /\ pc \in Etiquetas
  BY <1>2, <1>3, AccesoTipo, GuionTipo DEF Etiquetas
<1>5. instr'.pc = pc
  BY <1>3 DEF Ociosa
<1>6. /\ UNCHANGED memoria /\ algoritmo' = algoritmo /\ vivo' = vivo /\ instr.pc = "libre"
      /\ arbol' = arbol
  BY DEF ComienzaAcceso, En
<1>7. TypeOK'
  BY <1>4, <1>6, TipoQueda, TipoDe DEF MemoriaBien, TypeOK
<1>8. Coherente'
  BY <1>2, <1>5, <1>6, QuietoQueda DEF MemoriaBien, Cargando
<1> QED
  BY <1>7, <1>8 DEF MemoriaBien

\* COMMIT and FLUSH up to the first page.
LEMMA ComienzaPersistirBien ==
  ASSUME MemoriaBien, guion \in Guiones, ComienzaPersistir
  PROVE  MemoriaBien'
<1>1. PICK p \in guion :
       instr' = [Ociosa EXCEPT !.pc = "persistir", !.p = p, !.tabs = <<p.ft>>,
                      !.luego = IF p.op = "COMMIT" THEN "commit" ELSE "interrupcion"]
  BY DEF ComienzaPersistir
<1>2. p \in Instruccion /\ <<p.ft>> \in Seq(FileTags)
  BY GuionTipo, InstruccionTipo
<1>3. instr' \in Turno /\ instr'.pc = "persistir"
  BY <1>1, <1>2, OciosaTipo DEF Turno, Etiquetas
<1>4. /\ UNCHANGED memoria /\ algoritmo' = algoritmo /\ vivo' = vivo /\ instr.pc = "libre"
      /\ arbol' = arbol
  BY DEF ComienzaPersistir, En
<1>5. TypeOK'
  BY <1>3, <1>4, TipoQueda, TipoDe DEF MemoriaBien, TypeOK
<1>6. Coherente'
  BY <1>3, <1>4, QuietoQueda DEF MemoriaBien, Cargando
<1> QED
  BY <1>5, <1>6 DEF MemoriaBien

\* Neither the memory nor the load at hand are touched by these.
LEMMA QuietaBien ==
  ASSUME MemoriaBien, UNCHANGED memoria, algoritmo' = algoritmo, vivo' \in BOOLEAN,
         arbol' \in Arbol, instr' \in Turno,
         instr.pc \notin Cargando, instr'.pc \notin Cargando
  PROVE  MemoriaBien'
BY TipoQueda, QuietoQueda DEF MemoriaBien

\* The query is interrupted between two instructions.
LEMMA InterrumpeBien ==
  ASSUME MemoriaBien, Interrumpe
  PROVE  MemoriaBien'
<1>1. instr' \in Turno /\ instr'.pc \in {"libre", "persistir"}
  <2>1. CASE instr' = Ociosa
    BY <2>1, OciosaTipo
  <2>2. ASSUME NEW orden \in Bijection(1 .. Cardinality(ConTabla), ConTabla),
               instr' = [Ociosa EXCEPT !.pc = "persistir", !.tabs = orden, !.luego = "desalojo"]
        PROVE  instr' \in Turno /\ instr'.pc = "persistir"
    <3>1. IsFiniteSet(ConTabla) /\ ConTabla \subseteq FileTags
      BY MemoriaAssumption, FS_Subset DEF ConTabla
    <3>2. Cardinality(ConTabla) \in Nat
      BY <3>1, FS_CardinalityType
    <3>3. orden \in [1 .. Cardinality(ConTabla) -> FileTags]
      BY <3>1 DEF Bijection, Injection
    <3>4. orden \in Seq(FileTags)
      BY <3>2, <3>3
    <3> QED
      BY <2>2, <3>4, OciosaTipo DEF Turno, Etiquetas
  <2> QED
    BY <2>1, <2>2 DEF Interrumpe
<1> QED
  BY <1>1, QuietaBien, TipoDe DEF Interrumpe, En, Cargando, MemoriaBien, TypeOK

\* The page number read without a value: the query ends in error.
LEMMA PaginaInicialBien ==
  ASSUME MemoriaBien, PaginaInicialSinValor
  PROVE  MemoriaBien'
<1>1. instr' \in Turno /\ instr'.pc \in {"interrupcion", "sinPagina"}
  BY VaTipo, TurnoTipo DEF PaginaInicialSinValor, Bien, MemoriaBien, Etiquetas
<1> QED
  BY <1>1, QuietaBien, TipoDe DEF PaginaInicialSinValor, Cargando, MemoriaBien, TypeOK

\* persistirMemoriaCompleta goes on to the next table.
LEMMA TerminaTablaBien ==
  ASSUME MemoriaBien, TerminaTabla
  PROVE  MemoriaBien'
<1>1. instr' \in Turno /\ instr'.pc = "persistir"
  <2>1. Tail(instr.tabs) \in Seq(FileTags)
    BY TurnoTipo, HeadTailProperties DEF MemoriaBien, TerminaTabla
  <2>2. instr' = [instr EXCEPT !.tabs = Tail(instr.tabs)] /\ instr.pc = "persistir"
    BY DEF TerminaTabla, En
  <2> QED
    BY <2>1, <2>2, TurnoTipo DEF Turno, MemoriaBien
<1> QED
  BY <1>1, QuietaBien, TipoDe DEF TerminaTabla, En, Cargando, MemoriaBien, TypeOK

\* The last table has no page left to write.
LEMMA TerminaPersistirBien ==
  ASSUME MemoriaBien, Papel, TerminaPersistir
  PROVE  MemoriaBien'
<1>1. instr.luego \in {"commit", "interrupcion", "desalojo"}
  BY DEF TerminaPersistir, En, Papel
<1>2. instr' \in Turno /\ instr'.pc = instr.luego
  BY <1>1, VaTipo DEF TerminaPersistir, MemoriaBien, Etiquetas
<1> QED
  BY <1>1, <1>2, QuietaBien, TipoDe DEF TerminaPersistir, En, Cargando, MemoriaBien, TypeOK

\* The Worker confirms the eviction.
LEMMA ConfirmaDesalojoBien ==
  ASSUME MemoriaBien, ConfirmaDesalojo
  PROVE  MemoriaBien'
BY OciosaTipo, QuietaBien, TipoDe DEF ConfirmaDesalojo, En, Cargando, MemoriaBien, TypeOK

\* COMMIT after the flush.
LEMMA EnviaCommitBien ==
  ASSUME MemoriaBien, EnviaCommit
  PROVE  MemoriaBien'
<1>1. instr' \in Turno /\ instr'.pc \in {"interrupcion", "libre"}
  BY VaTipo, ErrorTipo DEF EnviaCommit, Bien, MemoriaBien, Etiquetas
<1>2. arbol' \in Arbol
  BY PedidoTipo, TipoDe, TurnoTipo DEF EnviaCommit, MemoriaBien
<1> QED
  BY <1>1, <1>2, QuietaBien DEF EnviaCommit, En, Cargando, MemoriaBien, TypeOK

\* persistirMemoria marks the page clean, whatever the Storage answers.
LEMMA PersisteEfecto ==
  ASSUME MemoriaBien, PersistePagina
  PROVE  \E e \in Entradas, q \in Pagina :
           /\ Tiene(tablas, e) /\ Pag(tablas, e).modificada
           /\ q = [Pag(tablas, e) EXCEPT !.modificada = FALSE]
           /\ e.ft = Head(instr.tabs) /\ instr.tabs # <<>>
           /\ tablas' = Pone(tablas, e, q)
           /\ EscribeBloque(e.ft, e.n, Pag(tablas, e).marco)
           /\ IF AceptaBloque(e.ft, e.n) THEN UNCHANGED instr ELSE Error
<1>1. Head(instr.tabs) \in FileTags /\ instr.tabs # <<>>
  BY TurnoTipo, HeadTailProperties DEF MemoriaBien, PersistePagina
<1>2. PICK n \in Modificadas(Head(instr.tabs)) :
       /\ EscribeBloque(Head(instr.tabs), n, LaPagina(Head(instr.tabs), n).marco)
       /\ tablas' = [tablas EXCEPT ![Head(instr.tabs)][n + 1].modificada = FALSE]
       /\ IF AceptaBloque(Head(instr.tabs), n) THEN UNCHANGED instr ELSE Error
  BY DEF PersistePagina
<1>3. PICK e \in Entradas : e.ft = Head(instr.tabs) /\ e.n = n
  <2>1. n \in Nat
    BY <1>2 DEF Modificadas
  <2>2. Entrada(Head(instr.tabs), n) \in Entradas
    BY <1>1, <2>1 DEF Entrada, Entradas
  <2> QED
    BY <2>2 DEF Entrada
<1>4. Tiene(tablas, e) /\ Pag(tablas, e).modificada /\ LaPagina(e.ft, n) = Pag(tablas, e)
  <2>1. Len(tablas[e.ft]) \in Nat
    BY <1>1, <1>3, TipoDe, LenProperties DEF MemoriaBien, Tablas
  <2> QED
    BY <1>2, <1>3, <2>1 DEF Modificadas, Tiene, Pag, LaPagina
<1>5. Pag(tablas, e) \in Pagina
  BY <1>4, PagTipo, TipoDe DEF MemoriaBien
<1>6. [Pag(tablas, e) EXCEPT !.modificada = FALSE] \in Pagina
  BY <1>5 DEF Pagina
<1>7. PICK q \in Pagina : q = [Pag(tablas, e) EXCEPT !.modificada = FALSE]
  BY <1>6
<1>8. tablas' = Pone(tablas, e, q)
  BY <1>2, <1>3, <1>7 DEF Pone, Pag
<1>9. /\ EscribeBloque(e.ft, e.n, Pag(tablas, e).marco)
      /\ IF AceptaBloque(e.ft, e.n) THEN UNCHANGED instr ELSE Error
  BY <1>2, <1>3, <1>4
<1> QED
  BY <1>1, <1>3, <1>4, <1>7, <1>8, <1>9

\* A page is written to the Storage, and marked clean whatever is answered.
LEMMA PersistePaginaBien ==
  ASSUME MemoriaBien, PersistePagina
  PROVE  MemoriaBien'
<1>1. PICK e \in Entradas, q \in Pagina :
           /\ Tiene(tablas, e) /\ Pag(tablas, e).modificada
           /\ q = [Pag(tablas, e) EXCEPT !.modificada = FALSE]
           /\ tablas' = Pone(tablas, e, q)
           /\ EscribeBloque(e.ft, e.n, Pag(tablas, e).marco)
           /\ IF AceptaBloque(e.ft, e.n) THEN UNCHANGED instr ELSE Error
  BY PersisteEfecto
<1>2. /\ vivo' = vivo /\ algoritmo' = algoritmo /\ UNCHANGED <<global, bitmap, marcos, puntero>>
      /\ instr.pc = "persistir"
  BY DEF PersistePagina, En
<1>3. Pag(tablas, e) \in Pagina /\ e.ft \in FileTags /\ tablas \in Tablas
  BY <1>1, PagTipo, TipoDe DEF MemoriaBien
<1>4. q.marco = Pag(tablas, e).marco /\ q.precencia = Pag(tablas, e).precencia /\ ~q.modificada
      /\ Pag(tablas, e).marco \in Marcos
  BY <1>1, <1>3 DEF Pagina
<1>5. /\ tablas' \in Tablas
      /\ \A f \in Entradas : Tiene(tablas', f) <=> Tiene(tablas, f)
      /\ \A f \in Entradas : Tiene(tablas, f) =>
           Pag(tablas', f) = IF f = e THEN q ELSE Pag(tablas, f)
  <2>1. PICK t \in Tablas : t = tablas
    BY <1>3
  <2>2. /\ Pone(t, e, q) \in Tablas
        /\ \A f \in Entradas : Tiene(Pone(t, e, q), f) <=> Tiene(t, f)
        /\ \A f \in Entradas : Tiene(t, f) => Pag(Pone(t, e, q), f) = IF f = e THEN q ELSE Pag(t, f)
    <3>1. Tiene(t, e)
      BY <1>1, <2>1
    <3> QED
      BY <3>1, PoneEfecto
  <2> QED
    BY <1>1, <2>1, <2>2
<1>6. arbol' \in Arbol
  BY <1>1, <1>3, <1>4, EscribeTipo, TipoDe DEF MemoriaBien
<1>7. instr' \in Turno /\ instr'.pc \in {"persistir", "libre"}
  BY <1>1, <1>2, ErrorTipo, TurnoTipo DEF MemoriaBien
<1>8. TypeOK'
  BY <1>2, <1>5, <1>6, <1>7 DEF MemoriaBien, TypeOK, Tablas, Arbol
<1>9. Retocadas(tablas, tablas')
  BY <1>4, <1>5 DEF Retocadas
<1>10. MarcosBien(tablas, bitmap, {}) /\ GlobalBien(tablas, global, {}, CantMarcos)
  BY <1>2, QuietoDe DEF MemoriaBien, Cargando
<1>11. \A f \in Entradas : Tiene(tablas', f) /\ ~Pag(tablas', f).precencia => ~Pag(tablas', f).modificada
  BY <1>4, <1>5, <1>10 DEF MarcosBien
<1>12. MarcosBien(tablas', bitmap, {}) /\ GlobalBien(tablas', global, {}, CantMarcos)
  BY <1>3, <1>5, <1>9, <1>10, <1>11, RetocadasBien, RetocadasGlobal
<1>13. Coherente'
  BY <1>2, <1>7, <1>12, QuietoEs DEF Cargando
<1> QED
  BY <1>8, <1>13 DEF MemoriaBien

-----------------------------------------------------------------------------
(* The steps of a load.                                                    *)

\* While a page is on the way to its frame.
LEMMA CargandoDe ==
  ASSUME Coherente, instr.pc \in {"asignar", "reloj"}
  PROVE  /\ MarcosBien(tablas, bitmap, {Nueva}) /\ GlobalBien(tablas, global, {Nueva}, CantMarcos)
         /\ Tiene(tablas, Nueva) => Pag(tablas, Nueva).precencia
         /\ instr.pc = "reloj" => bitmap = Marcos /\ algoritmo = "CLOCK-M"
<1>1. AlAire = {Nueva} /\ AlAire \cup Sacada = {Nueva} /\ Hueco = CantMarcos
  BY DEF AlAire, Sacada, Hueco, Cargando
<1> QED
  BY <1>1 DEF Coherente, Cargando

\* What it takes to be coherent with a page that has no frame yet...
LEMMA CargandoEs ==
  ASSUME algoritmo' = algoritmo, instr'.pc \in {"asignar", "reloj"}, Nueva' = Nueva,
         MarcosBien(tablas', bitmap', {Nueva}), GlobalBien(tablas', global', {Nueva}, CantMarcos),
         Tiene(tablas', Nueva) => Pag(tablas', Nueva).precencia,
         instr'.pc = "reloj" => bitmap' = Marcos /\ algoritmo = "CLOCK-M"
  PROVE  Coherente'
<1>1. AlAire' = {Nueva} /\ (AlAire \cup Sacada)' = {Nueva} /\ Hueco' = CantMarcos
  BY DEF AlAire, Sacada, Hueco, Cargando
<1>2. MarcosBien(tablas, bitmap, AlAire)'
  BY <1>1 DEF MarcosBien, EnMarco, Tiene, Pag
<1>3. GlobalBien(tablas, global, AlAire \cup Sacada, Hueco)'
  BY <1>1 DEF GlobalBien, EnMarco, Tiene, Pag
<1>4. (Tiene(tablas, Nueva) => Pag(tablas, Nueva).precencia)'
  BY DEF Tiene, Pag
<1> QED
  BY <1>2, <1>3, <1>4 DEF Coherente, Cargando

\* While its victim leaves.
LEMMA LiberarDe ==
  ASSUME Coherente, instr.pc = "liberar"
  PROVE  /\ MarcosBien(tablas, bitmap, {Nueva}) /\ bitmap = Marcos
         /\ instr.victima \in EnMarco(tablas, {Nueva})
         /\ GlobalBien(tablas, global, {Nueva} \cup {instr.victima}, Pag(tablas, instr.victima).marco)
         /\ Tiene(tablas, Nueva) => Pag(tablas, Nueva).precencia
<1>1. AlAire = {Nueva} /\ Sacada = {instr.victima} /\ Hueco = Pag(tablas, instr.victima).marco
  BY DEF AlAire, Sacada, Hueco, Cargando
<1> QED
  BY <1>1 DEF Coherente, Cargando

\* ... and with a victim that is still in its own.
LEMMA LiberarEs ==
  ASSUME algoritmo' = algoritmo, instr'.pc = "liberar", Nueva' = Nueva,
         MarcosBien(tablas', bitmap', {Nueva}), bitmap' = Marcos,
         instr'.victima \in EnMarco(tablas', {Nueva}),
         GlobalBien(tablas', global', {Nueva} \cup {instr'.victima}, Pag(tablas', instr'.victima).marco),
         Tiene(tablas', Nueva) => Pag(tablas', Nueva).precencia
  PROVE  Coherente'
<1>1. /\ AlAire' = {Nueva} /\ (AlAire \cup Sacada)' = {Nueva} \cup {instr'.victima}
      /\ Hueco' = Pag(tablas', instr'.victima).marco
  BY DEF AlAire, Sacada, Hueco, Cargando, Pag
<1>2. MarcosBien(tablas, bitmap, AlAire)'
  BY <1>1 DEF MarcosBien, EnMarco, Tiene, Pag
<1>3. GlobalBien(tablas, global, AlAire \cup Sacada, Hueco)'
  BY <1>1 DEF GlobalBien, EnMarco, Tiene, Pag
<1>4. (Tiene(tablas, Nueva) => Pag(tablas, Nueva).precencia)'
  BY DEF Tiene, Pag
<1>5. (instr.victima \in EnMarco(tablas, AlAire))'
  BY <1>1 DEF EnMarco, Tiene, Pag
<1> QED
  BY <1>2, <1>3, <1>4, <1>5 DEF Coherente, Cargando

\* What the loop sees of the page at hand.
LEMMA PresenteDe ==
  ASSUME TypeOK
  PROVE  /\ EnTabla(instr.p.ft, instr.pag) <=> Tiene(tablas, Nueva)
         /\ LaPagina(instr.p.ft, instr.pag) = Pag(tablas, Nueva)
         /\ EsPresente <=> Tiene(tablas, Nueva) /\ Pag(tablas, Nueva).precencia
BY TurnoTipo DEF EnTabla, LaPagina, EsPresente, Tiene, Pag

\* An access changes no frame.
LEMMA AccesoCoherente ==
  ASSUME NEW t \in Tablas, NEW mem, EfectoAcceso(t, mem), NEW usados, NEW lista,
         MarcosBien(t, usados, {}), GlobalBien(t, lista, {}, CantMarcos),
         Tiene(t, Nueva), Pag(t, Nueva).precencia
  PROVE  MarcosBien(tablas', usados, {}) /\ GlobalBien(tablas', lista, {}, CantMarcos)
<1>1. /\ tablas' \in Tablas /\ Retocadas(t, tablas')
      /\ \A f \in Entradas : Tiene(t, f) /\ f # Nueva => Pag(tablas', f) = Pag(t, f)
  BY DEF EfectoAcceso
<1>2. \A f \in Entradas : Tiene(tablas', f) /\ ~Pag(tablas', f).precencia => ~Pag(tablas', f).modificada
  BY <1>1 DEF MarcosBien, Retocadas
<1> QED
  BY <1>1, <1>2, RetocadasBien, RetocadasGlobal

\* A page that is in memory.
LEMMA AccedePresenteBien ==
  ASSUME MemoriaBien, AccedePresente
  PROVE  MemoriaBien'
<1>1. /\ Tiene(tablas, Nueva) /\ Pag(tablas, Nueva).precencia /\ AccedeA(tablas, marcos)
      /\ TypeOK /\ tablas \in Tablas /\ marcos \in [Marcos -> Contenidos]
  BY PresenteDe, TipoDe DEF AccedePresente, MemoriaBien
<1>2. EfectoAcceso(tablas, marcos)
  BY <1>1, AccesoEfecto
<1>3. /\ vivo' = vivo /\ algoritmo' = algoritmo /\ UNCHANGED <<arbol, global, bitmap, puntero>>
      /\ instr.pc = "pagina"
  BY DEF AccedePresente, En
<1>4. MarcosBien(tablas, bitmap, {}) /\ GlobalBien(tablas, global, {}, CantMarcos)
  BY <1>3, QuietoDe DEF MemoriaBien, Cargando
<1>5. MarcosBien(tablas', bitmap, {}) /\ GlobalBien(tablas', global, {}, CantMarcos)
  BY <1>1, <1>2, <1>4, AccesoCoherente
<1>6. /\ tablas' \in Tablas /\ marcos' \in [Marcos -> Contenidos]
      /\ instr' \in Turno /\ instr'.pc \in {"interrupcion", "pagina", "sinPagina"}
  BY <1>2 DEF EfectoAcceso
<1>7. TypeOK'
  BY <1>1, <1>3, <1>6 DEF TypeOK, Tablas
<1>8. Coherente'
  BY <1>3, <1>5, <1>6, QuietoEs DEF Cargando
<1> QED
  BY <1>7, <1>8 DEF MemoriaBien

\* The page is marked present, and waits for its frame.
LEMMA LeeEfecto ==
  ASSUME MemoriaBien, LeeBloque
  PROVE  /\ instr.pc = "pagina" /\ ~EsPresente
         /\ \/ /\ HayBloque(instr.p.ft, instr.pag)
               /\ instr' \in Turno /\ instr'.pc = "asignar" /\ Nueva' = Nueva /\ instr'.p = instr.p
               /\ instr'.pag = instr.pag /\ instr'.desp = instr.desp /\ instr'.datos = instr.datos
               /\ instr'.quedan = instr.quedan
               /\ instr'.leido = arbol[instr.p.ft].datos[instr.pag + 1]
               /\ tablas' \in Tablas
               /\ \A f \in Entradas : Tiene(tablas', f) <=> Tiene(tablas, f)
               /\ \A f \in Entradas : Tiene(tablas, f) /\ f # Nueva => Pag(tablas', f) = Pag(tablas, f)
               /\ Tiene(tablas, Nueva) => /\ Pag(tablas', Nueva).precencia
                                          /\ Pag(tablas', Nueva).modificada = EsEscritura
            \/ Error /\ tablas' = tablas
<1>0. instr.pc = "pagina" /\ ~EsPresente /\ TypeOK /\ tablas \in Tablas /\ arbol \in Arbol
  BY TipoDe DEF LeeBloque, En, MemoriaBien
<1>1. CASE HayBloque(instr.p.ft, instr.pag)
  <2>1. /\ instr' = [instr EXCEPT !.pc = "asignar", !.leido = arbol[instr.p.ft].datos[instr.pag + 1]]
        /\ tablas' = IF EnTabla(instr.p.ft, instr.pag)
                     THEN [tablas EXCEPT ![instr.p.ft][instr.pag + 1] =
                             CrearPagina(@.marco, EsEscritura, TRUE)]
                     ELSE tablas
    BY <1>1 DEF LeeBloque
  <2>2. arbol[instr.p.ft].datos[instr.pag + 1] \in Contenidos
    <3>1. arbol[instr.p.ft] \in EnStorage /\ instr.pag < Len(arbol[instr.p.ft].datos)
      BY <1>0, <1>1, TurnoTipo DEF HayBloque, Arbol
    <3>2. arbol[instr.p.ft].datos \in Seq(Contenidos) /\ instr.pag \in Nat
          /\ Len(arbol[instr.p.ft].datos) \in Nat
      BY <1>0, <3>1, TurnoTipo, LenProperties DEF EnStorage
    <3>3. instr.pag + 1 \in 1 .. Len(arbol[instr.p.ft].datos)
      BY <3>1, <3>2
    <3> QED
      BY <3>2, <3>3, ElementOfSeq
  <2>3. /\ instr' \in Turno /\ instr'.pc = "asignar" /\ instr'.p = instr.p /\ instr'.pag = instr.pag
        /\ instr'.leido = arbol[instr.p.ft].datos[instr.pag + 1]
        /\ instr'.desp = instr.desp /\ instr'.datos = instr.datos /\ instr'.quedan = instr.quedan
    BY <1>0, <2>1, <2>2, TurnoTipo DEF Turno, Etiquetas
  <2>4. Nueva' = Nueva
    BY <2>3 DEF Nueva
  <2>5. CASE Tiene(tablas, Nueva)
    <3>1. Nueva \in Entradas /\ Nueva.ft = instr.p.ft /\ Nueva.n = instr.pag
          /\ Pag(tablas, Nueva) \in Pagina /\ EsEscritura \in BOOLEAN
      BY <1>0, <2>5, TurnoTipo, PagTipo
    <3>2. PICK q \in Pagina : q = CrearPagina(Pag(tablas, Nueva).marco, EsEscritura, TRUE)
      BY <3>1 DEF CrearPagina, Pagina
    <3>3. tablas' = Pone(tablas, Nueva, q)
      BY <1>0, <2>1, <2>5, <3>1, <3>2, PresenteDe DEF Pone, Pag
    <3>4. q.precencia /\ q.modificada = EsEscritura
      BY <3>2 DEF CrearPagina
    <3>5. PICK t \in Tablas : t = tablas
      BY <1>0
    <3>6. PICK e \in Entradas : e = Nueva
      BY <3>1
    <3>7. Tiene(t, e)
      BY <2>5, <3>5, <3>6
    <3>8. /\ Pone(t, e, q) \in Tablas
          /\ \A f \in Entradas : Tiene(Pone(t, e, q), f) <=> Tiene(t, f)
          /\ \A f \in Entradas : Tiene(t, f) =>
               Pag(Pone(t, e, q), f) = IF f = e THEN q ELSE Pag(t, f)
      BY <3>7, PoneEfecto
    <3>9. /\ tablas' \in Tablas
          /\ \A f \in Entradas : Tiene(tablas', f) <=> Tiene(tablas, f)
          /\ \A f \in Entradas : Tiene(tablas, f) /\ f # Nueva => Pag(tablas', f) = Pag(tablas, f)
          /\ Pag(tablas', Nueva) = q
      BY <3>3, <3>5, <3>6, <3>7, <3>8
    <3> QED
      BY <1>0, <1>1, <2>3, <2>4, <3>4, <3>9
  <2>6. CASE ~Tiene(tablas, Nueva)
    <3>1. tablas' = tablas
      BY <1>0, <2>1, <2>6, PresenteDe
    <3> QED
      BY <1>0, <1>1, <2>3, <2>4, <2>6, <3>1
  <2> QED
    BY <2>5, <2>6
<1>2. CASE ~HayBloque(instr.p.ft, instr.pag)
  BY <1>0, <1>2 DEF LeeBloque
<1> QED
  BY <1>1, <1>2

\* READ_BLOCK of a page that is not.
LEMMA LeeBloqueBien ==
  ASSUME MemoriaBien, LeeBloque
  PROVE  MemoriaBien'
<1>1. /\ vivo' = vivo /\ algoritmo' = algoritmo
      /\ UNCHANGED <<arbol, global, bitmap, marcos, puntero>> /\ instr.pc = "pagina"
  BY DEF LeeBloque, En
<1>2. MarcosBien(tablas, bitmap, {}) /\ GlobalBien(tablas, global, {}, CantMarcos)
  BY <1>1, QuietoDe DEF MemoriaBien, Cargando
<1>3. CASE Error /\ tablas' = tablas
  <2>1. UNCHANGED memoria
    BY <1>1, <1>3 DEF memoria
  <2>2. instr' \in Turno /\ instr'.pc = "libre" /\ arbol' \in Arbol /\ vivo' \in BOOLEAN
    BY <1>1, <1>3, ErrorTipo, TipoDe DEF MemoriaBien, TypeOK
  <2> QED
    BY <1>1, <2>1, <2>2, QuietaBien DEF Cargando
<1>4. CASE ~(Error /\ tablas' = tablas)
  <2>1. /\ ~EsPresente
        /\ instr' \in Turno /\ instr'.pc = "asignar" /\ Nueva' = Nueva
        /\ tablas' \in Tablas
        /\ \A f \in Entradas : Tiene(tablas', f) <=> Tiene(tablas, f)
        /\ \A f \in Entradas : Tiene(tablas, f) /\ f # Nueva => Pag(tablas', f) = Pag(tablas, f)
        /\ Tiene(tablas, Nueva) => Pag(tablas', Nueva).precencia
    BY <1>4, LeeEfecto
  <2>2. TypeOK'
    BY <1>1, <2>1 DEF MemoriaBien, TypeOK, Tablas
  <2>3. ~(Tiene(tablas, Nueva) /\ Pag(tablas, Nueva).precencia)
    BY <2>1, PresenteDe DEF MemoriaBien
  <2>4. EnMarco(tablas', {Nueva}) = EnMarco(tablas, {})
    BY <2>1, <2>3 DEF EnMarco
  <2>5. \A f \in EnMarco(tablas, {}) : f # Nueva /\ Pag(tablas', f) = Pag(tablas, f)
    BY <2>1, <2>3 DEF EnMarco
  <2>6. {Pag(tablas', f).marco : f \in EnMarco(tablas, {})} = {Pag(tablas, f).marco : f \in EnMarco(tablas, {})}
    BY <2>5
  <2>7. \A f \in Entradas : Tiene(tablas', f) /\ ~Pag(tablas', f).precencia => ~Pag(tablas', f).modificada
    BY <1>2, <2>1 DEF MarcosBien
  <2>8. MarcosBien(tablas', bitmap, {Nueva})
    BY <1>2, <2>4, <2>5, <2>6, <2>7 DEF MarcosBien
  <2>9. GlobalBien(tablas', global, {Nueva}, CantMarcos)
    <3>1. \A i \in DOMAIN global : global[i] \in EnMarco(tablas, {})
      BY <1>2 DEF GlobalBien, ToSet
    <3> QED
      BY <1>2, <2>4, <2>5, <3>1 DEF GlobalBien
  <2>10. Coherente'
    <3>1. MarcosBien(tablas', bitmap', {Nueva}) /\ GlobalBien(tablas', global', {Nueva}, CantMarcos)
      BY <1>1, <2>8, <2>9
    <3>2. Tiene(tablas', Nueva) => Pag(tablas', Nueva).precencia
      BY <2>1, TurnoTipo DEF MemoriaBien
    <3> QED
      BY <1>1, <2>1, <3>1, <3>2, CargandoEs
  <2> QED
    BY <2>2, <2>10 DEF MemoriaBien
<1> QED
  BY <1>3, <1>4

\* The victim of LRU is the page that got its frame first.
LEMMA EligeLRUBien ==
  ASSUME MemoriaBien, EligeLRU
  PROVE  MemoriaBien'
<1>1. /\ vivo' = vivo /\ algoritmo' = algoritmo /\ algoritmo = "LRU" /\ bitmap = Marcos
      /\ instr.pc = "asignar" /\ UNCHANGED <<arbol, tablas, bitmap, marcos, puntero>>
      /\ instr' = [instr EXCEPT !.pc = "liberar", !.victima = Head(global)]
      /\ global' = Tail(global)
  BY DEF EligeLRU, En
<1>2. /\ MarcosBien(tablas, bitmap, {Nueva}) /\ GlobalBien(tablas, global, {Nueva}, CantMarcos)
      /\ Tiene(tablas, Nueva) => Pag(tablas, Nueva).precencia
  BY <1>1, CargandoDe DEF MemoriaBien
<1>3. global \in Seq(Entradas) /\ ToSet(global) = EnMarco(tablas, {Nueva}) /\ IsInjective(global)
  BY <1>2, TipoDe DEF MemoriaBien, GlobalBien
<1>4. global # <<>>
  <2>1. 0 \in bitmap
    BY <1>1, MemoriaAssumption DEF Marcos
  <2>2. PICK e \in EnMarco(tablas, {Nueva}) : Pag(tablas, e).marco = 0
    BY <1>2, <2>1 DEF MarcosBien
  <2>3. PICK i \in DOMAIN global : global[i] = e
    BY <1>3, <2>2 DEF ToSet
  <2>4. i \in 1 .. Len(global)
    BY <1>3, <2>3, LenProperties
  <2> QED
    BY <2>4, EmptySeq
<1>5. PICK v \in Entradas : v = Head(global) /\ v \in ToSet(global)
  BY <1>3, <1>4, TailConjunto, HeadTailProperties
<1>6. Tail(global) \in Seq(Entradas) /\ ToSet(Tail(global)) = ToSet(global) \ {v} /\ IsInjective(Tail(global))
  BY <1>3, <1>4, <1>5, TailConjunto, HeadTailProperties
<1>7. instr' \in Turno /\ instr'.pc = "liberar" /\ instr'.victima = v /\ Nueva' = Nueva
  BY <1>1, <1>5, TurnoTipo DEF Turno, Etiquetas, MemoriaBien, Nueva, Entradas
<1>8. TypeOK'
  BY <1>1, <1>6, <1>7 DEF MemoriaBien, TypeOK, Entradas
<1>9. EnMarco(tablas, {Nueva} \cup {v}) = EnMarco(tablas, {Nueva}) \ {v}
  BY DEF EnMarco
<1>10. GlobalBien(tablas, Tail(global), {Nueva} \cup {v}, Pag(tablas, v).marco)
  BY <1>1, <1>3, <1>6, <1>9 DEF GlobalBien
<1>11. Coherente'
  <2>1. MarcosBien(tablas', bitmap', {Nueva}) /\ bitmap' = Marcos
    BY <1>1, <1>2
  <2>2. instr'.victima \in EnMarco(tablas', {Nueva})
    BY <1>1, <1>3, <1>5, <1>7
  <2>3. GlobalBien(tablas', global', {Nueva} \cup {instr'.victima}, Pag(tablas', instr'.victima).marco)
    BY <1>1, <1>7, <1>10
  <2>4. Tiene(tablas', Nueva) => Pag(tablas', Nueva).precencia
    BY <1>1, <1>2
  <2> QED
    BY <1>1, <1>7, <2>1, <2>2, <2>3, <2>4, LiberarEs
<1> QED
  BY <1>8, <1>11 DEF MemoriaBien

\* CLOCK-M begins to look for one.
LEMMA EligeClockMBien ==
  ASSUME MemoriaBien, EligeClockM
  PROVE  MemoriaBien'
<1>1. /\ vivo' = vivo /\ algoritmo' = algoritmo /\ algoritmo = "CLOCK-M" /\ bitmap = Marcos
      /\ instr.pc = "asignar" /\ UNCHANGED <<arbol, memoria>> /\ Va("reloj")
  BY DEF EligeClockM, En
<1>2. /\ MarcosBien(tablas, bitmap, {Nueva}) /\ GlobalBien(tablas, global, {Nueva}, CantMarcos)
      /\ Tiene(tablas, Nueva) => Pag(tablas, Nueva).precencia
  BY <1>1, CargandoDe DEF MemoriaBien
<1>3. instr' \in Turno /\ instr'.pc = "reloj" /\ Nueva' = Nueva
  BY <1>1, VaTipo DEF MemoriaBien, Etiquetas, Nueva
<1>4. TypeOK'
  BY <1>1, <1>3, TipoQueda, TipoDe DEF MemoriaBien, TypeOK
<1>5. tablas' = tablas /\ bitmap' = bitmap /\ global' = global
  BY <1>1 DEF memoria
<1>6. /\ MarcosBien(tablas', bitmap', {Nueva}) /\ GlobalBien(tablas', global', {Nueva}, CantMarcos)
      /\ Tiene(tablas', Nueva) => Pag(tablas', Nueva).precencia
  BY <1>2, <1>5
<1>7. Coherente'
  BY <1>1, <1>3, <1>5, <1>6, CargandoEs
<1> QED
  BY <1>4, <1>7 DEF MemoriaBien

\* Under CLOCK-M what leaves position n of the list leaves frame n - 1.
LEMMA SacaGlobal ==
  ASSUME NEW t \in Tablas, NEW e, algoritmo = "CLOCK-M",
         NEW lista \in Seq(Entradas), GlobalBien(t, lista, {e}, CantMarcos),
         NEW usados, MarcosBien(t, usados, {e}),
         NEW n \in 1 .. Len(lista), NEW v, v = lista[n]
  PROVE  /\ v \in EnMarco(t, {e}) /\ Pag(t, v).marco = n - 1
         /\ RemoveAt(lista, n) \in Seq(Entradas)
         /\ GlobalBien(t, RemoveAt(lista, n), {e} \cup {v}, Pag(t, v).marco)
<1>0. Len(lista) \in Nat /\ DOMAIN lista = 1 .. Len(lista) /\ CantMarcos \in Nat
  BY LenProperties, MemoriaAssumption
<1>1. ToSet(lista) = EnMarco(t, {e}) /\ IsInjective(lista)
  BY DEF GlobalBien
<1>2. \A i \in 1 .. Len(lista) : lista[i] \in EnMarco(t, {e})
  BY <1>0, <1>1 DEF ToSet
<1>3. \A i \in 1 .. Len(lista) : Pag(t, lista[i]).marco = i - 1
  <2> SUFFICES ASSUME NEW i \in 1 .. Len(lista) PROVE Pag(t, lista[i]).marco = i - 1
    OBVIOUS
  <2>1. Pag(t, lista[i]).marco = IF i - 1 < CantMarcos THEN i - 1 ELSE i
    BY <1>0 DEF GlobalBien
  <2>2. Pag(t, lista[i]) \in Pagina
    BY <1>2, PagTipo DEF EnMarco
  <2>3. Pag(t, lista[i]).marco \in 0 .. CantMarcos - 1
    BY <2>2 DEF Pagina, Marcos
  <2> QED
    BY <1>0, <2>1, <2>3
<1>4. PICK r \in Seq(Entradas) : r = RemoveAt(lista, n) /\ SinUno(r, lista, n)
  BY RemoveAtElementos
<1>5. ToSet(r) = ToSet(lista) \ {v} /\ IsInjective(r)
  BY <1>1, <1>4, SinUnoInyectiva
<1>6. ToSet(r) = EnMarco(t, {e} \cup {v})
  BY <1>1, <1>5 DEF EnMarco
<1>7. \A i \in DOMAIN r : Pag(t, r[i]).marco = IF i - 1 < n - 1 THEN i - 1 ELSE i
  <2> SUFFICES ASSUME NEW i \in DOMAIN r PROVE Pag(t, r[i]).marco = IF i - 1 < n - 1 THEN i - 1 ELSE i
    OBVIOUS
  <2>1. i \in 1 .. Len(lista) - 1 /\ r[i] = IF i < n THEN lista[i] ELSE lista[i + 1]
    BY <1>4 DEF SinUno
  <2>2. i \in 1 .. Len(lista) /\ i + 1 \in 1 .. Len(lista)
    BY <1>0, <2>1
  <2>3. Pag(t, lista[i]).marco = i - 1 /\ Pag(t, lista[i + 1]).marco = (i + 1) - 1
    BY <1>3, <2>2
  <2> QED
    BY <1>0, <2>1, <2>2, <2>3
<1>8. v \in EnMarco(t, {e}) /\ Pag(t, v).marco = n - 1
  BY <1>2, <1>3
<1>9. GlobalBien(t, r, {e} \cup {v}, Pag(t, v).marco)
  BY <1>5, <1>6, <1>7, <1>8 DEF GlobalBien
<1> QED
  BY <1>4, <1>8, <1>9

\* One turn of the clock finds the victim at the pointer, or clears its uso.
LEMMA RelojMiraBien ==
  ASSUME MemoriaBien, RelojMira
  PROVE  MemoriaBien'
<1> DEFINE n == puntero + 1
           i1 == IF instr.i + 1 = Len(global) THEN 0 ELSE instr.i + 1
           v1 == IF instr.i + 1 = Len(global) THEN 3 - instr.vueltas ELSE instr.vueltas
<1>1. /\ vivo' = vivo /\ algoritmo' = algoritmo /\ UNCHANGED <<arbol, bitmap, marcos>>
      /\ instr.pc = "reloj" /\ puntero < Len(global) /\ AumentarPuntero
  BY DEF RelojMira, En
<1>2. /\ MarcosBien(tablas, bitmap, {Nueva}) /\ GlobalBien(tablas, global, {Nueva}, CantMarcos)
      /\ Tiene(tablas, Nueva) => Pag(tablas, Nueva).precencia
      /\ bitmap = Marcos /\ algoritmo = "CLOCK-M"
  BY <1>1, CargandoDe DEF MemoriaBien
<1>3. /\ TypeOK /\ tablas \in Tablas /\ global \in Seq(Entradas) /\ Len(global) \in Nat
      /\ puntero \in Nat /\ puntero < CantMarcos /\ CantMarcos \in Nat /\ n \in 1 .. Len(global)
  BY <1>1, TipoDe, LenProperties, MemoriaAssumption DEF MemoriaBien, Marcos
<1>4. PICK e \in Entradas : e = global[n]
  BY <1>3, ElementOfSeq
<1>5. /\ e \in EnMarco(tablas, {Nueva}) /\ RemoveAt(global, n) \in Seq(Entradas)
      /\ GlobalBien(tablas, RemoveAt(global, n), {Nueva} \cup {e}, Pag(tablas, e).marco)
  BY <1>2, <1>3, <1>4, SacaGlobal
<1>6. Tiene(tablas, e) /\ e # Nueva /\ Pag(tablas, e).precencia
  BY <1>5 DEF EnMarco
<1>7. puntero' \in Marcos
  BY <1>1, <1>3 DEF AumentarPuntero, Marcos
<1>8. CASE ~Pag(tablas, e).uso /\ Pag(tablas, e).modificada = (instr.vueltas = 2)
  <2>1. /\ instr' = [instr EXCEPT !.pc = "liberar", !.victima = e, !.vueltas = 1, !.i = 0]
        /\ global' = RemoveAt(global, n) /\ tablas' = tablas
    BY <1>4, <1>8 DEF RelojMira, LaPagina, Pag
  <2>2. instr' \in Turno /\ instr'.pc = "liberar" /\ instr'.victima = e /\ Nueva' = Nueva
    BY <1>3, <2>1, TurnoTipo DEF Turno, Etiquetas, Nueva, Entradas
  <2>3. TypeOK'
    BY <1>1, <1>3, <1>5, <1>7, <2>1, <2>2 DEF TypeOK, Entradas
  <2>4. Coherente'
    <3>1. MarcosBien(tablas', bitmap', {Nueva}) /\ bitmap' = Marcos
      BY <1>1, <1>2, <2>1
    <3>2. instr'.victima \in EnMarco(tablas', {Nueva})
      BY <1>5, <2>1, <2>2
    <3>3. GlobalBien(tablas', global', {Nueva} \cup {instr'.victima}, Pag(tablas', instr'.victima).marco)
      BY <1>5, <2>1, <2>2
    <3>4. Tiene(tablas', Nueva) => Pag(tablas', Nueva).precencia
      BY <1>2, <2>1
    <3> QED
      BY <1>1, <2>2, <3>1, <3>2, <3>3, <3>4, LiberarEs
  <2> QED
    BY <2>3, <2>4 DEF MemoriaBien
<1>9. CASE ~(~Pag(tablas, e).uso /\ Pag(tablas, e).modificada = (instr.vueltas = 2))
  <2>1. /\ instr' = [instr EXCEPT !.i = i1, !.vueltas = v1]
        /\ tablas' = IF instr.vueltas = 2
                     THEN [tablas EXCEPT ![e.ft][e.n + 1].uso = FALSE] ELSE tablas
        /\ global' = global
    BY <1>4, <1>9 DEF RelojMira, LaPagina, Pag
  <2>2. i1 \in Nat /\ v1 \in {1, 2}
    BY <1>3, TurnoTipo DEF Turno
  <2> HIDE DEF i1, v1
  <2>3. instr' \in Turno /\ instr'.pc = "reloj" /\ Nueva' = Nueva
    BY <1>1, <1>3, <2>1, <2>2, TurnoTipo DEF Turno, Nueva
  <2>4. PICK t \in Tablas : t = tablas
    BY <1>3
  <2>5. Tiene(t, e) /\ Pag(t, e) \in Pagina
    BY <1>6, <2>4, PagTipo
  <2>6. PICK q \in Pagina : q = [Pag(t, e) EXCEPT !.uso = FALSE]
    BY <2>5 DEF Pagina
  <2>7. /\ Pone(t, e, q) \in Tablas
        /\ \A f \in Entradas : Tiene(Pone(t, e, q), f) <=> Tiene(t, f)
        /\ \A f \in Entradas : Tiene(t, f) =>
             Pag(Pone(t, e, q), f) = IF f = e THEN q ELSE Pag(t, f)
    BY <2>5, PoneEfecto
  <2>8. tablas' = t \/ tablas' = Pone(t, e, q)
    BY <2>1, <2>4, <2>6 DEF Pone, Pag
  <2>9. /\ tablas' \in Tablas /\ Retocadas(t, tablas')
        /\ \A f \in Entradas : Tiene(t, f) => Pag(tablas', f).modificada = Pag(t, f).modificada
    <3>1. q.marco = Pag(t, e).marco /\ q.precencia = Pag(t, e).precencia
          /\ q.modificada = Pag(t, e).modificada
      BY <2>5, <2>6 DEF Pagina
    <3> QED
      BY <2>7, <2>8, <3>1 DEF Retocadas
  <2>10. TypeOK'
    BY <1>1, <1>3, <1>7, <2>1, <2>3, <2>9 DEF TypeOK, Tablas
  <2>11. \A f \in Entradas : Tiene(tablas', f) /\ ~Pag(tablas', f).precencia => ~Pag(tablas', f).modificada
    BY <1>2, <2>4, <2>9 DEF MarcosBien, Retocadas
  <2>12. MarcosBien(tablas', bitmap, {Nueva}) /\ GlobalBien(tablas', global, {Nueva}, CantMarcos)
    BY <1>2, <2>4, <2>9, <2>11, RetocadasBien, RetocadasGlobal
  <2>13. MarcosBien(tablas', bitmap', {Nueva}) /\ GlobalBien(tablas', global', {Nueva}, CantMarcos)
    BY <1>1, <2>1, <2>12
  <2>14. Tiene(tablas', Nueva) => Pag(tablas', Nueva).precencia
    BY <1>2, <1>3, <2>4, <2>9, TurnoTipo DEF Retocadas
  <2>15. Coherente'
    BY <1>1, <1>2, <2>3, <2>13, <2>14, CargandoEs
  <2> QED
    BY <2>10, <2>15 DEF MemoriaBien
<1> QED
  BY <1>8, <1>9

\* The page gets its frame and is accessed: nothing of the load is left.
LEMMA CargaBien ==
  ASSUME TypeOK, algoritmo' = algoritmo, vivo' = vivo, arbol' \in Arbol, puntero' = puntero,
         NEW t \in Tablas, NEW usados \in SUBSET Marcos, usados = bitmap \/ bitmap = Marcos,
         NEW m \in Marcos, m \notin usados, bitmap \cup {m} = usados \cup {m},
         MarcosBien(t, usados, {Nueva}), GlobalBien(t, global, {Nueva}, m),
         \A f \in Marcos : f < m => f \in usados,
         Tiene(t, Nueva) => Pag(t, Nueva).precencia,
         Carga(t, global, m)
  PROVE  MemoriaBien'
<1> DEFINE u0 == ConMarco(t, Nueva, m, EsEscritura)
           mem0 == IF EsEscritura THEN marcos ELSE [marcos EXCEPT ![m] = instr.leido]
<1>1. /\ Nueva \in Entradas /\ Nueva.ft = instr.p.ft /\ Nueva.n = instr.pag
      /\ EsEscritura \in BOOLEAN /\ instr.leido \in Contenidos
  BY TurnoTipo
<1>2. global \in Seq(Entradas) /\ marcos \in [Marcos -> Contenidos]
  BY TipoDe
<1>3. /\ bitmap' = bitmap \cup {m} /\ global' = AgregarGlobal(global, Nueva, m, t)
      /\ Accede(u0, mem0)
  BY <1>1 DEF Carga, ConMarco, Nueva
<1>4. PICK e \in Entradas : e = Nueva
  BY <1>1
<1>5. PICK u : u = u0
  OBVIOUS
<1>6. EfectoMarco(t, e, m, u)
  BY <1>1, <1>4, <1>5, ConMarcoEfecto
<1>7. PICK mem \in [Marcos -> Contenidos] : mem = mem0
  BY <1>1, <1>2
<1>8. u \in Tablas /\ Tiene(u, Nueva) /\ Pag(u, Nueva).precencia
  BY <1>4, <1>6 DEF EfectoMarco
<1>9. EfectoAcceso(u, mem)
  BY <1>3, <1>5, <1>7, <1>8, AccedeEfecto
<1>10. /\ EnMarco(u, {}) = EnMarco(t, {e}) \cup {e}
       /\ MarcosBien(u, usados \cup {m}, {})
  <2>1. MarcosBien(t, usados, {e}) /\ (Tiene(t, e) => Pag(t, e).precencia)
    BY <1>4
  <2> QED
    BY <1>6, <2>1, CargaMarcos
<1>11. PICK g \in Seq(Entradas) : g = AgregarGlobal(global, e, m, t) /\ GlobalBien(u, g, {}, CantMarcos)
  BY <1>2, <1>4, <1>6, CargaGlobal
<1>12. MarcosBien(tablas', usados \cup {m}, {}) /\ GlobalBien(tablas', g, {}, CantMarcos)
  BY <1>8, <1>9, <1>10, <1>11, AccesoCoherente
<1>13. /\ tablas' \in Tablas /\ marcos' \in [Marcos -> Contenidos]
       /\ instr' \in Turno /\ instr'.pc \in {"interrupcion", "pagina", "sinPagina"}
  BY <1>9 DEF EfectoAcceso
<1>14. TypeOK'
  BY <1>3, <1>4, <1>11, <1>13 DEF TypeOK, Tablas, Entradas, Arbol
<1>15. bitmap' = usados \cup {m} /\ global' = g
  BY <1>3, <1>4, <1>11
<1>16. Coherente'
  BY <1>12, <1>13, <1>15, QuietoEs DEF Cargando
<1> QED
  BY <1>14, <1>16 DEF MemoriaBien

\* The first free frame is the end of the list.
LEMMA AsignaLibreBien ==
  ASSUME MemoriaBien, AsignaLibre
  PROVE  MemoriaBien'
<1>1. PICK m \in Marcos \ bitmap :
        (\A o \in Marcos \ bitmap : m <= o) /\ Carga(tablas, global, m)
  BY DEF AsignaLibre
<1>2. /\ vivo' = vivo /\ algoritmo' = algoritmo /\ UNCHANGED <<arbol, puntero>>
      /\ instr.pc = "asignar"
  BY DEF AsignaLibre, En
<1>3. /\ MarcosBien(tablas, bitmap, {Nueva}) /\ GlobalBien(tablas, global, {Nueva}, CantMarcos)
      /\ Tiene(tablas, Nueva) => Pag(tablas, Nueva).precencia
  BY <1>2, CargandoDe DEF MemoriaBien
<1>4. TypeOK /\ tablas \in Tablas /\ bitmap \in SUBSET Marcos /\ arbol' \in Arbol
      /\ global \in Seq(Entradas)
  BY <1>2, TipoDe DEF MemoriaBien
<1>5. \A f \in Marcos : f < m => f \in bitmap
  <2> SUFFICES ASSUME NEW f \in Marcos, f < m, f \notin bitmap PROVE FALSE
    OBVIOUS
  <2>1. m <= f
    BY <1>1
  <2> QED
    BY <1>1, <2>1 DEF Marcos
<1>6. GlobalBien(tablas, global, {Nueva}, m)
  <2> SUFFICES ASSUME algoritmo = "CLOCK-M", NEW i \in DOMAIN global
               PROVE  Pag(tablas, global[i]).marco = IF i - 1 < m THEN i - 1 ELSE i
    BY <1>3 DEF GlobalBien
  <2>0. i \in Nat /\ CantMarcos \in Nat /\ m \in Nat
    BY <1>1, <1>4, LenProperties, MemoriaAssumption DEF Marcos
  <2>a. \A j \in DOMAIN global : global[j] \in EnMarco(tablas, {Nueva})
    BY <1>3 DEF GlobalBien, ToSet
  <2>b. \A j \in DOMAIN global :
          Pag(tablas, global[j]).marco \in bitmap /\ Pag(tablas, global[j]).marco \in Marcos
    BY <1>3, <1>4, <2>a DEF MarcosBien
  <2>c. \A j \in DOMAIN global : Pag(tablas, global[j]).marco = j - 1
    <3> SUFFICES ASSUME NEW j \in DOMAIN global PROVE Pag(tablas, global[j]).marco = j - 1
      OBVIOUS
    <3>1. Pag(tablas, global[j]).marco = IF j - 1 < CantMarcos THEN j - 1 ELSE j
      BY <1>3 DEF GlobalBien
    <3>2. j \in Nat /\ Pag(tablas, global[j]).marco \in 0 .. CantMarcos - 1
      BY <1>4, <2>b, LenProperties DEF Marcos
    <3> QED
      BY <2>0, <3>1, <3>2
  <2>d. i - 1 < m
    <3> SUFFICES ASSUME ~(i - 1 < m) PROVE FALSE
      OBVIOUS
    <3>1. m + 1 \in DOMAIN global
      BY <1>4, <2>0, LenProperties
    <3>2. Pag(tablas, global[m + 1]).marco = m
      BY <2>0, <2>c, <3>1
    <3> QED
      BY <1>1, <2>b, <3>1, <3>2
  <2> QED
    BY <2>c, <2>d
<1> QED
  BY <1>1, <1>2, <1>3, <1>4, <1>5, <1>6, CargaBien

\* What goes to the Storage when a victim leaves.
LEMMA DevuelveTipo ==
  ASSUME TypeOK, NEW e \in Entradas, Tiene(tablas, e), DevuelveBloque(e)
  PROVE  arbol' \in Arbol
<1>1. /\ e.ft \in FileTags /\ Pag(tablas, e) \in Pagina /\ LaPagina(e.ft, e.n) = Pag(tablas, e)
      /\ arbol \in Arbol /\ marcos \in [Marcos -> Contenidos]
  BY PagTipo, TipoDe DEF LaPagina, Pag
<1>2. Pag(tablas, e).marco \in Marcos
  BY <1>1 DEF Pagina
<1>3. CASE Pag(tablas, e).modificada
  BY <1>1, <1>2, <1>3, EscribeTipo DEF DevuelveBloque
<1>4. CASE ~Pag(tablas, e).modificada
  BY <1>1, <1>4 DEF DevuelveBloque
<1> QED
  BY <1>3, <1>4

\* The victim leaves its frame, which the page at hand gets.
LEMMA LiberaYCargaBien ==
  ASSUME MemoriaBien, LiberaYCarga
  PROVE  MemoriaBien'
<1>1. PICK e \in Entradas : e = instr.victima
  BY TurnoTipo DEF MemoriaBien
<1>2. /\ vivo' = vivo /\ algoritmo' = algoritmo /\ puntero' = puntero /\ instr.pc = "liberar"
      /\ DevuelveBloque(e) /\ Carga(TrasLiberar(e), global, Pag(tablas, e).marco)
  BY <1>1 DEF LiberaYCarga, En, LaPagina, Pag
<1>3. /\ MarcosBien(tablas, bitmap, {Nueva}) /\ bitmap = Marcos
      /\ e \in EnMarco(tablas, {Nueva})
      /\ GlobalBien(tablas, global, {Nueva} \cup {e}, Pag(tablas, e).marco)
      /\ Tiene(tablas, Nueva) => Pag(tablas, Nueva).precencia
  BY <1>1, <1>2, LiberarDe DEF MemoriaBien
<1>4. TypeOK /\ Tiene(tablas, e) /\ e # Nueva
  BY <1>3 DEF MemoriaBien, EnMarco
<1>5. PICK t \in Tablas : t = tablas
  BY <1>4, TipoDe
<1>6. PICK u : u = TrasLiberar(e)
  OBVIOUS
<1>7. /\ u \in Tablas
      /\ \A f \in Entradas : Tiene(u, f) => Tiene(t, f)
      /\ \A f \in Entradas : Tiene(u, f) /\ f # e => Pag(u, f) = Pag(t, f)
  <2>1. EfectoLiberar(t, e, u)
    BY <1>1, <1>4, <1>5, <1>6, TipoDe, LiberaEfecto
  <2> QED
    BY <2>1 DEF EfectoLiberar
<1>8. PICK m \in Marcos : m = Pag(t, e).marco
  BY <1>4, <1>5, PagTipo DEF Pagina
<1>9. PICK fuera : fuera = {Nueva}
  OBVIOUS
<1>10. /\ MarcosBien(t, Marcos, fuera) /\ e \in EnMarco(t, fuera)
       /\ GlobalBien(t, global, fuera \cup {e}, Pag(t, e).marco)
  BY <1>3, <1>5, <1>9
<1>11. MarcosBien(u, Marcos \ {Pag(t, e).marco}, fuera) /\ GlobalBien(u, global, fuera, Pag(t, e).marco)
  BY <1>5, <1>6, <1>10, LiberaMarcos
<1>12. MarcosBien(u, Marcos \ {m}, {Nueva}) /\ GlobalBien(u, global, {Nueva}, m)
  BY <1>8, <1>9, <1>11
<1>13. Tiene(u, Nueva) => Pag(u, Nueva).precencia
  BY <1>3, <1>4, <1>5, <1>7, TurnoTipo
<1>14. arbol' \in Arbol
  BY <1>2, <1>4, DevuelveTipo
<1>15. Carga(u, global, m)
  BY <1>2, <1>5, <1>6, <1>8
<1>16. \A f \in Marcos : f < m => f \in Marcos \ {m}
  BY DEF Marcos
<1>17. Marcos \ {m} \in SUBSET Marcos /\ m \notin Marcos \ {m} /\ bitmap \cup {m} = (Marcos \ {m}) \cup {m}
  BY <1>3
<1> QED
  BY <1>2, <1>3, <1>4, <1>7, <1>12, <1>13, <1>14, <1>15, <1>16, <1>17, CargaBien

\* The Worker dies with its memory as it was.
LEMMA FallaTablaLiberadaBien ==
  ASSUME MemoriaBien, FallaTablaLiberada
  PROVE  MemoriaBien'
<1>1. PICK e \in Entradas : e = instr.victima
  BY TurnoTipo DEF MemoriaBien
<1>2. /\ instr.pc = "liberar" /\ DevuelveBloque(e) /\ vivo' = FALSE
      /\ UNCHANGED memoria /\ algoritmo' = algoritmo /\ instr' = instr
  BY <1>1 DEF FallaTablaLiberada
<1>3. TypeOK /\ Tiene(tablas, e)
  BY <1>1, <1>2, LiberarDe DEF MemoriaBien, EnMarco
<1>4. arbol' \in Arbol
  BY <1>2, <1>3, DevuelveTipo
<1>5. TypeOK'
  BY <1>2, <1>3, <1>4, TipoQueda, TurnoTipo
<1>6. Coherente'
  <2>1. /\ MarcosBien(tablas, bitmap, {Nueva}) /\ bitmap = Marcos
        /\ instr.victima \in EnMarco(tablas, {Nueva})
        /\ GlobalBien(tablas, global, {Nueva} \cup {instr.victima}, Pag(tablas, instr.victima).marco)
        /\ Tiene(tablas, Nueva) => Pag(tablas, Nueva).precencia
    BY <1>2, LiberarDe DEF MemoriaBien
  <2>2. /\ tablas' = tablas /\ bitmap' = bitmap /\ global' = global /\ instr'.pc = "liberar"
        /\ instr'.victima = instr.victima /\ Nueva' = Nueva
    BY <1>2 DEF memoria, Nueva
  <2>3. /\ MarcosBien(tablas', bitmap', {Nueva}) /\ bitmap' = Marcos
        /\ instr'.victima \in EnMarco(tablas', {Nueva})
        /\ GlobalBien(tablas', global', {Nueva} \cup {instr'.victima}, Pag(tablas', instr'.victima).marco)
        /\ Tiene(tablas', Nueva) => Pag(tablas', Nueva).precencia
    BY <2>1, <2>2
  <2> QED
    BY <1>2, <2>2, <2>3, LiberarEs
<1> QED
  BY <1>5, <1>6 DEF MemoriaBien

-----------------------------------------------------------------------------
(* The role of the instruction at hand.                                    *)

\* Papel, of the parts it reads.
LEMMA PapelEs ==
  ASSUME guion \in Guiones, guion' = guion, instr'.p \in guion \cup {Fin},
         instr'.pc \in {"libre", "interrupcion", "sinPagina", "desalojo"}
  PROVE  Papel'
BY DEF Papel, Cargando

\* The page and its load belong to a WRITE or READ of the script; a COMMIT is
\* what follows a flush of its own.
LEMMA PapelQueda ==
  ASSUME TypeOK, Papel, [Next]_vars
  PROVE  Papel'
<1>0. guion \in Guiones /\ instr.p \in guion \cup {Fin}
  BY DEF Papel
<1>1. CASE UNCHANGED vars
  BY <1>1 DEF vars, Papel, Cargando
<1>2. CASE Directa
  BY <1>0, <1>2, ErrorTipo, VaTipo, PapelEs DEF Directa, En, Bien, Etiquetas
<1>3. CASE ComienzaAcceso
  <2>1. PICK p \in guion : p.op \in {"WRITE", "READ"} /\ instr'.p = p
          /\ instr'.pc \in {"sinPagina", "pagina"} /\ guion' = guion
    BY <1>3, OciosaTipo DEF ComienzaAcceso, En, Ociosa
  <2> QED
    BY <1>0, <2>1 DEF Papel, Cargando
<1>4. CASE ComienzaPersistir
  <2>1. PICK p \in guion : instr' = [Ociosa EXCEPT !.pc = "persistir", !.p = p, !.tabs = <<p.ft>>,
                      !.luego = IF p.op = "COMMIT" THEN "commit" ELSE "interrupcion"]
    BY <1>4 DEF ComienzaPersistir
  <2>2. guion' = guion
    BY <1>4 DEF ComienzaPersistir, En
  <2> QED
    BY <1>0, <2>1, <2>2 DEF Papel, Cargando, Ociosa
<1>5. CASE AccedePresente
  <2>1. instr'.p = instr.p /\ instr'.pc \in {"interrupcion", "pagina"} /\ guion' = guion
        /\ instr.pc = "pagina"
    BY <1>5 DEF AccedePresente, AccedeA, En, Ociosa
  <2> QED
    BY <2>1 DEF Papel, Cargando
<1>6. CASE LeeBloque
  <2>1. guion' = guion /\ instr.pc = "pagina"
    BY <1>6 DEF LeeBloque, En
  <2>2. \/ instr'.p = instr.p /\ instr'.pc = "asignar"
        \/ Error
    BY <1>6, TurnoTipo DEF LeeBloque, Turno
  <2> QED
    BY <1>0, <2>1, <2>2, ErrorTipo, PapelEs DEF Papel, Cargando
<1>7. ASSUME NEW t, NEW mem, Accede(t, mem), instr.pc \in Cargando, guion' = guion
      PROVE  Papel'
  <2>1. instr'.p = instr.p /\ instr'.pc \in {"interrupcion", "pagina", "sinPagina"}
    BY <1>7, VaTipo DEF Accede, AccedeA, SinAcceso, Ociosa, Etiquetas
  <2> QED
    BY <1>7, <2>1 DEF Papel, Cargando
<1>8. CASE AsignaLibre
  BY <1>7, <1>8 DEF AsignaLibre, Carga, En, Cargando
<1>9. CASE EligeLRU
  <2>1. guion' = guion /\ instr.pc = "asignar" /\ instr'.p = instr.p /\ instr'.pc = "liberar"
    BY <1>9, TurnoTipo DEF EligeLRU, En, Turno
  <2> QED
    BY <2>1 DEF Papel, Cargando
<1>10. CASE EligeClockM
  <2>1. guion' = guion /\ instr.pc = "asignar" /\ instr'.p = instr.p /\ instr'.pc = "reloj"
    BY <1>10, VaTipo DEF EligeClockM, En, Etiquetas
  <2> QED
    BY <2>1 DEF Papel, Cargando
<1>11. CASE RelojMira
  <2>1. guion' = guion /\ instr.pc = "reloj" /\ instr'.p = instr.p /\ instr'.pc \in {"reloj", "liberar"}
    BY <1>11, TurnoTipo DEF RelojMira, En, Turno
  <2> QED
    BY <2>1 DEF Papel, Cargando
<1>12. CASE LiberaYCarga
  BY <1>7, <1>12 DEF LiberaYCarga, Carga, En, Cargando
<1>13. CASE FallaTablaLiberada
  BY <1>13 DEF FallaTablaLiberada, Papel, Cargando
<1>14. CASE PaginaInicialSinValor
  <2>1. guion' = guion /\ instr'.p = instr.p /\ instr'.pc \in {"interrupcion", "sinPagina"}
    BY <1>14, VaTipo DEF PaginaInicialSinValor, Bien, Etiquetas
  <2> QED
    BY <1>0, <2>1, PapelEs
<1>15. CASE PersistePagina
  <2>1. guion' = guion /\ (instr' = instr \/ Error)
    BY <1>15 DEF PersistePagina, En
  <2>2. CASE instr' = instr
    BY <2>1, <2>2 DEF Papel, Cargando
  <2> QED
    BY <1>0, <2>1, <2>2, ErrorTipo, PapelEs
<1>16. CASE TerminaTabla
  <2>1. guion' = guion /\ instr'.p = instr.p /\ instr'.pc = instr.pc /\ instr'.luego = instr.luego
        /\ instr.pc = "persistir"
    BY <1>16, TurnoTipo DEF TerminaTabla, En, Turno
  <2> QED
    BY <2>1 DEF Papel, Cargando
<1>17. CASE TerminaPersistir
  <2>1. guion' = guion /\ instr.pc = "persistir" /\ instr.luego \in {"commit", "interrupcion", "desalojo"}
    BY <1>17 DEF TerminaPersistir, En, Papel
  <2>2. instr'.p = instr.p /\ instr'.pc = instr.luego
    BY <1>17, <2>1, VaTipo DEF TerminaPersistir, Etiquetas
  <2> QED
    BY <2>1, <2>2 DEF Papel, Cargando
<1>18. CASE EnviaCommit
  BY <1>0, <1>18, ErrorTipo, VaTipo, PapelEs DEF EnviaCommit, En, Bien, Etiquetas
<1>19. CASE Interrumpe
  <2>1. guion' = guion
    BY <1>19 DEF Interrumpe, En
  <2>2. CASE instr' = Ociosa
    BY <1>0, <2>1, <2>2, OciosaTipo, PapelEs
  <2>3. ASSUME NEW orden, instr' = [Ociosa EXCEPT !.pc = "persistir", !.tabs = orden, !.luego = "desalojo"]
        PROVE  Papel'
    BY <1>0, <2>1, <2>3 DEF Papel, Cargando, Ociosa
  <2> QED
    BY <1>19, <2>2, <2>3 DEF Interrumpe
<1>20. CASE ConfirmaDesalojo
  BY <1>0, <1>20, OciosaTipo, PapelEs DEF ConfirmaDesalojo, En
<1> QED
  BY <1>1, <1>2, <1>3, <1>4, <1>5, <1>6, <1>8, <1>9, <1>10, <1>11, <1>12, <1>13, <1>14, <1>15,
     <1>16, <1>17, <1>18, <1>19, <1>20 DEF Next, Recibe, Sigue

-----------------------------------------------------------------------------
(* The invariant holds.                                                    *)

\* A Worker that has run nothing.
LEMMA VacioBien ==
  ASSUME NEW t, t = [ft \in FileTags |-> <<>>]
  PROVE  /\ t \in Tablas /\ EnMarco(t, {}) = {} /\ MarcosBien(t, {}, {})
         /\ GlobalBien(t, <<>>, {}, CantMarcos)
<1>1. <<>> \in Seq(Pagina) /\ Len(<<>>) = 0
  BY EmptySeq
<1>2. \A e \in Entradas : ~Tiene(t, e)
  BY <1>1 DEF Tiene, Entradas
<1>3. EnMarco(t, {}) = {}
  BY <1>2 DEF EnMarco
<1>4. ToSet(<<>>) = {} /\ IsInjective(<<>>) /\ DOMAIN <<>> = {}
  BY DEF ToSet, IsInjective
<1> QED
  BY <1>1, <1>2, <1>3, <1>4 DEF Tablas, MarcosBien, GlobalBien

\* The interpreter starts with nothing in memory.
LEMMA InicioBien ==
  ASSUME Init
  PROVE  MemoriaBien /\ Papel
<1>1. /\ guion \in Guiones /\ arbol = ArbolInicial /\ algoritmo \in Algoritmos
      /\ tablas = [ft \in FileTags |-> <<>>] /\ global = <<>> /\ bitmap = {} /\ puntero = 0
      /\ marcos = [m \in Marcos |-> Cero] /\ instr = Ociosa /\ vivo = TRUE
  BY DEF Init
<1>2. instr \in Turno /\ instr.pc = "libre" /\ instr.p = Fin
  BY <1>1, OciosaTipo
<1>3. tablas \in Tablas /\ MarcosBien(tablas, {}, {}) /\ GlobalBien(tablas, <<>>, {}, CantMarcos)
  BY <1>1, VacioBien
<1>4. TypeOK
  <2>1. /\ global \in Seq([ft : FileTags, n : Nat]) /\ puntero \in Marcos
        /\ marcos \in [Marcos -> Contenidos] /\ arbol \in [FileTags -> EnStorage \cup {NoHay}]
    BY <1>1, EmptySeq, CeroTipo, MemoriaAssumption DEF Marcos
  <2> QED
    BY <1>1, <1>2, <1>3, <2>1 DEF TypeOK, Tablas
<1>5. Coherente
  BY <1>1, <1>2, <1>3 DEF Coherente, AlAire, Sacada, Hueco, Cargando
<1>6. Papel
  BY <1>1, <1>2 DEF Papel, Cargando
<1> QED
  BY <1>4, <1>5, <1>6 DEF MemoriaBien

\* Every step of the interpreter keeps it.
LEMMA PasoBien ==
  ASSUME MemoriaBien, Papel, [Next]_vars
  PROVE  MemoriaBien' /\ Papel'
<1>1. Papel' /\ guion \in Guiones
  BY PapelQueda DEF MemoriaBien, Papel
<1>2. CASE UNCHANGED vars
  <2>1. TypeOK'
    BY <1>2 DEF MemoriaBien, TypeOK, vars, memoria
  <2>2. Coherente'
    BY <1>2 DEF MemoriaBien, Coherente, vars, memoria, AlAire, Sacada, Hueco, Nueva,
                MarcosBien, GlobalBien, EnMarco, Tiene, Pag
  <2> QED
    BY <1>1, <2>1, <2>2 DEF MemoriaBien
<1>3. CASE Recibe
  BY <1>1, <1>3, DirectaBien, ComienzaAccesoBien, ComienzaPersistirBien DEF Recibe
<1>4. CASE Sigue
  BY <1>1, <1>4, AccedePresenteBien, LeeBloqueBien, AsignaLibreBien, EligeLRUBien, EligeClockMBien,
     RelojMiraBien, LiberaYCargaBien, FallaTablaLiberadaBien, PaginaInicialBien, PersistePaginaBien,
     TerminaTablaBien, TerminaPersistirBien, EnviaCommitBien, InterrumpeBien, ConfirmaDesalojoBien
     DEF Sigue
<1> QED
  BY <1>2, <1>3, <1>4 DEF Next

-----------------------------------------------------------------------------
(* What the invariant says of the pages present.                           *)

\* A list that does not repeat is as long as what it holds.
LEMMA LargoInyectiva ==
  ASSUME NEW S, NEW s \in Seq(S), IsInjective(s)
  PROVE  Len(s) = Cardinality(ToSet(s))
<1>1. Len(s) \in Nat /\ DOMAIN s = 1 .. Len(s) /\ s \in [1 .. Len(s) -> S]
  BY LenProperties
<1>2. s \in Bijection(1 .. Len(s), ToSet(s))
  BY <1>1 DEF Bijection, Injection, Surjection, ToSet, IsInjective
<1>3. IsFiniteSet(1 .. Len(s)) /\ Cardinality(1 .. Len(s)) = Len(s)
  BY <1>1, FS_Interval
<1> QED
  BY <1>2, <1>3, FS_Bijection DEF ExistsBijection

\* The pages present are those in a frame.
LEMMA PresentesEs ==
  ASSUME TypeOK
  PROVE  Paginas = {e \in Entradas : Tiene(tablas, e)} /\ Presentes = EnMarco(tablas, {})
         /\ \A e : Marco(e) = Pag(tablas, e).marco /\ LaPagina(e.ft, e.n) = Pag(tablas, e)
<1>1. \A ft \in FileTags : Len(tablas[ft]) \in Nat
  BY TipoDe, LenProperties DEF Tablas
<1>2. Paginas = {e \in Entradas : Tiene(tablas, e)}
  <2>1. ASSUME NEW e \in Entradas, Tiene(tablas, e) PROVE e \in Paginas
    <3>1. e.ft \in FileTags /\ e.n \in 0 .. Len(tablas[e.ft]) - 1 /\ Entrada(e.ft, e.n) = e
      BY <1>1, <2>1, EntradaIgual DEF Entradas, Tiene
    <3> QED
      BY <3>1 DEF Paginas
  <2>2. ASSUME NEW ft \in FileTags, NEW n \in 0 .. Len(tablas[ft]) - 1
        PROVE  Entrada(ft, n) \in Entradas /\ Tiene(tablas, Entrada(ft, n))
    BY <1>1 DEF Entrada, Entradas, Tiene
  <2> QED
    BY <2>1, <2>2 DEF Paginas
<1>3. \A e : Marco(e) = Pag(tablas, e).marco /\ LaPagina(e.ft, e.n) = Pag(tablas, e)
  BY DEF Marco, LaPagina, Pag
<1> QED
  BY <1>2, <1>3 DEF Presentes, EnMarco

\* The invariant is what the runs check, and more.
LEMMA MarcosDeMemoriaBien ==
  ASSUME MemoriaBien
  PROVE  MarcosCoherentes
<1> SUFFICES ASSUME Quieta
             PROVE  /\ bitmap = {Marco(e) : e \in Presentes}
                    /\ \A e, f \in Presentes : Marco(e) = Marco(f) => e = f
                    /\ \A e \in Paginas \ Presentes : ~LaPagina(e.ft, e.n).modificada
  BY DEF MarcosCoherentes
<1>1. MarcosBien(tablas, bitmap, {})
  BY QuietoDe DEF MemoriaBien, Quieta, Cargando
<1>2. Paginas = {e \in Entradas : Tiene(tablas, e)} /\ Presentes = EnMarco(tablas, {})
      /\ \A e : Marco(e) = Pag(tablas, e).marco /\ LaPagina(e.ft, e.n) = Pag(tablas, e)
  BY PresentesEs DEF MemoriaBien
<1>3. bitmap = {Marco(e) : e \in Presentes}
  BY <1>1, <1>2 DEF MarcosBien
<1>4. \A e, f \in Presentes : Marco(e) = Marco(f) => e = f
  BY <1>1, <1>2 DEF MarcosBien
<1>5. \A e \in Paginas \ Presentes : ~LaPagina(e.ft, e.n).modificada
  BY <1>1, <1>2 DEF MarcosBien, EnMarco
<1> QED
  BY <1>3, <1>4, <1>5

\* The property of the global table follows.
LEMMA GlobalDeMemoriaBien ==
  ASSUME MemoriaBien
  PROVE  TablaGlobalExacta
<1> SUFFICES ASSUME Quieta
             PROVE  /\ ToSet(global) = Presentes /\ Len(global) = Cardinality(Presentes)
                    /\ algoritmo = "CLOCK-M" => \A i \in DOMAIN global : Marco(global[i]) = i - 1
  BY DEF TablaGlobalExacta
<1>1. GlobalBien(tablas, global, {}, CantMarcos) /\ TypeOK
  BY QuietoDe DEF MemoriaBien, Quieta, Cargando
<1>2. Presentes = EnMarco(tablas, {}) /\ \A e : Marco(e) = Pag(tablas, e).marco
  BY <1>1, PresentesEs
<1>3. ToSet(global) = Presentes /\ IsInjective(global) /\ global \in Seq(Entradas)
  BY <1>1, <1>2, TipoDe DEF GlobalBien
<1>4. Len(global) = Cardinality(Presentes)
  BY <1>3, LargoInyectiva
<1>5. ASSUME algoritmo = "CLOCK-M", NEW i \in DOMAIN global PROVE Marco(global[i]) = i - 1
  <2>1. Marco(global[i]) = IF i - 1 < CantMarcos THEN i - 1 ELSE i
    BY <1>1, <1>2, <1>5 DEF GlobalBien
  <2>2. global[i] \in EnMarco(tablas, {})
    BY <1>2, <1>3 DEF ToSet
  <2>3. Pag(tablas, global[i]) \in Pagina
    BY <1>1, <2>2, PagTipo, TipoDe DEF EnMarco
  <2>4. Marco(global[i]) \in 0 .. CantMarcos - 1
    BY <1>2, <2>3 DEF Pagina, Marcos
  <2>5. i \in Nat /\ CantMarcos \in Nat
    BY <1>3, LenProperties, MemoriaAssumption
  <2> QED
    BY <2>1, <2>4, <2>5
<1> QED
  BY <1>3, <1>4, <1>5

-----------------------------------------------------------------------------
(* What is only read.                                                      *)

\* The script does not change.
LEMMA LeidosFijos ==
  ASSUME guion' = guion
  PROVE  SoloLeidos' = SoloLeidos /\ SoloEscritos' = SoloEscritos /\ \A ft : Usos(ft)' = Usos(ft)
BY DEF SoloLeidos, SoloEscritos, Usos

\* An instruction of the script is one of the uses of its file:tag.
LEMMA UsoDe ==
  ASSUME NEW p \in guion
  PROVE  p.op \in Usos(p.ft)
BY DEF Usos

\* Nothing that is in the Storage changes in it.
Conserva(antes, despues, S) == \A ft \in S : antes[ft] # NoHay => despues[ft] = antes[ft]

\* WRITE_BLOCK changes one file:tag.
LEMMA EscribeConserva ==
  ASSUME arbol \in Arbol, NEW ft \in FileTags, NEW n, NEW m, EscribeBloque(ft, n, m),
         NEW S \in SUBSET FileTags, ft \notin S
  PROVE  Conserva(arbol, arbol', S)
BY DEF EscribeBloque, Conserva, Arbol

\* CREATE and TAG make what did not exist; the others name what they change.
LEMMA DirectaConserva ==
  ASSUME TypeOK, guion \in Guiones, Directa
  PROVE  Conserva(arbol, arbol', SoloLeidos)
<1>1. PICK p \in guion :
       \/ p.op = "CREATE" /\ Storage!Crea(p.ft)
       \/ p.op = "TRUNCATE" /\ Redimensiona(p.ft, p.tam \div SizeBlock)
       \/ p.op = "TAG" /\ Storage!Etiqueta(p.ft, p.dst)
       \/ p.op = "DELETE" /\ Storage!Borra(p.ft)
       \/ UNCHANGED arbol
  BY DEF Directa
<1>2. p.ft \in FileTags /\ p.dst \in FileTags /\ p.op \in Usos(p.ft)
  BY GuionTipo, InstruccionTipo, UsoDe
<1>3. arbol \in Arbol /\ \A ft \in SoloLeidos : ft \in FileTags /\ Usos(ft) \subseteq {"READ", "TAG"}
  BY TipoDe DEF SoloLeidos
<1>4. CASE p.op \in {"TRUNCATE", "DELETE"}
  <2>1. p.ft \notin SoloLeidos
    BY <1>2, <1>3, <1>4
  <2> QED
    BY <1>1, <1>2, <1>3, <1>4, <2>1 DEF Conserva, Redimensiona, Storage!Borra, Arbol
<1>5. CASE p.op \notin {"TRUNCATE", "DELETE"}
  BY <1>1, <1>2, <1>3, <1>5 DEF Conserva, Storage!Crea, Storage!Etiqueta, Arbol
<1> QED
  BY <1>4, <1>5

\* A COMMIT leaves what is only read as it was: it commits what it flushed.
LEMMA CommitConserva ==
  ASSUME TypeOK, Papel, EnviaCommit
  PROVE  Conserva(arbol, arbol', SoloLeidos)
<1>1. instr.p \in guion /\ instr.p.op = "COMMIT"
  BY DEF EnviaCommit, En, Papel
<1>2. instr.p.ft \notin SoloLeidos
  BY <1>1, UsoDe DEF SoloLeidos
<1>3. arbol \in Arbol
  BY TipoDe
<1> QED
  BY <1>2, <1>3 DEF EnviaCommit, Storage!Commitea, Conserva, Arbol, SoloLeidos

\* What leaves a frame clean is not written.
LEMMA DevuelveConserva ==
  ASSUME TypeOK, NEW e \in Entradas, Tiene(tablas, e), DevuelveBloque(e),
         NEW S \in SUBSET FileTags, LimpiasDe(tablas, S)
  PROVE  Conserva(arbol, arbol', S)
<1>1. LaPagina(e.ft, e.n) = Pag(tablas, e) /\ e.ft \in FileTags /\ arbol \in Arbol
  BY TipoDe, PagTipo DEF LaPagina, Pag
<1>2. CASE Pag(tablas, e).modificada
  <2>1. e.ft \notin S
    BY <1>2 DEF LimpiasDe
  <2> QED
    BY <1>1, <1>2, <2>1, EscribeConserva DEF DevuelveBloque
<1>3. CASE ~Pag(tablas, e).modificada
  BY <1>1, <1>3 DEF DevuelveBloque, Conserva
<1> QED
  BY <1>2, <1>3

\* The flags change, and what is not in S.
LEMMA IgualesQueda ==
  ASSUME NEW t, NEW u, NEW fuera, NEW S, NEW antes, NEW despues, NEW mem,
         Retocadas(t, u), Conserva(antes, despues, S), IgualesDe(antes, t, mem, fuera, S)
  PROVE  IgualesDe(despues, u, mem, fuera, S)
<1>1. EnMarco(u, fuera) = EnMarco(t, fuera)
  BY DEF EnMarco, Retocadas
<1> SUFFICES ASSUME NEW e \in EnMarco(t, fuera), e.ft \in S
             PROVE  Hay(despues, e.ft, e.n) /\ mem[Pag(u, e).marco] = despues[e.ft].datos[e.n + 1]
  BY <1>1 DEF IgualesDe
<1>2. Hay(antes, e.ft, e.n) /\ mem[Pag(t, e).marco] = antes[e.ft].datos[e.n + 1]
  BY DEF IgualesDe
<1>3. despues[e.ft] = antes[e.ft]
  BY <1>2 DEF Conserva, Hay
<1>4. Pag(u, e).marco = Pag(t, e).marco
  BY DEF Retocadas, EnMarco
<1> QED
  BY <1>2, <1>3, <1>4 DEF Hay

\* The access writes the frame of its page, which is not in S.
LEMMA AccesoFiel ==
  ASSUME TypeOK, NEW t \in Tablas, NEW mem \in [Marcos -> Contenidos], EfectoAcceso(t, mem),
         NEW usados, MarcosBien(t, usados, {}), Tiene(t, Nueva), Pag(t, Nueva).precencia,
         NEW S, EsEscritura => Nueva.ft \notin S,
         LimpiasDe(t, S), NEW archivos, IgualesDe(archivos, t, mem, {}, S)
  PROVE  LimpiasDe(tablas', S) /\ IgualesDe(archivos, tablas', marcos', {}, S)
<1>1. /\ Retocadas(t, tablas')
      /\ \A f \in Entradas : Tiene(t, f) /\ f # Nueva => Pag(tablas', f) = Pag(t, f)
      /\ instr.quedan > 0 =>
           /\ Pag(tablas', Nueva).modificada = EsEscritura
           /\ marcos' = IF EsEscritura
                        THEN [mem EXCEPT ![Pag(t, Nueva).marco] = Escrito(@, instr.desp, instr.datos)]
                        ELSE mem
      /\ ~(instr.quedan > 0) => tablas' = t /\ marcos' = mem
  BY DEF EfectoAcceso
<1>2. Nueva \in Entradas
  BY TurnoTipo
<1>3. LimpiasDe(tablas', S)
  <2> SUFFICES ASSUME NEW f \in Entradas, f.ft \in S, Tiene(tablas', f)
               PROVE  ~Pag(tablas', f).modificada
    BY DEF LimpiasDe
  <2>1. Tiene(t, f) /\ ~Pag(t, f).modificada
    BY <1>1 DEF LimpiasDe, Retocadas
  <2> QED
    BY <1>1, <2>1
<1>4. IgualesDe(archivos, tablas', mem, {}, S)
  <2>1. Conserva(archivos, archivos, S)
    BY DEF Conserva
  <2> QED
    BY <1>1, <2>1, IgualesQueda
<1>5. IgualesDe(archivos, tablas', marcos', {}, S)
  <2>1. CASE marcos' = mem
    BY <1>4, <2>1
  <2>2. CASE marcos' # mem
    <3> SUFFICES ASSUME NEW f \in EnMarco(tablas', {}), f.ft \in S
                 PROVE  marcos'[Pag(tablas', f).marco] = mem[Pag(tablas', f).marco]
      BY <1>4 DEF IgualesDe
    <3>1. /\ EsEscritura /\ f # Nueva
          /\ marcos' = [mem EXCEPT ![Pag(t, Nueva).marco] = Escrito(@, instr.desp, instr.datos)]
      BY <1>1, <2>2
    <3>2. f \in EnMarco(t, {}) /\ Nueva \in EnMarco(t, {}) /\ Pag(tablas', f).marco = Pag(t, f).marco
      BY <1>1, <1>2 DEF EnMarco, Retocadas
    <3>3. Pag(t, f).marco # Pag(t, Nueva).marco
      BY <3>1, <3>2 DEF MarcosBien
    <3> QED
      BY <3>1, <3>2, <3>3
  <2> QED
    BY <2>1, <2>2
<1> QED
  BY <1>3, <1>5

\* Carga is the page in its frame, and then the access to it.
LEMMA CargaEfecto ==
  ASSUME TypeOK, NEW t \in Tablas, NEW m \in Marcos, Carga(t, global, m)
  PROVE  \E u \in Tablas, mem \in [Marcos -> Contenidos] :
           /\ EfectoMarco(t, Nueva, m, u) /\ EfectoAcceso(u, mem)
           /\ ~Tiene(t, Nueva) => Pag(u, Nueva).modificada = EsEscritura
           /\ Tiene(u, Nueva)
           /\ mem = IF EsEscritura THEN marcos ELSE [marcos EXCEPT ![m] = instr.leido]
<1> DEFINE u0 == ConMarco(t, Nueva, m, EsEscritura)
           mem0 == IF EsEscritura THEN marcos ELSE [marcos EXCEPT ![m] = instr.leido]
<1>1. /\ Nueva \in Entradas /\ Nueva.ft = instr.p.ft /\ Nueva.n = instr.pag
      /\ EsEscritura \in BOOLEAN /\ instr.leido \in Contenidos
  BY TurnoTipo
<1>2. marcos \in [Marcos -> Contenidos]
  BY TipoDe
<1>3. Accede(u0, mem0)
  BY <1>1 DEF Carga, ConMarco, Nueva
<1>4. PICK e \in Entradas : e = Nueva
  BY <1>1
<1>5. PICK u : u = u0
  OBVIOUS
<1>6. EfectoMarco(t, e, m, u) /\ (~Tiene(t, e) => Pag(u, e).modificada = EsEscritura)
  BY <1>1, <1>4, <1>5, ConMarcoEfecto
<1>7. PICK mem \in [Marcos -> Contenidos] : mem = mem0
  BY <1>1, <1>2
<1>8. u \in Tablas /\ Tiene(u, Nueva)
  BY <1>4, <1>6 DEF EfectoMarco
<1>9. EfectoAcceso(u, mem)
  BY <1>3, <1>5, <1>7, <1>8, AccedeEfecto
<1>10. EfectoMarco(t, Nueva, m, u) /\ (~Tiene(t, Nueva) => Pag(u, Nueva).modificada = EsEscritura)
  BY <1>4, <1>6
<1>11. mem = IF EsEscritura THEN marcos ELSE [marcos EXCEPT ![m] = instr.leido]
  BY <1>7
<1> HIDE DEF mem0, u0
<1> QED
  BY <1>8, <1>9, <1>10, <1>11

\* A page of S is loaded with its block, and no other frame changes.
LEMMA CargaFiel ==
  ASSUME TypeOK, NEW t \in Tablas, NEW m \in Marcos, Carga(t, global, m),
         NEW usados, MarcosBien(t, usados, {Nueva}), m \notin usados,
         Tiene(t, Nueva) => Pag(t, Nueva).precencia,
         NEW S, EsEscritura => Nueva.ft \notin S,
         LimpiasDe(t, S), NEW archivos, IgualesDe(archivos, t, marcos, {Nueva}, S),
         Nueva.ft \in S => /\ Hay(archivos, Nueva.ft, Nueva.n)
                           /\ instr.leido = archivos[Nueva.ft].datos[Nueva.n + 1]
  PROVE  LimpiasDe(tablas', S) /\ IgualesDe(archivos, tablas', marcos', {}, S)
<1>1. PICK u \in Tablas, mem \in [Marcos -> Contenidos] :
           /\ EfectoMarco(t, Nueva, m, u) /\ EfectoAcceso(u, mem)
           /\ ~Tiene(t, Nueva) => Pag(u, Nueva).modificada = EsEscritura
           /\ Tiene(u, Nueva)
           /\ mem = IF EsEscritura THEN marcos ELSE [marcos EXCEPT ![m] = instr.leido]
  BY CargaEfecto
<1>2. Nueva \in Entradas /\ marcos \in [Marcos -> Contenidos]
  BY TurnoTipo, TipoDe
<1>3. EnMarco(u, {}) = EnMarco(t, {Nueva}) \cup {Nueva} /\ MarcosBien(u, usados \cup {m}, {})
  <2>1. PICK e \in Entradas : e = Nueva
    BY <1>2
  <2>2. MarcosBien(t, usados, {e}) /\ (Tiene(t, e) => Pag(t, e).precencia) /\ EfectoMarco(t, e, m, u)
    BY <1>1, <2>1
  <2>3. EnMarco(u, {}) = EnMarco(t, {e}) \cup {e} /\ MarcosBien(u, usados \cup {m}, {})
    BY <2>2, CargaMarcos
  <2> QED
    BY <2>1, <2>3
<1>4. /\ Pag(u, Nueva).marco = m /\ Pag(u, Nueva).precencia
      /\ \A f \in Entradas : Tiene(t, f) /\ f # Nueva => Pag(u, f) = Pag(t, f)
      /\ Tiene(t, Nueva) => Pag(u, Nueva).modificada = Pag(t, Nueva).modificada
      /\ \A f \in Entradas : Tiene(u, f) /\ ~Tiene(t, f) /\ f # Nueva => ~Pag(u, f).modificada
  BY <1>1 DEF EfectoMarco, CrearPagina
<1>5. LimpiasDe(u, S)
  <2> SUFFICES ASSUME NEW f \in Entradas, f.ft \in S, Tiene(u, f) PROVE ~Pag(u, f).modificada
    BY DEF LimpiasDe
  <2>1. CASE f = Nueva
    BY <1>1, <1>2, <1>4, <2>1 DEF LimpiasDe
  <2>2. CASE f # Nueva
    BY <1>4, <2>2 DEF LimpiasDe
  <2> QED
    BY <2>1, <2>2
<1>6. IgualesDe(archivos, u, mem, {}, S)
  <2> SUFFICES ASSUME NEW f \in EnMarco(u, {}), f.ft \in S
               PROVE  /\ Hay(archivos, f.ft, f.n)
                      /\ mem[Pag(u, f).marco] = archivos[f.ft].datos[f.n + 1]
    BY DEF IgualesDe
  <2>1. CASE f = Nueva
    BY <1>1, <1>2, <1>4, <2>1
  <2>2. CASE f # Nueva
    <3>1. f \in EnMarco(t, {Nueva}) /\ Pag(u, f) = Pag(t, f)
      BY <1>3, <1>4, <2>2 DEF EnMarco
    <3>2. Pag(t, f).marco # m
      BY <3>1 DEF MarcosBien
    <3>3. mem[Pag(t, f).marco] = marcos[Pag(t, f).marco]
      BY <1>1, <1>2, <3>2
    <3> QED
      BY <3>1, <3>3 DEF IgualesDe
  <2> QED
    BY <2>1, <2>2
<1> QED
  BY <1>1, <1>3, <1>4, <1>5, <1>6, AccesoFiel

\* A WRITE is not one of the uses of what is only read.
LEMMA EscribeAjeno ==
  ASSUME Papel, instr.pc \in {"pagina"} \cup Cargando, EsEscritura
  PROVE  instr.p.ft \notin SoloLeidos
<1>1. instr.p \in guion /\ instr.p.op = "WRITE"
  BY DEF Papel, EsEscritura
<1> QED
  BY <1>1, UsoDe DEF SoloLeidos

\* Between two loads.
LEMMA FielesDe ==
  ASSUME Fieles, instr.pc \notin Cargando
  PROVE  LimpiasDe(tablas, SoloLeidos) /\ IgualesDe(arbol, tablas, marcos, {}, SoloLeidos)
BY DEF Fieles, AlAire

\* What it takes to keep Fieles with no page in the air...
LEMMA FielesEs ==
  ASSUME guion' = guion, instr'.pc \notin Cargando,
         LimpiasDe(tablas', SoloLeidos), IgualesDe(arbol', tablas', marcos', {}, SoloLeidos)
  PROVE  Fieles'
<1>1. AlAire' = {} /\ SoloLeidos' = SoloLeidos
  BY LeidosFijos DEF AlAire
<1>2. LimpiasDe(tablas, SoloLeidos)'
  BY <1>1 DEF LimpiasDe, Tiene, Pag
<1>3. IgualesDe(arbol, tablas, marcos, AlAire, SoloLeidos)'
  BY <1>1 DEF IgualesDe, EnMarco, Tiene, Pag, Hay
<1> QED
  BY <1>2, <1>3 DEF Fieles, Cargando

\* During a load.
LEMMA FielesCargandoDe ==
  ASSUME TypeOK, Fieles, instr.pc \in Cargando
  PROVE  /\ LimpiasDe(tablas, SoloLeidos) /\ IgualesDe(arbol, tablas, marcos, {Nueva}, SoloLeidos)
         /\ Nueva.ft \in SoloLeidos => /\ Hay(arbol, Nueva.ft, Nueva.n)
                                       /\ instr.leido = arbol[Nueva.ft].datos[Nueva.n + 1]
BY TurnoTipo DEF Fieles, AlAire

\* ... and with one: what READ_BLOCK answered is still what the Storage holds.
LEMMA FielesCargandoEs ==
  ASSUME TypeOK, guion' = guion, instr'.pc \in Cargando, Nueva' = Nueva, instr'.p = instr.p,
         instr'.pag = instr.pag, LimpiasDe(tablas', SoloLeidos),
         IgualesDe(arbol', tablas', marcos', {Nueva}, SoloLeidos),
         Nueva.ft \in SoloLeidos => /\ Hay(arbol', Nueva.ft, Nueva.n)
                                    /\ instr'.leido = arbol'[Nueva.ft].datos[Nueva.n + 1]
  PROVE  Fieles'
<1>1. AlAire' = {Nueva} /\ SoloLeidos' = SoloLeidos /\ instr'.p.ft = Nueva.ft /\ instr'.pag = Nueva.n
  BY LeidosFijos, TurnoTipo DEF AlAire
<1>2. LimpiasDe(tablas, SoloLeidos)'
  BY <1>1 DEF LimpiasDe, Tiene, Pag
<1>3. IgualesDe(arbol, tablas, marcos, AlAire, SoloLeidos)'
  BY <1>1 DEF IgualesDe, EnMarco, Tiene, Pag, Hay
<1>4. instr'.p.ft \in SoloLeidos =>
        /\ Hay(arbol, instr.p.ft, instr.pag)'
        /\ instr'.leido = arbol'[instr'.p.ft].datos[instr'.pag + 1]
  BY <1>1 DEF Hay
<1> QED
  BY <1>1, <1>2, <1>3, <1>4 DEF Fieles

\* A step that leaves the memory alone, out of a load.
LEMMA FielesQuieta ==
  ASSUME Fieles, guion' = guion, UNCHANGED memoria, Conserva(arbol, arbol', SoloLeidos),
         instr.pc \notin Cargando, instr'.pc \notin Cargando
  PROVE  Fieles'
<1>1. LimpiasDe(tablas, SoloLeidos) /\ IgualesDe(arbol, tablas, marcos, {}, SoloLeidos)
  BY FielesDe
<1>2. Retocadas(tablas, tablas)
  BY DEF Retocadas
<1>3. IgualesDe(arbol', tablas, marcos, {}, SoloLeidos)
  BY <1>1, <1>2, IgualesQueda
<1>4. LimpiasDe(tablas', SoloLeidos) /\ IgualesDe(arbol', tablas', marcos', {}, SoloLeidos)
  BY <1>1, <1>3 DEF memoria
<1> QED
  BY <1>4, FielesEs

\* The flags change, during a load.
LEMMA FielesRetocadas ==
  ASSUME TypeOK, Fieles, guion' = guion, arbol' = arbol, marcos' = marcos,
         instr.pc \in Cargando, instr'.pc \in Cargando, instr'.p = instr.p, instr'.pag = instr.pag,
         instr'.leido = instr.leido, Nueva' = Nueva, Retocadas(tablas, tablas'),
         \A f \in Entradas : Tiene(tablas, f) => Pag(tablas', f).modificada = Pag(tablas, f).modificada
  PROVE  Fieles'
<1>1. /\ LimpiasDe(tablas, SoloLeidos) /\ IgualesDe(arbol, tablas, marcos, {Nueva}, SoloLeidos)
      /\ Nueva.ft \in SoloLeidos => /\ Hay(arbol, Nueva.ft, Nueva.n)
                                    /\ instr.leido = arbol[Nueva.ft].datos[Nueva.n + 1]
  BY FielesCargandoDe
<1>2. LimpiasDe(tablas', SoloLeidos)
  BY <1>1 DEF LimpiasDe, Retocadas
<1>3. Conserva(arbol, arbol, SoloLeidos)
  BY DEF Conserva
<1>4. IgualesDe(arbol, tablas', marcos, {Nueva}, SoloLeidos)
  BY <1>1, <1>3, IgualesQueda
<1> QED
  BY <1>1, <1>2, <1>4, FielesCargandoEs

\* A page is flushed.
LEMMA PersisteFiel ==
  ASSUME MemoriaBien, Fieles, PersistePagina
  PROVE  Fieles'
<1>1. PICK e \in Entradas, q \in Pagina :
           /\ Tiene(tablas, e) /\ Pag(tablas, e).modificada
           /\ q = [Pag(tablas, e) EXCEPT !.modificada = FALSE]
           /\ tablas' = Pone(tablas, e, q)
           /\ EscribeBloque(e.ft, e.n, Pag(tablas, e).marco)
           /\ IF AceptaBloque(e.ft, e.n) THEN UNCHANGED instr ELSE Error
  BY PersisteEfecto
<1>2. guion' = guion /\ marcos' = marcos /\ instr.pc = "persistir"
  BY DEF PersistePagina, En
<1>3. LimpiasDe(tablas, SoloLeidos) /\ IgualesDe(arbol, tablas, marcos, {}, SoloLeidos)
  BY <1>2, FielesDe DEF Cargando
<1>4. e.ft \notin SoloLeidos /\ e.ft \in FileTags /\ Pag(tablas, e) \in Pagina
  BY <1>1, <1>3, TipoDe, PagTipo DEF LimpiasDe, MemoriaBien
<1>5. SoloLeidos \in SUBSET FileTags /\ arbol \in Arbol
  BY TipoDe DEF SoloLeidos, MemoriaBien
<1>6. Conserva(arbol, arbol', SoloLeidos)
  BY <1>1, <1>4, <1>5, EscribeConserva
<1>7. PICK t \in Tablas : t = tablas
  BY TipoDe DEF MemoriaBien
<1>8. /\ Pone(t, e, q) \in Tablas
      /\ \A f \in Entradas : Tiene(Pone(t, e, q), f) <=> Tiene(t, f)
      /\ \A f \in Entradas : Tiene(t, f) => Pag(Pone(t, e, q), f) = IF f = e THEN q ELSE Pag(t, f)
  <2>1. Tiene(t, e)
    BY <1>1, <1>7
  <2> QED
    BY <2>1, PoneEfecto
<1>9. /\ \A f \in Entradas : Tiene(tablas', f) <=> Tiene(tablas, f)
      /\ \A f \in Entradas : Tiene(tablas, f) => Pag(tablas', f) = IF f = e THEN q ELSE Pag(tablas, f)
  BY <1>1, <1>7, <1>8
<1>10. q.marco = Pag(tablas, e).marco /\ q.precencia = Pag(tablas, e).precencia
  BY <1>1, <1>4 DEF Pagina
<1>11. Retocadas(tablas, tablas')
  BY <1>9, <1>10 DEF Retocadas
<1>12. LimpiasDe(tablas', SoloLeidos)
  BY <1>3, <1>4, <1>9 DEF LimpiasDe
<1>13. IgualesDe(arbol', tablas', marcos', {}, SoloLeidos)
  BY <1>2, <1>3, <1>6, <1>11, IgualesQueda
<1>14. instr'.pc \notin Cargando
  BY <1>1, <1>2, ErrorTipo DEF Cargando
<1> QED
  BY <1>2, <1>12, <1>13, <1>14, FielesEs

\* A page in its frame is accessed.
LEMMA AccedePresenteFiel ==
  ASSUME MemoriaBien, Papel, Fieles, AccedePresente
  PROVE  Fieles'
<1>1. /\ Tiene(tablas, Nueva) /\ Pag(tablas, Nueva).precencia /\ AccedeA(tablas, marcos)
      /\ TypeOK /\ tablas \in Tablas /\ marcos \in [Marcos -> Contenidos]
  BY PresenteDe, TipoDe DEF AccedePresente, MemoriaBien
<1>2. EfectoAcceso(tablas, marcos)
  BY <1>1, AccesoEfecto
<1>3. guion' = guion /\ arbol' = arbol /\ instr.pc = "pagina"
  BY DEF AccedePresente, En
<1>4. MarcosBien(tablas, bitmap, {})
  BY <1>3, QuietoDe DEF MemoriaBien, Cargando
<1>5. LimpiasDe(tablas, SoloLeidos) /\ IgualesDe(arbol, tablas, marcos, {}, SoloLeidos)
  BY <1>3, FielesDe DEF Cargando
<1>6. EsEscritura => Nueva.ft \notin SoloLeidos
  BY <1>1, <1>3, EscribeAjeno, TurnoTipo
<1>7. LimpiasDe(tablas', SoloLeidos) /\ IgualesDe(arbol, tablas', marcos', {}, SoloLeidos)
  BY <1>1, <1>2, <1>4, <1>5, <1>6, AccesoFiel
<1>8. instr'.pc \notin Cargando
  BY <1>2 DEF EfectoAcceso, Cargando
<1> QED
  BY <1>3, <1>7, <1>8, FielesEs

\* The block that was read is the one the page will show.
LEMMA LeeBloqueFiel ==
  ASSUME MemoriaBien, Papel, Fieles, LeeBloque
  PROVE  Fieles'
<1>1. guion' = guion /\ arbol' = arbol /\ marcos' = marcos /\ instr.pc = "pagina"
      /\ UNCHANGED <<global, bitmap, puntero>> /\ TypeOK
  BY DEF LeeBloque, En, MemoriaBien
<1>2. LimpiasDe(tablas, SoloLeidos) /\ IgualesDe(arbol, tablas, marcos, {}, SoloLeidos)
  BY <1>1, FielesDe DEF Cargando
<1>3. CASE Error /\ tablas' = tablas
  <2>1. UNCHANGED memoria /\ instr'.pc \notin Cargando
    BY <1>1, <1>3, ErrorTipo DEF memoria, Cargando
  <2>2. Conserva(arbol, arbol', SoloLeidos)
    BY <1>1 DEF Conserva
  <2> QED
    BY <1>1, <2>1, <2>2, FielesQuieta DEF Cargando
<1>4. CASE ~(Error /\ tablas' = tablas)
  <2>1. /\ ~EsPresente /\ HayBloque(instr.p.ft, instr.pag)
        /\ instr'.pc = "asignar" /\ Nueva' = Nueva /\ instr'.p = instr.p /\ instr'.pag = instr.pag
        /\ instr'.leido = arbol[instr.p.ft].datos[instr.pag + 1]
        /\ \A f \in Entradas : Tiene(tablas', f) <=> Tiene(tablas, f)
        /\ \A f \in Entradas : Tiene(tablas, f) /\ f # Nueva => Pag(tablas', f) = Pag(tablas, f)
        /\ Tiene(tablas, Nueva) => /\ Pag(tablas', Nueva).precencia
                                   /\ Pag(tablas', Nueva).modificada = EsEscritura
    BY <1>4, LeeEfecto
  <2>2. Nueva \in Entradas /\ Nueva.ft = instr.p.ft /\ Nueva.n = instr.pag
    BY <1>1, TurnoTipo
  <2>3. EsEscritura => Nueva.ft \notin SoloLeidos
    BY <1>1, <2>2, EscribeAjeno
  <2>4. ~(Tiene(tablas, Nueva) /\ Pag(tablas, Nueva).precencia)
    BY <1>1, <2>1, PresenteDe
  <2>5. EnMarco(tablas', {Nueva}) = EnMarco(tablas, {})
    BY <2>1, <2>4 DEF EnMarco
  <2>6. LimpiasDe(tablas', SoloLeidos)
    <3> SUFFICES ASSUME NEW f \in Entradas, f.ft \in SoloLeidos, Tiene(tablas', f)
                 PROVE  ~Pag(tablas', f).modificada
      BY DEF LimpiasDe
    <3>1. CASE f = Nueva
      BY <2>1, <2>2, <2>3, <3>1
    <3>2. CASE f # Nueva
      BY <1>2, <2>1, <3>2 DEF LimpiasDe
    <3> QED
      BY <3>1, <3>2
  <2>7. IgualesDe(arbol, tablas', marcos, {Nueva}, SoloLeidos)
    <3>1. \A f \in EnMarco(tablas, {}) : Pag(tablas', f) = Pag(tablas, f)
      BY <2>1, <2>4 DEF EnMarco
    <3> QED
      BY <1>2, <2>5, <3>1 DEF IgualesDe
  <2>8. Hay(arbol, Nueva.ft, Nueva.n) /\ instr'.leido = arbol[Nueva.ft].datos[Nueva.n + 1]
    BY <2>1, <2>2 DEF Hay, HayBloque
  <2> QED
    BY <1>1, <2>1, <2>6, <2>7, <2>8, FielesCargandoEs DEF Cargando
<1> QED
  BY <1>3, <1>4

\* A free frame gets the page.
LEMMA AsignaLibreFiel ==
  ASSUME MemoriaBien, Papel, Fieles, AsignaLibre
  PROVE  Fieles'
<1>1. PICK m \in Marcos \ bitmap : Carga(tablas, global, m)
  BY DEF AsignaLibre
<1>2. guion' = guion /\ arbol' = arbol /\ instr.pc = "asignar" /\ TypeOK /\ tablas \in Tablas
  BY TipoDe DEF AsignaLibre, En, MemoriaBien
<1>3. MarcosBien(tablas, bitmap, {Nueva}) /\ (Tiene(tablas, Nueva) => Pag(tablas, Nueva).precencia)
  BY <1>2, CargandoDe DEF MemoriaBien
<1>4. /\ LimpiasDe(tablas, SoloLeidos) /\ IgualesDe(arbol, tablas, marcos, {Nueva}, SoloLeidos)
      /\ Nueva.ft \in SoloLeidos => /\ Hay(arbol, Nueva.ft, Nueva.n)
                                    /\ instr.leido = arbol[Nueva.ft].datos[Nueva.n + 1]
  BY <1>2, FielesCargandoDe DEF Cargando
<1>5. EsEscritura => Nueva.ft \notin SoloLeidos
  BY <1>2, EscribeAjeno, TurnoTipo DEF Cargando
<1>6. LimpiasDe(tablas', SoloLeidos) /\ IgualesDe(arbol, tablas', marcos', {}, SoloLeidos)
  BY <1>1, <1>2, <1>3, <1>4, <1>5, CargaFiel
<1>7. instr'.pc \notin Cargando
  <2>1. PICK u, mem : EfectoAcceso(u, mem)
    BY <1>1, <1>2, CargaEfecto
  <2> QED
    BY <2>1 DEF EfectoAcceso, Cargando
<1> QED
  BY <1>2, <1>6, <1>7, FielesEs

\* The page of the victim goes to the Storage only if it was written.
LEMMA LiberaYCargaFiel ==
  ASSUME MemoriaBien, Papel, Fieles, LiberaYCarga
  PROVE  Fieles'
<1>1. PICK e \in Entradas : e = instr.victima
  BY TurnoTipo DEF MemoriaBien
<1>2. /\ guion' = guion /\ instr.pc = "liberar" /\ TypeOK
      /\ DevuelveBloque(e) /\ Carga(TrasLiberar(e), global, Pag(tablas, e).marco)
  BY <1>1 DEF LiberaYCarga, En, LaPagina, Pag, MemoriaBien
<1>3. /\ MarcosBien(tablas, bitmap, {Nueva}) /\ e \in EnMarco(tablas, {Nueva})
      /\ GlobalBien(tablas, global, {Nueva} \cup {e}, Pag(tablas, e).marco)
      /\ Tiene(tablas, Nueva) => Pag(tablas, Nueva).precencia
  BY <1>1, <1>2, LiberarDe DEF MemoriaBien
<1>4. Tiene(tablas, e) /\ e # Nueva
  BY <1>3 DEF EnMarco
<1>5. PICK t \in Tablas : t = tablas
  BY <1>2, TipoDe
<1>6. PICK u : u = TrasLiberar(e)
  OBVIOUS
<1>7. EfectoLiberar(t, e, u)
  BY <1>1, <1>2, <1>4, <1>5, <1>6, TipoDe, LiberaEfecto
<1>8. PICK m \in Marcos : m = Pag(t, e).marco
  BY <1>4, <1>5, PagTipo DEF Pagina
<1>9. PICK fuera, usados : fuera = {Nueva} /\ usados = bitmap
  OBVIOUS
<1>10. /\ MarcosBien(t, usados, fuera) /\ e \in EnMarco(t, fuera)
       /\ GlobalBien(t, global, fuera \cup {e}, Pag(t, e).marco)
  BY <1>3, <1>5, <1>9
<1>11. /\ EnMarco(u, fuera) = EnMarco(t, fuera) \ {e}
       /\ MarcosBien(u, usados \ {Pag(t, e).marco}, fuera)
       /\ GlobalBien(u, global, fuera, Pag(t, e).marco)
  BY <1>5, <1>6, <1>10, LiberaMarcos
<1>12. MarcosBien(u, usados \ {m}, {Nueva}) /\ m \notin usados \ {m}
  BY <1>8, <1>9, <1>11
<1>13. Tiene(u, Nueva) => Pag(u, Nueva).precencia
  BY <1>2, <1>3, <1>4, <1>5, <1>7, TurnoTipo DEF EfectoLiberar
<1>14. /\ LimpiasDe(tablas, SoloLeidos) /\ IgualesDe(arbol, tablas, marcos, {Nueva}, SoloLeidos)
       /\ Nueva.ft \in SoloLeidos => /\ Hay(arbol, Nueva.ft, Nueva.n)
                                     /\ instr.leido = arbol[Nueva.ft].datos[Nueva.n + 1]
  BY <1>2, FielesCargandoDe DEF Cargando
<1>15. EsEscritura => Nueva.ft \notin SoloLeidos
  BY <1>2, EscribeAjeno, TurnoTipo DEF Cargando
<1>16. Conserva(arbol, arbol', SoloLeidos)
  <2>1. SoloLeidos \in SUBSET FileTags
    BY DEF SoloLeidos
  <2> QED
    BY <1>2, <1>4, <1>14, <2>1, DevuelveConserva
<1>17. Retocadas(tablas, tablas)
  BY DEF Retocadas
<1>18. IgualesDe(arbol', tablas, marcos, {Nueva}, SoloLeidos)
  BY <1>14, <1>16, <1>17, IgualesQueda
<1>19. IgualesDe(arbol', u, marcos, {Nueva}, SoloLeidos)
  <2> SUFFICES ASSUME NEW f \in EnMarco(u, {Nueva}), f.ft \in SoloLeidos
               PROVE  /\ Hay(arbol', f.ft, f.n)
                      /\ marcos[Pag(u, f).marco] = arbol'[f.ft].datos[f.n + 1]
    BY DEF IgualesDe
  <2>1. f \in EnMarco(tablas, {Nueva}) /\ f # e
    BY <1>5, <1>9, <1>11
  <2>2. Pag(u, f) = Pag(tablas, f)
    BY <1>5, <1>7, <2>1 DEF EfectoLiberar, EnMarco
  <2> QED
    BY <1>18, <2>1, <2>2 DEF IgualesDe
<1>20. LimpiasDe(u, SoloLeidos)
  <2> SUFFICES ASSUME NEW f \in Entradas, f.ft \in SoloLeidos, Tiene(u, f) PROVE ~Pag(u, f).modificada
    BY DEF LimpiasDe
  <2> QED
    BY <1>5, <1>7, <1>14 DEF EfectoLiberar, LimpiasDe
<1>21. Nueva.ft \in SoloLeidos => /\ Hay(arbol', Nueva.ft, Nueva.n)
                                  /\ instr.leido = arbol'[Nueva.ft].datos[Nueva.n + 1]
  BY <1>14, <1>16 DEF Conserva, Hay
<1>22. Carga(u, global, m) /\ u \in Tablas
  BY <1>2, <1>5, <1>6, <1>7, <1>8 DEF EfectoLiberar
<1>23. LimpiasDe(tablas', SoloLeidos) /\ IgualesDe(arbol', tablas', marcos', {}, SoloLeidos)
  BY <1>2, <1>12, <1>13, <1>15, <1>19, <1>20, <1>21, <1>22, CargaFiel
<1>24. instr'.pc \notin Cargando
  <2>1. PICK w, mem : EfectoAcceso(w, mem)
    BY <1>2, <1>22, CargaEfecto
  <2> QED
    BY <2>1 DEF EfectoAcceso, Cargando
<1> QED
  BY <1>2, <1>23, <1>24, FielesEs

\* One turn of CLOCK-M changes no more than the uso of a page.
LEMMA RelojEfecto ==
  ASSUME MemoriaBien, RelojMira
  PROVE  /\ guion' = guion /\ UNCHANGED <<arbol, bitmap, marcos>> /\ instr.pc = "reloj"
         /\ instr'.pc \in {"reloj", "liberar"} /\ instr'.p = instr.p /\ instr'.pag = instr.pag
         /\ instr'.desp = instr.desp /\ instr'.datos = instr.datos /\ instr'.quedan = instr.quedan
         /\ instr'.leido = instr.leido /\ Nueva' = Nueva /\ Retocadas(tablas, tablas')
         /\ \A f \in Entradas : Tiene(tablas, f) => Pag(tablas', f).modificada = Pag(tablas, f).modificada
<1>1. /\ guion' = guion /\ UNCHANGED <<arbol, bitmap, marcos>>
      /\ instr.pc = "reloj" /\ puntero < Len(global) /\ TypeOK
  BY DEF RelojMira, En, MemoriaBien
<1>2. /\ MarcosBien(tablas, bitmap, {Nueva}) /\ GlobalBien(tablas, global, {Nueva}, CantMarcos)
      /\ algoritmo = "CLOCK-M"
  BY <1>1, CargandoDe DEF MemoriaBien
<1>3. /\ tablas \in Tablas /\ global \in Seq(Entradas) /\ puntero + 1 \in 1 .. Len(global)
  BY <1>1, TipoDe, LenProperties, MemoriaAssumption DEF Marcos
<1>4. PICK e \in Entradas : e = global[puntero + 1]
  BY <1>3, ElementOfSeq
<1>5. e \in EnMarco(tablas, {Nueva})
  BY <1>2, <1>3, <1>4, SacaGlobal
<1>6. /\ instr'.pc \in {"reloj", "liberar"} /\ instr'.p = instr.p /\ instr'.pag = instr.pag
      /\ instr'.desp = instr.desp /\ instr'.datos = instr.datos /\ instr'.quedan = instr.quedan
      /\ instr'.leido = instr.leido
      /\ tablas' = tablas \/ tablas' = [tablas EXCEPT ![e.ft][e.n + 1].uso = FALSE]
  <2>1. /\ \/ instr' = [instr EXCEPT !.pc = "liberar", !.victima = e, !.vueltas = 1, !.i = 0]
           \/ \E i, vueltas : instr' = [instr EXCEPT !.i = i, !.vueltas = vueltas]
        /\ tablas' = tablas \/ tablas' = [tablas EXCEPT ![e.ft][e.n + 1].uso = FALSE]
    BY <1>4 DEF RelojMira
  <2> QED
    BY <1>1, <2>1, TurnoTipo DEF Turno
<1>7. PICK t \in Tablas : t = tablas
  BY <1>3
<1>8. Tiene(t, e) /\ Pag(t, e) \in Pagina
  BY <1>5, <1>7, PagTipo DEF EnMarco
<1>9. PICK q \in Pagina : q = [Pag(t, e) EXCEPT !.uso = FALSE]
  BY <1>8 DEF Pagina
<1>10. /\ Pone(t, e, q) \in Tablas
       /\ \A f \in Entradas : Tiene(Pone(t, e, q), f) <=> Tiene(t, f)
       /\ \A f \in Entradas : Tiene(t, f) => Pag(Pone(t, e, q), f) = IF f = e THEN q ELSE Pag(t, f)
  BY <1>8, PoneEfecto
<1>11. tablas' = t \/ tablas' = Pone(t, e, q)
  BY <1>6, <1>7, <1>9 DEF Pone, Pag
<1>12. q.marco = Pag(t, e).marco /\ q.precencia = Pag(t, e).precencia
       /\ q.modificada = Pag(t, e).modificada
  BY <1>8, <1>9 DEF Pagina
<1>13. /\ Retocadas(t, tablas')
       /\ \A f \in Entradas : Tiene(t, f) => Pag(tablas', f).modificada = Pag(t, f).modificada
  BY <1>10, <1>11, <1>12 DEF Retocadas
<1>14. /\ Retocadas(tablas, tablas')
       /\ \A f \in Entradas : Tiene(tablas, f) => Pag(tablas', f).modificada = Pag(tablas, f).modificada
  BY <1>7, <1>13
<1>15. Nueva' = Nueva
  BY <1>6 DEF Nueva
<1> QED
  BY <1>1, <1>6, <1>14, <1>15

\* The uso of a page is nothing to its content.
LEMMA RelojFiel ==
  ASSUME MemoriaBien, Fieles, RelojMira
  PROVE  Fieles'
<1>1. /\ guion' = guion /\ UNCHANGED <<arbol, bitmap, marcos>> /\ instr.pc = "reloj"
      /\ instr'.pc \in {"reloj", "liberar"} /\ instr'.p = instr.p /\ instr'.pag = instr.pag
      /\ instr'.leido = instr.leido /\ Nueva' = Nueva /\ Retocadas(tablas, tablas')
      /\ \A f \in Entradas : Tiene(tablas, f) => Pag(tablas', f).modificada = Pag(tablas, f).modificada
  BY RelojEfecto
<1> QED
  BY <1>1, FielesRetocadas DEF Cargando, MemoriaBien

\* Whatever a victim leaves in the Storage is not one of them.
LEMMA DevuelveDe ==
  ASSUME MemoriaBien, Fieles, LiberaYCarga \/ FallaTablaLiberada
  PROVE  Conserva(arbol, arbol', SoloLeidos)
<1>1. PICK e \in Entradas : e = instr.victima
  BY TurnoTipo DEF MemoriaBien
<1>2. instr.pc = "liberar" /\ DevuelveBloque(e) /\ TypeOK
  BY <1>1 DEF LiberaYCarga, FallaTablaLiberada, En, MemoriaBien
<1>3. Tiene(tablas, e)
  BY <1>1, <1>2, LiberarDe DEF MemoriaBien, EnMarco
<1>4. LimpiasDe(tablas, SoloLeidos) /\ SoloLeidos \in SUBSET FileTags
  BY DEF Fieles, SoloLeidos
<1> QED
  BY <1>2, <1>3, <1>4, DevuelveConserva

\* Nor is what a flush writes.
LEMMA PersisteConserva ==
  ASSUME MemoriaBien, Fieles, PersistePagina
  PROVE  Conserva(arbol, arbol', SoloLeidos)
<1>1. PICK e \in Entradas, q \in Pagina :
           /\ Tiene(tablas, e) /\ Pag(tablas, e).modificada
           /\ EscribeBloque(e.ft, e.n, Pag(tablas, e).marco)
  BY PersisteEfecto
<1>2. e.ft \notin SoloLeidos /\ e.ft \in FileTags
  BY <1>1 DEF Fieles, LimpiasDe, Entradas
<1>3. SoloLeidos \in SUBSET FileTags /\ arbol \in Arbol
  BY TipoDe DEF SoloLeidos, MemoriaBien
<1> QED
  BY <1>1, <1>2, <1>3, EscribeConserva

\* A step that goes to the interpreter and back touches no page.
LEMMA QuietaSale ==
  ASSUME TypeOK, Papel,
         ComienzaAcceso \/ ComienzaPersistir \/ Interrumpe \/ PaginaInicialSinValor
         \/ TerminaTabla \/ TerminaPersistir \/ ConfirmaDesalojo
  PROVE  UNCHANGED <<arbol, memoria>> /\ instr.pc \notin Cargando /\ instr'.pc \notin Cargando
<1>1. UNCHANGED <<arbol, memoria>> /\ instr.pc \notin Cargando
  BY DEF ComienzaAcceso, ComienzaPersistir, Interrumpe, PaginaInicialSinValor, TerminaTabla,
              TerminaPersistir, ConfirmaDesalojo, En, Cargando
<1>2. instr'.pc \notin Cargando
  <2>1. CASE ComienzaAcceso \/ ComienzaPersistir \/ Interrumpe \/ ConfirmaDesalojo
    <3>1. CASE ComienzaAcceso
      <4>1. instr'.pc \in {"sinPagina", "pagina"}
        BY <3>1 DEF ComienzaAcceso, Ociosa
      <4> QED
        BY <4>1 DEF Cargando
    <3>2. CASE ComienzaPersistir
      <4>1. instr'.pc = "persistir"
        BY <3>2 DEF ComienzaPersistir, Ociosa
      <4> QED
        BY <4>1 DEF Cargando
    <3>3. CASE Interrumpe
      <4>1. instr'.pc \in {"persistir", "libre"}
        <5>1. CASE instr' = Ociosa
          BY <5>1, OciosaTipo
        <5>2. ASSUME NEW orden,
                     instr' = [Ociosa EXCEPT !.pc = "persistir", !.tabs = orden, !.luego = "desalojo"]
              PROVE  instr'.pc = "persistir"
          BY <5>2 DEF Ociosa
        <5> QED
          BY <3>3, <5>1, <5>2 DEF Interrumpe
      <4> QED
        BY <4>1 DEF Cargando
    <3>4. CASE ConfirmaDesalojo
      BY <3>4, OciosaTipo DEF ConfirmaDesalojo, Cargando
    <3> QED
      BY <2>1, <3>1, <3>2, <3>3, <3>4
  <2>2. CASE PaginaInicialSinValor
    BY <1>1, <2>2, VaTipo DEF PaginaInicialSinValor, Bien, Etiquetas, Cargando
  <2>3. CASE TerminaTabla
    BY <1>1, <2>3, TurnoTipo DEF TerminaTabla, Turno
  <2>4. CASE TerminaPersistir
    <3>1. instr.luego \in {"commit", "interrupcion", "desalojo"}
      BY <2>4 DEF TerminaPersistir, En, Papel
    <3> QED
      BY <2>4, <3>1, VaTipo DEF TerminaPersistir, Etiquetas, Cargando
  <2> QED
    BY <2>1, <2>2, <2>3, <2>4
<1> QED
  BY <1>1, <1>2

\* What is only read stays as the Storage has it.
LEMMA FielesSigue ==
  ASSUME MemoriaBien, Papel, Fieles, [Next]_vars
  PROVE  Fieles' /\ Conserva(arbol, arbol', SoloLeidos)
<1>0. TypeOK /\ guion \in Guiones /\ guion' = guion
  BY DEF MemoriaBien, Papel, Next, Recibe, Sigue, vars, Directa, ComienzaAcceso, ComienzaPersistir,
         AccedePresente, LeeBloque, AsignaLibre, EligeLRU, EligeClockM, RelojMira, LiberaYCarga,
         FallaTablaLiberada, PaginaInicialSinValor, PersistePagina, TerminaTabla, TerminaPersistir,
         EnviaCommit, Interrumpe, ConfirmaDesalojo, En
<1>a. arbol' = arbol => Conserva(arbol, arbol', SoloLeidos)
  BY DEF Conserva
<1>b. Retocadas(tablas, tablas)
  BY DEF Retocadas
<1>1. CASE UNCHANGED vars
  <2>1. UNCHANGED <<arbol, memoria, instr>>
    BY <1>1 DEF vars
  <2>2. CASE instr.pc \notin Cargando
    BY <1>0, <1>a, <2>1, <2>2, FielesQuieta
  <2>3. CASE instr.pc \in Cargando
    <3>1. Nueva' = Nueva /\ tablas' = tablas /\ marcos' = marcos
      BY <2>1 DEF Nueva, memoria
    <3>2. Retocadas(tablas, tablas')
      BY <1>b, <3>1
    <3> QED
      BY <1>0, <1>a, <2>1, <2>3, <3>1, <3>2, FielesRetocadas
  <2> QED
    BY <2>2, <2>3
<1>2. CASE Directa
  <2>1. instr.pc \notin Cargando /\ instr'.pc \notin Cargando /\ UNCHANGED memoria
    BY <1>0, <1>2, ErrorTipo, VaTipo DEF Directa, En, Bien, Etiquetas, Cargando
  <2> QED
    BY <1>0, <1>2, <2>1, DirectaConserva, FielesQuieta
<1>3. CASE ComienzaAcceso \/ ComienzaPersistir \/ Interrumpe \/ PaginaInicialSinValor
           \/ TerminaTabla \/ TerminaPersistir \/ ConfirmaDesalojo
  <2>1. UNCHANGED <<arbol, memoria>> /\ instr.pc \notin Cargando /\ instr'.pc \notin Cargando
    BY <1>0, <1>3, QuietaSale
  <2> QED
    BY <1>0, <1>a, <2>1, FielesQuieta
<1>4. CASE EnviaCommit
  <2>1. instr.pc \notin Cargando /\ instr'.pc \notin Cargando /\ UNCHANGED memoria
    BY <1>0, <1>4, ErrorTipo, VaTipo DEF EnviaCommit, En, Bien, Etiquetas, Cargando
  <2> QED
    BY <1>0, <1>4, <2>1, CommitConserva, FielesQuieta
<1>5. CASE AccedePresente
  BY <1>5, <1>a, AccedePresenteFiel DEF AccedePresente
<1>6. CASE LeeBloque
  BY <1>6, <1>a, LeeBloqueFiel DEF LeeBloque
<1>7. CASE AsignaLibre
  BY <1>7, <1>a, AsignaLibreFiel DEF AsignaLibre
<1>8. CASE EligeLRU \/ EligeClockM
  <2>1. /\ tablas' = tablas /\ arbol' = arbol /\ marcos' = marcos /\ instr.pc \in Cargando
        /\ instr'.pc \in Cargando /\ instr'.p = instr.p /\ instr'.pag = instr.pag
        /\ instr'.leido = instr.leido
    BY <1>0, <1>8, TurnoTipo DEF EligeLRU, EligeClockM, Va, En, Turno, Cargando, memoria
  <2>2. Nueva' = Nueva
    BY <2>1 DEF Nueva
  <2>3. Retocadas(tablas, tablas')
    BY <1>b, <2>1
  <2> QED
    BY <1>0, <1>a, <2>1, <2>2, <2>3, FielesRetocadas
<1>9. CASE RelojMira
  BY <1>0, <1>9, <1>a, RelojFiel DEF RelojMira
<1>10. CASE LiberaYCarga
  BY <1>10, LiberaYCargaFiel, DevuelveDe
<1>11. CASE FallaTablaLiberada
  <2>1. /\ UNCHANGED memoria /\ instr' = instr /\ instr.pc = "liberar"
    BY <1>11 DEF FallaTablaLiberada
  <2>2. Conserva(arbol, arbol', SoloLeidos)
    BY <1>11, DevuelveDe
  <2>3. /\ LimpiasDe(tablas, SoloLeidos) /\ IgualesDe(arbol, tablas, marcos, {Nueva}, SoloLeidos)
        /\ Nueva.ft \in SoloLeidos => /\ Hay(arbol, Nueva.ft, Nueva.n)
                                      /\ instr.leido = arbol[Nueva.ft].datos[Nueva.n + 1]
    BY <1>0, <2>1, FielesCargandoDe DEF Cargando
  <2>4. IgualesDe(arbol', tablas, marcos, {Nueva}, SoloLeidos)
    BY <1>b, <2>2, <2>3, IgualesQueda
  <2>5. Nueva' = Nueva /\ tablas' = tablas /\ marcos' = marcos
    BY <2>1 DEF Nueva, memoria
  <2>6. Nueva.ft \in SoloLeidos => /\ Hay(arbol', Nueva.ft, Nueva.n)
                                   /\ instr'.leido = arbol'[Nueva.ft].datos[Nueva.n + 1]
    BY <2>1, <2>2, <2>3 DEF Conserva, Hay
  <2>7. LimpiasDe(tablas', SoloLeidos) /\ IgualesDe(arbol', tablas', marcos', {Nueva}, SoloLeidos)
    BY <2>3, <2>4, <2>5
  <2> QED
    BY <1>0, <2>1, <2>2, <2>5, <2>6, <2>7, FielesCargandoEs DEF Cargando
<1>12. CASE PersistePagina
  BY <1>12, PersisteFiel, PersisteConserva
<1> QED
  BY <1>1, <1>2, <1>3, <1>4, <1>5, <1>6, <1>7, <1>8, <1>9, <1>10, <1>11, <1>12
     DEF Next, Recibe, Sigue

-----------------------------------------------------------------------------
(* The other Workers.                                                      *)

\* A flush only cleans pages.
LEMMA PersisteLimpia ==
  ASSUME MemoriaBien, PersistePagina, NEW S, LimpiasDe(tablas, S)
  PROVE  LimpiasDe(tablas', S)
<1>1. PICK e \in Entradas, q \in Pagina :
           /\ Tiene(tablas, e) /\ Pag(tablas, e).modificada
           /\ q = [Pag(tablas, e) EXCEPT !.modificada = FALSE]
           /\ tablas' = Pone(tablas, e, q)
  BY PersisteEfecto
<1>2. Pag(tablas, e) \in Pagina
  BY <1>1, PagTipo, TipoDe DEF MemoriaBien
<1>3. ~q.modificada
  BY <1>1, <1>2 DEF Pagina
<1>4. PICK t \in Tablas : t = tablas
  BY TipoDe DEF MemoriaBien
<1>5. /\ Pone(t, e, q) \in Tablas
      /\ \A f \in Entradas : Tiene(Pone(t, e, q), f) <=> Tiene(t, f)
      /\ \A f \in Entradas : Tiene(t, f) => Pag(Pone(t, e, q), f) = IF f = e THEN q ELSE Pag(t, f)
  <2>1. Tiene(t, e)
    BY <1>1, <1>4
  <2> QED
    BY <2>1, PoneEfecto
<1> QED
  BY <1>1, <1>3, <1>4, <1>5 DEF LimpiasDe

\* A table with no page to write is clean, and is the first of those left.
LEMMA TablaLimpia ==
  ASSUME tablas \in Tablas, NEW s \in Seq(FileTags), s # <<>>, Modificadas(Head(s)) = {}
  PROVE  LimpiasDe(tablas, {Head(s)}) /\ ToSet(s) \subseteq ToSet(Tail(s)) \cup {Head(s)}
<1>1. /\ Len(s) \in Nat \ {0} /\ DOMAIN s = 1 .. Len(s) /\ DOMAIN Tail(s) = 1 .. Len(s) - 1
      /\ \A k \in 1 .. Len(s) - 1 : Tail(s)[k] = s[k + 1]
      /\ Head(s) = s[1]
  BY HeadTailProperties, LenProperties, EmptySeq
<1>2. ToSet(s) \subseteq ToSet(Tail(s)) \cup {Head(s)}
  <2> SUFFICES ASSUME NEW k \in 1 .. Len(s), k # 1 PROVE s[k] \in ToSet(Tail(s))
    BY <1>1 DEF ToSet
  <2>1. k - 1 \in 1 .. Len(s) - 1 /\ s[(k - 1) + 1] = s[k]
    BY <1>1
  <2>2. Tail(s)[k - 1] = s[k]
    BY <1>1, <2>1
  <2> QED
    BY <1>1, <2>1, <2>2 DEF ToSet
<1>3. LimpiasDe(tablas, {Head(s)})
  <2> SUFFICES ASSUME NEW e \in Entradas, e.ft = Head(s), Tiene(tablas, e)
               PROVE  ~Pag(tablas, e).modificada
    BY DEF LimpiasDe
  <2>1. Len(tablas[e.ft]) \in Nat /\ e.n \in Nat
    BY LenProperties DEF Tablas, Entradas
  <2>2. e.n \in 0 .. Len(tablas[e.ft]) - 1
    BY <2>1 DEF Tiene
  <2> QED
    BY <2>2 DEF Modificadas, LaPagina, Pag
<1> QED
  BY <1>2, <1>3

\* The tables that are done stay clean, up to the confirmation of the eviction.
LEMMA PersistidasSigue ==
  ASSUME MemoriaBien, Papel, Persistidas, [Next]_vars
  PROVE  Persistidas'
<1>0. TypeOK /\ tablas \in Tablas
  BY TipoDe DEF MemoriaBien
<1> DEFINE Nada == ~(instr'.pc = "persistir" /\ instr'.luego = "desalojo") /\ instr'.pc # "desalojo"
<1>1. Nada => Persistidas'
  BY DEF Persistidas
<1>2. CASE UNCHANGED vars
  BY <1>2 DEF vars, memoria, Persistidas, LimpiasDe, Tiene, Pag
<1>3. CASE Recibe
  <2>1. CASE Directa
    BY <1>0, <1>1, <2>1, ErrorTipo, VaTipo DEF Directa, Bien, Etiquetas
  <2>2. CASE ComienzaAcceso
    <3>1. instr'.pc \in {"sinPagina", "pagina"}
      BY <2>2 DEF ComienzaAcceso, Ociosa
    <3> QED
      BY <1>1, <3>1
  <2>3. CASE ComienzaPersistir
    <3>1. instr'.pc = "persistir" /\ instr'.luego \in {"commit", "interrupcion"}
      BY <2>3 DEF ComienzaPersistir, Ociosa
    <3> QED
      BY <1>1, <3>1
  <2> QED
    BY <1>3, <2>1, <2>2, <2>3 DEF Recibe
<1>4. CASE AccedePresente \/ AsignaLibre \/ LiberaYCarga
  <2>1. PICK t, mem : Accede(t, mem)
    BY <1>4 DEF AccedePresente, AsignaLibre, LiberaYCarga, Carga, Accede
  <2>2. instr'.pc \in {"interrupcion", "pagina", "sinPagina"}
    BY <1>0, <2>1, VaTipo DEF Accede, AccedeA, SinAcceso, Ociosa, Etiquetas
  <2> QED
    BY <1>1, <2>2
<1>5. CASE LeeBloque
  <2>1. instr'.pc \in {"asignar", "libre"}
    BY <1>0, <1>5, ErrorTipo, TurnoTipo DEF LeeBloque, Turno
  <2> QED
    BY <1>1, <2>1
<1>6. CASE EligeLRU \/ EligeClockM \/ RelojMira
  <2>1. instr'.pc \in {"reloj", "liberar"}
    BY <1>0, <1>6, TurnoTipo DEF EligeLRU, EligeClockM, RelojMira, Va, En, Turno
  <2> QED
    BY <1>1, <2>1
<1>7. CASE FallaTablaLiberada
  BY <1>1, <1>7 DEF FallaTablaLiberada
<1>8. CASE PaginaInicialSinValor
  <2>1. instr'.pc \in {"interrupcion", "sinPagina"}
    BY <1>0, <1>8, VaTipo DEF PaginaInicialSinValor, Bien, Etiquetas
  <2> QED
    BY <1>1, <2>1
<1>9. CASE PersistePagina
  <2>1. instr.pc = "persistir" /\ (instr' = instr \/ Error)
    BY <1>9 DEF PersistePagina, En
  <2>2. CASE Error
    BY <1>1, <2>2, ErrorTipo
  <2>3. CASE instr' = instr
    <3> DEFINE S == FileTags \ ToSet(instr.tabs)
    <3>1. LimpiasDe(tablas, S) => LimpiasDe(tablas', S)
      BY <1>9, PersisteLimpia
    <3>2. S' = S
      BY <2>3
    <3>3. LimpiasDe(tablas', S') <=> LimpiasDe(tablas, S)'
      BY DEF LimpiasDe, Tiene, Pag
    <3> QED
      BY <2>1, <2>3, <3>1, <3>2, <3>3 DEF Persistidas
  <2> QED
    BY <2>1, <2>2, <2>3
<1>10. CASE TerminaTabla
  <2>1. /\ instr.pc = "persistir" /\ instr.tabs # <<>> /\ Modificadas(Head(instr.tabs)) = {}
        /\ UNCHANGED memoria /\ instr'.pc = "persistir" /\ instr'.luego = instr.luego
        /\ instr'.tabs = Tail(instr.tabs) /\ instr.tabs \in Seq(FileTags)
    BY <1>0, <1>10, TurnoTipo DEF TerminaTabla, En, Turno
  <2>2. PICK s \in Seq(FileTags) : s = instr.tabs
    BY <2>1
  <2>3. LimpiasDe(tablas, {Head(s)}) /\ ToSet(s) \subseteq ToSet(Tail(s)) \cup {Head(s)}
    BY <1>0, <2>1, <2>2, TablaLimpia
  <2>4. instr.luego = "desalojo" => LimpiasDe(tablas, FileTags \ ToSet(Tail(s)))
    BY <2>1, <2>2, <2>3 DEF Persistidas, LimpiasDe
  <2>5. tablas' = tablas
    BY <2>1 DEF memoria
  <2>6. instr'.luego = "desalojo" => LimpiasDe(tablas', FileTags \ ToSet(instr'.tabs))
    BY <2>1, <2>2, <2>4, <2>5
  <2>7. instr'.luego = "desalojo" => LimpiasDe(tablas, FileTags \ ToSet(instr.tabs))'
    BY <2>6 DEF LimpiasDe, Tiene, Pag
  <2> QED
    BY <2>1, <2>7 DEF Persistidas
<1>11. CASE TerminaPersistir
  <2>1. /\ instr.pc = "persistir" /\ instr.tabs = <<>> /\ UNCHANGED memoria
        /\ instr.luego \in {"commit", "interrupcion", "desalojo"}
    BY <1>11 DEF TerminaPersistir, En, Papel
  <2>2. instr'.pc = instr.luego
    BY <1>0, <1>11, <2>1, VaTipo DEF TerminaPersistir, Etiquetas
  <2>3. CASE instr.luego = "desalojo"
    <3>1. FileTags \ ToSet(instr.tabs) = FileTags
      BY <2>1 DEF ToSet
    <3>2. LimpiasDe(tablas, FileTags)
      BY <2>1, <2>3, <3>1 DEF Persistidas
    <3>3. LimpiasDe(tablas, FileTags)'
      BY <2>1, <3>2 DEF memoria, LimpiasDe, Tiene, Pag
    <3> QED
      BY <2>2, <2>3, <3>3 DEF Persistidas
  <2>4. CASE instr.luego # "desalojo"
    BY <1>1, <2>1, <2>2, <2>4
  <2> QED
    BY <2>3, <2>4
<1>12. CASE EnviaCommit
  BY <1>0, <1>1, <1>12, ErrorTipo, VaTipo DEF EnviaCommit, Bien, Etiquetas
<1>13. CASE Interrumpe
  <2>1. CASE instr' = Ociosa
    BY <1>1, <2>1, OciosaTipo
  <2>2. ASSUME NEW orden \in Bijection(1 .. Cardinality(ConTabla), ConTabla),
               instr' = [Ociosa EXCEPT !.pc = "persistir", !.tabs = orden, !.luego = "desalojo"]
        PROVE  Persistidas'
    <3>1. instr'.pc = "persistir" /\ instr'.tabs = orden
      BY <2>2 DEF Ociosa
    <3>2. ToSet(orden) = ConTabla
      BY Zenon DEF ToSet, Bijection, Surjection, Injection
    <3>3. LimpiasDe(tablas, FileTags \ ConTabla)
      <4> SUFFICES ASSUME NEW e \in Entradas, e.ft \notin ConTabla PROVE ~Tiene(tablas, e)
        BY DEF LimpiasDe
      <4>1. e.ft \in FileTags /\ e.n \in Nat /\ tablas[e.ft] = <<>>
        BY DEF Entradas, ConTabla
      <4> QED
        BY <4>1, EmptySeq DEF Tiene
    <3>4. tablas' = tablas
      BY <1>13 DEF Interrumpe, memoria
    <3>5. LimpiasDe(tablas', FileTags \ ToSet(instr'.tabs))
      BY <3>1, <3>2, <3>3, <3>4
    <3>6. LimpiasDe(tablas, FileTags \ ToSet(instr.tabs))'
      BY <3>5 DEF LimpiasDe, Tiene, Pag
    <3> QED
      BY <3>1, <3>6 DEF Persistidas
  <2> QED
    BY <1>13, <2>1, <2>2 DEF Interrumpe
<1>14. CASE ConfirmaDesalojo
  BY <1>1, <1>14, OciosaTipo DEF ConfirmaDesalojo
<1> QED
  BY <1>2, <1>3, <1>4, <1>5, <1>6, <1>7, <1>8, <1>9, <1>10, <1>11, <1>12, <1>13, <1>14
     DEF Next, Sigue

\* otras, by the Worker.
LEMMA OtraDe ==
  ASSUME OtrasBien, NEW w \in Workers
  PROVE  OtraBien(otras[w]) /\ OtraFiel(otras[w])
BY DEF OtrasBien

\* What another Worker keeps is not disturbed by what this one does.
LEMMA OtraQueda ==
  ASSUME NEW o, OtraBien(o), OtraFiel(o), guion' = guion, algoritmo' = algoritmo,
         Conserva(arbol, arbol', SoloLeidos)
  PROVE  /\ LimpiasDe(o.tablas, FileTags)
         /\ IgualesDe(arbol', o.tablas, o.marcos, {}, SoloLeidos)
<1>1. Retocadas(o.tablas, o.tablas)
  BY DEF Retocadas
<1>2. LimpiasDe(o.tablas, FileTags) /\ IgualesDe(arbol, o.tablas, o.marcos, {}, SoloLeidos)
  BY DEF OtraFiel
<1> QED
  BY <1>1, <1>2, IgualesQueda

\* OtrasBien, from its parts.
LEMMA OtrasEs ==
  ASSUME guion' = guion, algoritmo' = algoritmo, otras' = [w \in Workers |-> otras'[w]],
         \A w \in Workers :
           /\ OtraBien(otras'[w]) /\ LimpiasDe(otras'[w].tablas, FileTags)
           /\ IgualesDe(arbol', otras'[w].tablas, otras'[w].marcos, {}, SoloLeidos)
  PROVE  OtrasBien'
<1>1. SoloLeidos' = SoloLeidos
  BY LeidosFijos
<1> SUFFICES ASSUME NEW w \in Workers
             PROVE  OtraBien(otras[w])' /\ OtraFiel(otras[w])'
  BY DEF OtrasBien
<1>2. OtraBien(otras[w])'
  BY DEF OtraBien, MarcosBien, GlobalBien, EnMarco, Tiene, Pag
<1>3. OtraFiel(otras[w])'
  BY <1>1 DEF OtraFiel, LimpiasDe, IgualesDe, EnMarco, Tiene, Pag, Hay
<1> QED
  BY <1>2, <1>3

\* The memory that is put away, and the one that is taken up again.
DesalojoBien ==
  /\ MemoriaBien /\ Papel /\ Fieles /\ Persistidas /\ OtrasBien
  /\ actual \in Workers

\* No Worker has run anything.
LEMMA VaciaBien == OtraBien(Vacia) /\ OtraFiel(Vacia)
<1>1. PICK t : t = [ft \in FileTags |-> <<>>]
  OBVIOUS
<1>2. t \in Tablas /\ EnMarco(t, {}) = {} /\ MarcosBien(t, {}, {}) /\ GlobalBien(t, <<>>, {}, CantMarcos)
  BY <1>1, VacioBien
<1>3. /\ Vacia.tablas = t /\ Vacia.global = <<>> /\ Vacia.bitmap = {} /\ Vacia.puntero = 0
      /\ Vacia.marcos = [m \in Marcos |-> Cero]
      /\ Vacia = [tablas |-> t, global |-> <<>>, bitmap |-> {}, marcos |-> [m \in Marcos |-> Cero],
                  puntero |-> 0]
  BY <1>1 DEF Vacia
<1>4. <<>> \in Seq(Entradas) /\ 0 \in Marcos /\ [m \in Marcos |-> Cero] \in [Marcos -> Contenidos]
  BY EmptySeq, CeroTipo, MemoriaAssumption DEF Marcos
<1>5. OtraBien(Vacia)
  <2>1. Vacia \in [tablas : [FileTags -> Seq(Pagina)], global : Seq(Entradas), bitmap : SUBSET Marcos,
                   marcos : [Marcos -> Contenidos], puntero : Marcos]
    BY <1>2, <1>3, <1>4 DEF Tablas
  <2> QED
    BY <1>2, <1>3, <2>1 DEF OtraBien
<1>6. \A e \in Entradas : ~Tiene(t, e)
  BY <1>1, EmptySeq DEF Tiene, Entradas
<1>7. OtraFiel(Vacia)
  BY <1>2, <1>3, <1>6 DEF OtraFiel, LimpiasDe, IgualesDe
<1> QED
  BY <1>5, <1>7

\* The first Worker gets the query.
LEMMA InicioDesalojo ==
  ASSUME InitDesalojo
  PROVE  DesalojoBien
<1>1. Init /\ actual \in Destinos[guion] /\ otras = [w \in Workers |-> Vacia]
  BY DEF InitDesalojo
<1>2. MemoriaBien /\ Papel
  BY <1>1, InicioBien
<1>3. actual \in Workers
  BY <1>1, <1>2, DesalojoAssumption DEF Papel
<1>4. OtrasBien
  BY <1>1, VaciaBien DEF OtrasBien
<1>5. instr.pc = "libre" /\ tablas = [ft \in FileTags |-> <<>>]
  BY <1>1, OciosaTipo DEF Init
<1>6. Persistidas
  BY <1>5 DEF Persistidas
<1>7. Fieles
  <2>1. \A e \in Entradas : ~Tiene(tablas, e)
    BY <1>5, EmptySeq DEF Tiene, Entradas
  <2> QED
    BY <1>5, <2>1 DEF Fieles, LimpiasDe, IgualesDe, EnMarco, Cargando
<1> QED
  BY <1>2, <1>3, <1>4, <1>6, <1>7 DEF DesalojoBien

\* The script and the algorithm are those of the start.
LEMMA Fijos ==
  ASSUME [Next]_vars
  PROVE  guion' = guion /\ algoritmo' = algoritmo
BY DEF Next, Recibe, Sigue, vars, Directa, ComienzaAcceso, ComienzaPersistir,
       AccedePresente, LeeBloque, AsignaLibre, EligeLRU, EligeClockM, RelojMira, LiberaYCarga,
       FallaTablaLiberada, PaginaInicialSinValor, PersistePagina, TerminaTabla, TerminaPersistir,
       EnviaCommit, Interrumpe, ConfirmaDesalojo, En

\* A step of the Worker that has the query.
LEMMA TrabajaDesalojo ==
  ASSUME DesalojoBien, [Next]_vars, UNCHANGED <<actual, otras>>
  PROVE  DesalojoBien'
<1>1. MemoriaBien /\ Papel /\ Fieles /\ Persistidas /\ OtrasBien /\ actual \in Workers
  BY DEF DesalojoBien
<1>2. MemoriaBien' /\ Papel' /\ Fieles' /\ Persistidas' /\ Conserva(arbol, arbol', SoloLeidos)
  BY <1>1, PasoBien, FielesSigue, PersistidasSigue
<1>3. guion' = guion /\ algoritmo' = algoritmo
  BY Fijos
<1>4. OtrasBien'
  <2>1. otras' = [w \in Workers |-> otras'[w]]
    BY <1>1 DEF OtrasBien
  <2>2. ASSUME NEW w \in Workers
        PROVE  /\ OtraBien(otras'[w]) /\ LimpiasDe(otras'[w].tablas, FileTags)
               /\ IgualesDe(arbol', otras'[w].tablas, otras'[w].marcos, {}, SoloLeidos)
    <3>1. PICK o : o = otras[w]
      OBVIOUS
    <3>2. OtraBien(o) /\ OtraFiel(o)
      BY <1>1, <3>1, OtraDe
    <3>3. LimpiasDe(o.tablas, FileTags) /\ IgualesDe(arbol', o.tablas, o.marcos, {}, SoloLeidos)
      BY <1>2, <1>3, <3>2, OtraQueda
    <3> QED
      BY <3>1, <3>2, <3>3
  <2> QED
    BY <1>3, <2>1, <2>2, OtrasEs
<1> QED
  BY <1>1, <1>2, <1>4 DEF DesalojoBien

\* The query goes to another Worker, which finds its memory as it left it; the
\* one that had it keeps its own, all written.
LEMMA PasaDesalojo ==
  ASSUME DesalojoBien, Pasa
  PROVE  DesalojoBien'
<1>1. MemoriaBien /\ Papel /\ Fieles /\ Persistidas /\ OtrasBien /\ actual \in Workers /\ TypeOK
  BY DEF DesalojoBien, MemoriaBien
<1>2. /\ vivo' = vivo /\ guion' = guion /\ algoritmo' = algoritmo /\ instr.pc = "desalojo"
      /\ instr' = Ociosa /\ arbol' = arbol
  BY DEF Pasa, En
<1>3. PICK w \in Destinos[guion] \ {actual} :
       /\ actual' = w
       /\ otras' = [otras EXCEPT ![w] = Vacia, ![actual] =
            [tablas |-> tablas, global |-> global, bitmap |-> bitmap,
             marcos |-> marcos, puntero |-> puntero]]
       /\ tablas' = otras[w].tablas /\ global' = otras[w].global
       /\ bitmap' = otras[w].bitmap /\ marcos' = otras[w].marcos
       /\ puntero' = otras[w].puntero
  BY DEF Pasa
<1>4. w \in Workers /\ w # actual
  BY <1>1, DesalojoAssumption DEF Papel
<1>5. PICK o : o = otras[w]
  OBVIOUS
<1>6. OtraBien(o) /\ OtraFiel(o)
  BY <1>1, <1>4, <1>5, OtraDe
<1>7. instr' \in Turno /\ instr'.pc = "libre" /\ instr'.p = Fin
  BY <1>2, OciosaTipo
<1>8. TypeOK'
  <2>1. o \in [tablas : [FileTags -> Seq(Pagina)], global : Seq(Entradas), bitmap : SUBSET Marcos,
               marcos : [Marcos -> Contenidos], puntero : Marcos]
    BY <1>6 DEF OtraBien
  <2>2. /\ tablas' \in [FileTags -> Seq(Pagina)] /\ global' \in Seq(Entradas) /\ bitmap' \subseteq Marcos
        /\ marcos' \in [Marcos -> Contenidos] /\ puntero' \in Marcos
    BY <1>3, <1>5, <2>1
  <2> QED
    BY <1>1, <1>2, <1>7, <2>2 DEF TypeOK, Entradas
<1>9. Coherente'
  <2>1. MarcosBien(o.tablas, o.bitmap, {}) /\ GlobalBien(o.tablas, o.global, {}, CantMarcos)
    BY <1>6 DEF OtraBien
  <2>2. MarcosBien(tablas', bitmap', {}) /\ GlobalBien(tablas', global', {}, CantMarcos)
    BY <1>3, <1>5, <2>1
  <2> QED
    BY <1>2, <1>7, <2>2, QuietoEs DEF Cargando
<1>10. Papel'
  BY <1>1, <1>2, <1>7, PapelEs DEF Papel
<1>11. Persistidas'
  BY <1>7 DEF Persistidas
<1>12. Fieles'
  <2>1. LimpiasDe(o.tablas, FileTags) /\ IgualesDe(arbol, o.tablas, o.marcos, {}, SoloLeidos)
    BY <1>6 DEF OtraFiel
  <2>2. LimpiasDe(o.tablas, SoloLeidos)
    BY <2>1 DEF LimpiasDe, Entradas
  <2>3. LimpiasDe(tablas', SoloLeidos) /\ IgualesDe(arbol', tablas', marcos', {}, SoloLeidos)
    BY <1>2, <1>3, <1>5, <2>1, <2>2
  <2> QED
    BY <1>2, <1>7, <2>3, FielesEs DEF Cargando
<1>13. OtrasBien'
  <2>1. PICK g : g = [tablas |-> tablas, global |-> global, bitmap |-> bitmap,
                      marcos |-> marcos, puntero |-> puntero]
    OBVIOUS
  <2>2. g.tablas = tablas /\ g.global = global /\ g.bitmap = bitmap /\ g.marcos = marcos /\ g.puntero = puntero
    BY <2>1
  <2>3. otras' = [otras EXCEPT ![w] = Vacia, ![actual] = g]
    BY <1>3, <2>1
  <2>4. otras = [v \in Workers |-> otras[v]]
    BY <1>1 DEF OtrasBien
  <2>5. /\ otras' = [v \in Workers |-> otras'[v]] /\ otras'[actual] = g /\ otras'[w] = Vacia
        /\ \A v \in Workers \ {w, actual} : otras'[v] = otras[v]
    BY <1>1, <1>4, <2>3, <2>4
  <2>6. OtraBien(g)
    <3>1. g \in [tablas : [FileTags -> Seq(Pagina)], global : Seq(Entradas), bitmap : SUBSET Marcos,
                 marcos : [Marcos -> Contenidos], puntero : Marcos]
      BY <1>1, <2>1 DEF TypeOK, Entradas
    <3>2. MarcosBien(tablas, bitmap, {}) /\ GlobalBien(tablas, global, {}, CantMarcos)
      BY <1>1, <1>2, QuietoDe DEF MemoriaBien, Cargando
    <3>3. MarcosBien(g.tablas, g.bitmap, {}) /\ GlobalBien(g.tablas, g.global, {}, CantMarcos)
      BY <2>2, <3>2
    <3> QED
      BY <3>1, <3>3 DEF OtraBien
  <2>7. OtraFiel(g)
    <3>1. LimpiasDe(tablas, FileTags)
      BY <1>1, <1>2 DEF Persistidas
    <3>2. IgualesDe(arbol, tablas, marcos, {}, SoloLeidos)
      BY <1>1, <1>2, FielesDe DEF Cargando
    <3> QED
      BY <2>2, <3>1, <3>2 DEF OtraFiel
  <2>8. ASSUME NEW v \in Workers
        PROVE  /\ OtraBien(otras'[v]) /\ LimpiasDe(otras'[v].tablas, FileTags)
               /\ IgualesDe(arbol', otras'[v].tablas, otras'[v].marcos, {}, SoloLeidos)
    <3>1. PICK p : p = otras'[v]
      OBVIOUS
    <3>2. OtraBien(p) /\ OtraFiel(p)
      <4>1. CASE v = actual
        BY <2>5, <2>6, <2>7, <3>1, <4>1
      <4>2. CASE v = w
        BY <2>5, <3>1, <4>2, VaciaBien
      <4>3. CASE v \notin {w, actual}
        <5>1. p = otras[v]
          BY <2>5, <3>1, <4>3
        <5> QED
          BY <1>1, <5>1, OtraDe
      <4> QED
        BY <4>1, <4>2, <4>3
    <3>3. LimpiasDe(p.tablas, FileTags) /\ IgualesDe(arbol', p.tablas, p.marcos, {}, SoloLeidos)
      BY <1>2, <3>2 DEF OtraFiel
    <3> QED
      BY <3>1, <3>2, <3>3
  <2> QED
    BY <1>2, <2>5, <2>8, OtrasEs
<1> QED
  BY <1>1, <1>3, <1>4, <1>8, <1>9, <1>10, <1>11, <1>12, <1>13 DEF DesalojoBien, MemoriaBien

\* Every step of the Workers keeps the invariant.
LEMMA PasoDesalojo ==
  ASSUME DesalojoBien, [NextDesalojo]_varsDesalojo
  PROVE  DesalojoBien'
<1>1. CASE Pasa
  BY <1>1, PasaDesalojo
<1>2. CASE Trabaja \/ Queda \/ UNCHANGED varsDesalojo
  <2>1. [Next]_vars /\ UNCHANGED <<actual, otras>>
    BY <1>2 DEF Trabaja, Queda, varsDesalojo, Next, Sigue
  <2> QED
    BY <2>1, TrabajaDesalojo
<1> QED
  BY <1>1, <1>2 DEF NextDesalojo

\* What is read shows what the Storage has.
LEMMA AjenasDeFieles ==
  ASSUME TypeOK, Fieles
  PROVE  AjenasFieles
<1> SUFFICES ASSUME Quieta, NEW e \in Presentes, e.ft \in SoloLeidos
             PROVE  marcos[Marco(e)] = arbol[e.ft].datos[e.n + 1]
  BY DEF AjenasFieles
<1>1. IgualesDe(arbol, tablas, marcos, {}, SoloLeidos)
  BY FielesDe DEF Quieta, Cargando
<1>2. e \in EnMarco(tablas, {}) /\ Marco(e) = Pag(tablas, e).marco
  BY PresentesEs
<1> QED
  BY <1>1, <1>2 DEF IgualesDe

\* The invariant of the Workers that a query goes through.
THEOREM DesalojoBienSiempre == SpecDesalojo => []DesalojoBien
<1>1. InitDesalojo => DesalojoBien
  BY InicioDesalojo
<1>2. DesalojoBien /\ [NextDesalojo]_varsDesalojo => DesalojoBien'
  BY PasoDesalojo
<1> QED
  BY <1>1, <1>2, PTL DEF SpecDesalojo

\* The memory of the Worker that has the query keeps its type: no instruction
\* asks for a page, a frame or a position of the clock that there is not
\* (elegirVictimaLRU, elegirVictimaClockM, liberarVictima, asignarMarco).
THEOREM TypeCorrect == FairDesalojo => []TypeOK
<1>1. DesalojoBien => TypeOK
  BY DEF DesalojoBien, MemoriaBien
<1> QED
  BY <1>1, DesalojoBienSiempre, PTL DEF FairDesalojo

\* The bitmap has exactly the frames of the pages present, no two pages share
\* one, and an absent page is clean, for any number of frames and of Workers.
THEOREM MarcosCoherentesSiempre == FairDesalojo => []MarcosCoherentes
<1>1. DesalojoBien => MarcosCoherentes
  BY MarcosDeMemoriaBien DEF DesalojoBien
<1> QED
  BY <1>1, DesalojoBienSiempre, PTL DEF FairDesalojo

\* The replacement sees each page present once, and under CLOCK-M each at the
\* position of its frame.
THEOREM TablaGlobalExactaSiempre == FairDesalojo => []TablaGlobalExacta
<1>1. DesalojoBien => TablaGlobalExacta
  BY GlobalDeMemoriaBien DEF DesalojoBien
<1> QED
  BY <1>1, DesalojoBienSiempre, PTL DEF FairDesalojo

\* A page of a file:tag that the scripts only read shows the block that the
\* Storage holds, whatever was replaced and whatever Worker loaded it.
THEOREM AjenasFielesSiempre == FairDesalojo => []AjenasFieles
<1>1. DesalojoBien => AjenasFieles
  BY AjenasDeFieles DEF DesalojoBien, MemoriaBien
<1> QED
  BY <1>1, DesalojoBienSiempre, PTL DEF FairDesalojo

-----------------------------------------------------------------------------
(* What is only written.                                                   *)

Unico == \E w \in Workers : Destinos[guion] = {w}

\* WRITE_BLOCK takes the page.
Acepta(archivos, e) == Hay(archivos, e.ft, e.n) /\ archivos[e.ft].estado # "COMMITED"

AceptanDe(archivos, tabs, fuera, S) ==
  \A e \in EnMarco(tabs, fuera) : e.ft \in S => Acepta(archivos, e)

\* A page of S that is clean shows its block.
LimpiasIguales(archivos, tabs, mem, fuera, S) ==
  \A e \in EnMarco(tabs, fuera) :
    e.ft \in S /\ ~Pag(tabs, e).modificada =>
      mem[Pag(tabs, e).marco] = archivos[e.ft].datos[e.n + 1]

\* The last bytes written on the one page of a file:tag are in its frame as
\* long as it is dirty, and in the Storage otherwise.
Primera(ft) == Entrada(ft, 0)
Texto(c) == [k \in 1 .. SizeBlock |-> c[k - 1]]
UnaPagina(tabs, ft) == \A e \in Entradas : e.ft = ft /\ Tiene(tabs, e) => e.n = 0
Sucia(tabs, fuera, ft) ==
  Primera(ft) \in EnMarco(tabs, fuera) /\ Pag(tabs, Primera(ft)).modificada
Guardado(archivos, tabs, mem, fuera, esc, ft) ==
  IF Sucia(tabs, fuera, ft) THEN Texto(mem[Pag(tabs, Primera(ft)).marco]) = esc[ft]
  ELSE esc[ft] # <<>> => Texto(archivos[ft].datos[1]) = esc[ft]

\* The three together, for the file:tags of S, L and D.
Escritas(archivos, tabs, mem, fuera, esc, S, L, D) ==
  /\ AceptanDe(archivos, tabs, fuera, S)
  /\ LimpiasIguales(archivos, tabs, mem, fuera, L)
  /\ \A ft \in D : /\ UnaPagina(tabs, ft) /\ Guardado(archivos, tabs, mem, fuera, esc, ft)
                   /\ esc[ft] # <<>> => Acepta(archivos, Primera(ft))

Iguales == IF Unico THEN SoloEscritos ELSE {}

SinComitear(archivos) == \A ft \in SoloEscritos :
  "WRITE" \in Usos(ft) => archivos[ft] = NoHay \/ archivos[ft].estado # "COMMITED"

Volcables ==
  /\ escrito \in [FileTags -> Seq(Bytes)]
  /\ actual \in Destinos[guion]
  /\ SinComitear(arbol)
  /\ Escritas(arbol, tablas, marcos, AlAire, escrito, SoloEscritos, Iguales, DeUnaPagina)
  /\ instr.pc \in Cargando /\ Nueva.ft \in SoloEscritos =>
       /\ Acepta(arbol, Nueva)
       /\ Tiene(tablas, Nueva) => Pag(tablas, Nueva).modificada

\* The instruction at hand on a file:tag of one page writes all of it; a FLUSH
\* leaves no dirty page of its table behind.
Encargo ==
  /\ instr.pc = "libre" => instr.p = Fin
  /\ instr.pc = "persistir" => instr.p.op \in {"FLUSH", "COMMIT", "END"}
  /\ instr.pc \in {"pagina", "sinPagina"} \cup Cargando /\ instr.p.ft \in DeUnaPagina =>
       /\ instr.pc # "sinPagina" /\ EsEscritura /\ instr.p.dir = 0
       /\ Len(instr.p.datos) = SizeBlock /\ instr.datos = instr.p.datos
       /\ instr.pag = 0 /\ instr.desp = 0 /\ instr.quedan = 1
  /\ instr.pc = "persistir" /\ instr.p.op # "END" =>
       LimpiasDe(tablas, {instr.p.ft} \ ToSet(instr.tabs))

\* The pages other Workers kept.
OtrasEscritas ==
  \A w \in Workers : /\ AceptanDe(arbol, otras[w].tablas, {}, SoloEscritos)
                     /\ \A ft \in DeUnaPagina : UnaPagina(otras[w].tablas, ft)

-----------------------------------------------------------------------------
(* Steps on the pages.                                                     *)

\* A WRITE of a whole page leaves its bytes in the frame.
LEMMA EscritoEntero ==
  ASSUME NEW c \in Contenidos, NEW datos \in Seq(Bytes), Len(datos) = SizeBlock
  PROVE  Texto(Escrito(c, 0, datos)) = datos
<1>1. SizeBlock \in Nat \ {0}
  BY MemoriaAssumption
<1>2. datos = [k \in 1 .. SizeBlock |-> datos[k]]
  BY LenProperties
<1>3. \A k \in 1 .. SizeBlock : Escrito(c, 0, datos)[k - 1] = datos[k]
  BY <1>1 DEF Escrito
<1>4. Texto(Escrito(c, 0, datos)) = [k \in 1 .. SizeBlock |-> datos[k]]
  BY <1>3 DEF Texto
<1> QED
  BY <1>2, <1>4

\* Its first page is an entry like the others.
LEMMA PrimeraTipo ==
  ASSUME NEW ft \in FileTags
  PROVE  /\ Primera(ft) \in Entradas /\ Primera(ft).ft = ft /\ Primera(ft).n = 0
         /\ \A e \in Entradas : e.ft = ft /\ e.n = 0 => e = Primera(ft)
BY DEF Primera, Entrada, Entradas

\* What is not in the air stays written when a page of another file:tag, or
\* another page, gets what the instruction has for it.
LEMMA AccesoEscritas ==
  ASSUME TypeOK, NEW t \in Tablas, NEW mem \in [Marcos -> Contenidos], EfectoAcceso(t, mem),
         NEW usados, MarcosBien(t, usados, {}), Tiene(t, Nueva), Pag(t, Nueva).precencia,
         NEW archivos, NEW esc, NEW esc2, NEW S, NEW L \in SUBSET S, NEW D \in SUBSET S, S \subseteq FileTags,
         Escritas(archivos, t, mem, {Nueva}, esc, S, L, D \ {Nueva.ft}),
         Nueva.ft \in S => /\ EsEscritura /\ Acepta(archivos, Nueva)
                           /\ instr.quedan > 0 \/ Pag(t, Nueva).modificada,
         Nueva.ft \in D => /\ UnaPagina(t, Nueva.ft) /\ instr.quedan > 0 /\ instr.desp = 0
                           /\ Len(instr.datos) = SizeBlock /\ esc2[Nueva.ft] = instr.datos,
         \A ft \in D \ {Nueva.ft} : esc2[ft] = esc[ft]
  PROVE  Escritas(archivos, tablas', marcos', {}, esc2, S, L, D)
<1>1. /\ Retocadas(t, tablas') /\ tablas' \in Tablas
      /\ \A f \in Entradas : Tiene(t, f) /\ f # Nueva => Pag(tablas', f) = Pag(t, f)
      /\ instr.quedan > 0 =>
           /\ Pag(tablas', Nueva).modificada = EsEscritura
           /\ marcos' = IF EsEscritura
                        THEN [mem EXCEPT ![Pag(t, Nueva).marco] = Escrito(@, instr.desp, instr.datos)]
                        ELSE mem
      /\ ~(instr.quedan > 0) => tablas' = t /\ marcos' = mem
  BY DEF EfectoAcceso
<1>2. PICK a \in Entradas : a = Nueva
  BY TurnoTipo
<1>3. Pag(t, a) \in Pagina /\ Pag(t, a).marco \in Marcos
  <2>1. Pag(t, a) \in Pagina
    BY <1>2, PagTipo
  <2> QED
    BY <2>1 DEF Pagina
<1>4. EnMarco(tablas', {}) = EnMarco(t, {}) /\ EnMarco(t, {}) = EnMarco(t, {a}) \cup {a}
  BY <1>1, <1>2 DEF EnMarco, Retocadas
<1>5. \A f \in EnMarco(t, {a}) : Pag(tablas', f) = Pag(t, f) /\ Pag(t, f).marco # Pag(t, a).marco
  BY <1>1, <1>2, <1>4 DEF EnMarco, MarcosBien
<1>6. \A f \in EnMarco(t, {a}) : marcos'[Pag(tablas', f).marco] = mem[Pag(t, f).marco]
  <2> SUFFICES ASSUME NEW f \in EnMarco(t, {a})
               PROVE  marcos'[Pag(t, f).marco] = mem[Pag(t, f).marco]
    BY <1>5
  <2>1. Pag(t, f) \in Pagina
    BY PagTipo DEF EnMarco
  <2>2. Pag(t, f).marco \in Marcos /\ Pag(t, f).marco # Pag(t, a).marco
    BY <1>5, <2>1 DEF Pagina
  <2>3. marcos' = mem \/ \E c : marcos' = [mem EXCEPT ![Pag(t, a).marco] = c]
    BY <1>1, <1>2
  <2> QED
    BY <1>3, <2>2, <2>3
<1>7. Escritas(archivos, t, mem, {a}, esc, S, L, D \ {a.ft})
  BY <1>2
<1>8. AceptanDe(archivos, tablas', {}, S)
  BY <1>2, <1>4, <1>7 DEF AceptanDe, Escritas
<1>9. a.ft \in S => Pag(tablas', a).modificada
  BY <1>1, <1>2
<1>10. LimpiasIguales(archivos, tablas', marcos', {}, L)
  <2> SUFFICES ASSUME NEW f \in EnMarco(t, {a}), f.ft \in L, ~Pag(tablas', f).modificada
               PROVE  marcos'[Pag(tablas', f).marco] = archivos[f.ft].datos[f.n + 1]
    BY <1>4, <1>9 DEF LimpiasIguales
  <2> QED
    BY <1>5, <1>6, <1>7 DEF Escritas, LimpiasIguales
<1>11. ASSUME NEW ft \in D \ {a.ft}
       PROVE  /\ UnaPagina(tablas', ft) /\ Guardado(archivos, tablas', marcos', {}, esc2, ft)
              /\ esc2[ft] # <<>> => Acepta(archivos, Primera(ft))
  <2>1. /\ UnaPagina(t, ft) /\ Guardado(archivos, t, mem, {a}, esc, ft)
        /\ esc[ft] # <<>> => Acepta(archivos, Primera(ft))
        /\ esc2[ft] = esc[ft]
    BY <1>2, <1>7, <1>11 DEF Escritas
  <2>2. PICK e \in Entradas : e = Primera(ft) /\ e.ft = ft
    BY PrimeraTipo
  <2>3. e # a
    BY <1>11, <2>2
  <2>4. e \in EnMarco(tablas', {}) <=> e \in EnMarco(t, {a})
    BY <1>4, <2>3
  <2>5. Sucia(tablas', {}, ft) <=> Sucia(t, {a}, ft)
    BY <1>5, <2>2, <2>4 DEF Sucia
  <2>6. Sucia(t, {a}, ft) => marcos'[Pag(tablas', e).marco] = mem[Pag(t, e).marco]
    BY <1>6, <2>2 DEF Sucia
  <2>7. UnaPagina(tablas', ft)
    BY <1>1, <2>1 DEF UnaPagina, Retocadas
  <2> QED
    BY <2>1, <2>2, <2>5, <2>6, <2>7 DEF Guardado
<1>12. ASSUME a.ft \in D
       PROVE  /\ UnaPagina(tablas', a.ft) /\ Guardado(archivos, tablas', marcos', {}, esc2, a.ft)
              /\ esc2[a.ft] # <<>> => Acepta(archivos, Primera(a.ft))
  <2>1. UnaPagina(t, a.ft) /\ a.ft \in FileTags
    BY <1>2, <1>12 DEF Entradas
  <2>2. a = Primera(a.ft)
    BY <1>2, <2>1, PrimeraTipo DEF UnaPagina
  <2>3. UnaPagina(tablas', a.ft)
    BY <1>1, <2>1 DEF UnaPagina, Retocadas
  <2>4. Sucia(tablas', {}, a.ft)
    BY <1>4, <1>9, <1>12, <2>2 DEF Sucia
  <2>5. Pag(tablas', a).marco = Pag(t, a).marco
    BY <1>1, <1>2 DEF Retocadas
  <2>6. marcos'[Pag(t, a).marco] = Escrito(mem[Pag(t, a).marco], 0, instr.datos)
    <3>1. marcos' = [mem EXCEPT ![Pag(t, a).marco] = Escrito(@, instr.desp, instr.datos)]
      BY <1>1, <1>2, <1>12
    <3> QED
      BY <1>2, <1>3, <1>12, <3>1
  <2>7. Texto(marcos'[Pag(t, a).marco]) = instr.datos
    <3>1. mem[Pag(t, a).marco] \in Contenidos /\ instr.datos \in Seq(Bytes)
      BY <1>3, TurnoTipo
    <3> QED
      BY <1>2, <1>12, <2>6, <3>1, EscritoEntero
  <2>8. Guardado(archivos, tablas', marcos', {}, esc2, a.ft)
    BY <1>2, <1>12, <2>2, <2>4, <2>5, <2>7 DEF Guardado
  <2>9. Acepta(archivos, Primera(a.ft))
    BY <1>2, <1>12, <2>2
  <2> QED
    BY <2>3, <2>8, <2>9
<1> QED
  BY <1>8, <1>10, <1>11, <1>12 DEF Escritas

\* Blocks change; what there is of each file:tag does not.
MismosBloques(antes, despues) ==
  /\ \A e \in Entradas : Acepta(despues, e) <=> Acepta(antes, e)
  /\ \A g \in FileTags : /\ despues[g] = NoHay <=> antes[g] = NoHay
                         /\ antes[g] # NoHay => despues[g].estado = antes[g].estado

\* What WRITE_BLOCK changes: the block, if it takes it.
LEMMA EscribeEfecto ==
  ASSUME arbol \in Arbol, NEW ft \in FileTags, NEW n \in Nat, NEW m \in Marcos,
         marcos \in [Marcos -> Contenidos], EscribeBloque(ft, n, m)
  PROVE  /\ MismosBloques(arbol, arbol')
         /\ \A e \in Entradas : ~(e.ft = ft /\ e.n = n) =>
              arbol'[e.ft].datos[e.n + 1] = arbol[e.ft].datos[e.n + 1]
         /\ AceptaBloque(ft, n) => arbol'[ft].datos[n + 1] = marcos[m]
<1>1. CASE ~AceptaBloque(ft, n)
  <2>1. arbol' = arbol
    BY <1>1 DEF EscribeBloque
  <2> QED
    BY <1>1, <2>1 DEF MismosBloques
<1>2. CASE AceptaBloque(ft, n)
  <2>1. arbol[ft] \in EnStorage /\ arbol[ft].datos \in Seq(Contenidos)
        /\ n + 1 \in 1 .. Len(arbol[ft].datos)
    <3>1. arbol[ft] \in EnStorage /\ n < Len(arbol[ft].datos)
      BY <1>2 DEF AceptaBloque, HayBloque, Arbol
    <3>2. arbol[ft].datos \in Seq(Contenidos)
      BY <3>1 DEF EnStorage
    <3> QED
      BY <3>1, <3>2, LenProperties
  <2>2. PICK d : d = [arbol[ft].datos EXCEPT ![n + 1] = marcos[m]]
    OBVIOUS
  <2>3. /\ d \in Seq(Contenidos) /\ Len(d) = Len(arbol[ft].datos) /\ d[n + 1] = marcos[m]
        /\ \A k \in Nat : k # n => d[k + 1] = arbol[ft].datos[k + 1]
    <3>1. marcos[m] \in Contenidos
      OBVIOUS
    <3>2. /\ d \in Seq(Contenidos) /\ Len(d) = Len(arbol[ft].datos)
      BY <2>1, <2>2, <3>1, CambiaUno
    <3>3. DOMAIN arbol[ft].datos = 1 .. Len(arbol[ft].datos) /\ DOMAIN d = 1 .. Len(arbol[ft].datos)
      BY <2>1, <3>2, LenProperties
    <3>4. d[n + 1] = marcos[m]
      BY <2>1, <2>2, <3>3
    <3> QED
      BY <2>2, <3>2, <3>3, <3>4
  <2>4. PICK r : r = [arbol[ft] EXCEPT !.datos = d]
    OBVIOUS
  <2>5. r \in EnStorage /\ r.estado = arbol[ft].estado /\ r.datos = d
    BY <2>1, <2>3, <2>4 DEF EnStorage
  <2>6. arbol' = [arbol EXCEPT ![ft] = r]
    BY <1>2, <2>2, <2>4 DEF EscribeBloque
  <2>7. arbol'[ft] = r /\ \A g \in FileTags : g # ft => arbol'[g] = arbol[g]
    BY <2>6 DEF Arbol
  <2>8. r # NoHay /\ arbol[ft] # NoHay
    BY <2>1, <2>5, NoHayAssumption
  <2>9. \A e \in Entradas : Acepta(arbol', e) <=> Acepta(arbol, e)
    <3> SUFFICES ASSUME NEW e \in Entradas PROVE Acepta(arbol', e) <=> Acepta(arbol, e)
      OBVIOUS
    <3>1. CASE e.ft = ft
      BY <2>3, <2>5, <2>7, <2>8, <3>1 DEF Acepta, Hay
    <3>2. CASE e.ft # ft
      BY <2>7, <3>2 DEF Acepta, Hay, Entradas
    <3> QED
      BY <3>1, <3>2
  <2>10. ASSUME NEW e \in Entradas, ~(e.ft = ft /\ e.n = n)
         PROVE  arbol'[e.ft].datos[e.n + 1] = arbol[e.ft].datos[e.n + 1]
    <3>1. e.ft \in FileTags /\ e.n \in Nat
      BY DEF Entradas
    <3> QED
      BY <2>3, <2>5, <2>7, <2>10, <3>1
  <2>11. MismosBloques(arbol, arbol')
    BY <2>5, <2>7, <2>8, <2>9 DEF MismosBloques
  <2> QED
    BY <2>3, <2>5, <2>7, <2>10, <2>11
<1> QED
  BY <1>1, <1>2

\* The block of a dirty page, or of no page in a frame, goes to the Storage.
LEMMA BloqueEscritas ==
  ASSUME TypeOK, NEW fuera, NEW usados, MarcosBien(tablas, usados, fuera),
         NEW e \in EnMarco(tablas, fuera), Pag(tablas, e).modificada, NEW n \in Nat,
         EscribeBloque(e.ft, n, Pag(tablas, e).marco),
         n = e.n \/ Entrada(e.ft, n) \notin EnMarco(tablas, fuera),
         NEW esc, NEW S, NEW L \in SUBSET S, NEW D \in SUBSET S, S \subseteq FileTags,
         Escritas(arbol, tablas, marcos, fuera, esc, S, L, D)
  PROVE  /\ Escritas(arbol', tablas, marcos, fuera, esc, S, L, D)
         /\ MismosBloques(arbol, arbol')
         /\ n = e.n /\ e.ft \in S =>
              arbol'[e.ft].datos[e.n + 1] = marcos[Pag(tablas, e).marco]
<1>1. e \in Entradas /\ e.ft \in FileTags /\ e.n \in Nat /\ Tiene(tablas, e)
      /\ tablas \in Tablas /\ marcos \in [Marcos -> Contenidos] /\ arbol \in Arbol
  BY TipoDe DEF EnMarco, Entradas
<1>2. Pag(tablas, e) \in Pagina
  BY <1>1, PagTipo
<1>3. Pag(tablas, e).marco \in Marcos
  BY <1>2 DEF Pagina
<1>4. /\ MismosBloques(arbol, arbol')
      /\ \A f \in Entradas : ~(f.ft = e.ft /\ f.n = n) =>
           arbol'[f.ft].datos[f.n + 1] = arbol[f.ft].datos[f.n + 1]
      /\ AceptaBloque(e.ft, n) => arbol'[e.ft].datos[n + 1] = marcos[Pag(tablas, e).marco]
  BY <1>1, <1>3, EscribeEfecto
<1>5. n = e.n /\ e.ft \in S => arbol'[e.ft].datos[e.n + 1] = marcos[Pag(tablas, e).marco]
  BY <1>4 DEF Escritas, AceptanDe, Acepta, AceptaBloque, HayBloque, Hay
<1>6. AceptanDe(arbol', tablas, fuera, S)
  BY <1>4 DEF Escritas, AceptanDe, EnMarco, MismosBloques
<1>7. ASSUME NEW f \in EnMarco(tablas, fuera), ~Pag(tablas, f).modificada
      PROVE  arbol'[f.ft].datos[f.n + 1] = arbol[f.ft].datos[f.n + 1]
  <2>1. f \in Entradas /\ f # e /\ Entrada(f.ft, f.n) = f
    BY <1>7, EntradaIgual DEF EnMarco
  <2>2. ~(f.ft = e.ft /\ f.n = n)
    BY <1>1, <1>7, <2>1, EntradaIgual
  <2> QED
    BY <1>4, <2>1, <2>2
<1>8. LimpiasIguales(arbol', tablas, marcos, fuera, L)
  BY <1>7 DEF Escritas, LimpiasIguales
<1>9. ASSUME NEW ft \in D
      PROVE  /\ UnaPagina(tablas, ft) /\ Guardado(arbol', tablas, marcos, fuera, esc, ft)
             /\ esc[ft] # <<>> => Acepta(arbol', Primera(ft))
  <2>1. /\ UnaPagina(tablas, ft) /\ Guardado(arbol, tablas, marcos, fuera, esc, ft)
        /\ esc[ft] # <<>> => Acepta(arbol, Primera(ft))
    BY DEF Escritas
  <2>2. PICK p \in Entradas : p = Primera(ft) /\ p.ft = ft /\ p.n = 0
                              /\ \A f \in Entradas : f.ft = ft /\ f.n = 0 => f = p
    BY PrimeraTipo
  <2>3. e.ft = ft => e = p
    BY <1>1, <2>1, <2>2 DEF UnaPagina
  <2>4. Sucia(tablas, fuera, ft) \/ arbol'[ft].datos[1] = arbol[ft].datos[1]
    <3>1. CASE e.ft = ft
      BY <2>2, <2>3, <3>1 DEF Sucia
    <3>2. CASE e.ft # ft
      <4>1. arbol'[p.ft].datos[p.n + 1] = arbol[p.ft].datos[p.n + 1]
        BY <1>4, <2>2, <3>2
      <4> QED
        BY <2>2, <4>1
    <3> QED
      BY <3>1, <3>2
  <2>5. Guardado(arbol', tablas, marcos, fuera, esc, ft)
    BY <2>1, <2>4 DEF Guardado
  <2> QED
    BY <1>4, <2>1, <2>2, <2>5 DEF MismosBloques
<1>10. Escritas(arbol', tablas, marcos, fuera, esc, S, L, D)
  BY <1>6, <1>8, <1>9 DEF Escritas
<1> QED
  BY <1>4, <1>5, <1>10

\* Pages, frames and blocks that are what they were.
LEMMA RetocaEscritas ==
  ASSUME NEW t, NEW u, NEW antes, NEW despues, NEW mem, NEW fuera, NEW fuera2, NEW esc, NEW esc2,
         NEW S, NEW L \in SUBSET S, NEW D \in SUBSET S, S \subseteq FileTags,
         EnMarco(u, fuera2) = EnMarco(t, fuera),
         \A f \in EnMarco(t, fuera) : /\ Pag(u, f).marco = Pag(t, f).marco
                                      /\ Pag(u, f).modificada = Pag(t, f).modificada,
         \A f \in Entradas : Tiene(u, f) => Tiene(t, f),
         Conserva(antes, despues, S), \A ft \in D : esc2[ft] = esc[ft],
         Escritas(antes, t, mem, fuera, esc, S, L, D)
  PROVE  Escritas(despues, u, mem, fuera2, esc2, S, L, D)
<1>1. \A f \in EnMarco(t, fuera) : f.ft \in S => Acepta(despues, f) /\ despues[f.ft] = antes[f.ft]
  BY DEF Escritas, AceptanDe, Acepta, Hay, Conserva
<1>2. AceptanDe(despues, u, fuera2, S)
  BY <1>1 DEF AceptanDe
<1>3. LimpiasIguales(despues, u, mem, fuera2, L)
  BY <1>1 DEF Escritas, LimpiasIguales
<1>4. ASSUME NEW ft \in D
      PROVE  /\ UnaPagina(u, ft) /\ Guardado(despues, u, mem, fuera2, esc2, ft)
             /\ esc2[ft] # <<>> => Acepta(despues, Primera(ft))
  <2>1. /\ UnaPagina(t, ft) /\ Guardado(antes, t, mem, fuera, esc, ft) /\ esc2[ft] = esc[ft]
        /\ esc[ft] # <<>> => Acepta(antes, Primera(ft))
    BY DEF Escritas
  <2>2. PICK p \in Entradas : p = Primera(ft) /\ p.ft = ft
    BY PrimeraTipo
  <2>3. esc[ft] # <<>> => Acepta(despues, p) /\ despues[ft] = antes[ft]
    BY <2>1, <2>2 DEF Acepta, Hay, Conserva
  <2>4. Sucia(u, fuera2, ft) <=> Sucia(t, fuera, ft)
    BY DEF Sucia
  <2>5. Sucia(t, fuera, ft) => Pag(u, p).marco = Pag(t, p).marco
    BY <2>2 DEF Sucia
  <2>6. Guardado(despues, u, mem, fuera2, esc2, ft)
    BY <2>1, <2>2, <2>3, <2>4, <2>5 DEF Guardado
  <2>7. UnaPagina(u, ft)
    BY <2>1 DEF UnaPagina
  <2> QED
    BY <2>1, <2>2, <2>3, <2>6, <2>7
<1> QED
  BY <1>2, <1>3, <1>4 DEF Escritas

\* A page whose block went to the Storage is clean, or leaves its frame.
LEMMA LimpiaEscritas ==
  ASSUME NEW t, NEW u, NEW archivos, NEW mem, NEW fuera, NEW e \in EnMarco(t, fuera), NEW esc,
         NEW S, NEW L \in SUBSET S, NEW D \in SUBSET S, S \subseteq FileTags,
         EnMarco(u, fuera) \cup {e} = EnMarco(t, fuera),
         \A f \in EnMarco(t, fuera) : f # e => Pag(u, f) = Pag(t, f),
         e \in EnMarco(u, fuera) => ~Pag(u, e).modificada /\ Pag(u, e).marco = Pag(t, e).marco,
         \A f \in Entradas : Tiene(u, f) => Tiene(t, f),
         Pag(t, e).modificada /\ (e.ft \in D \/ (e.ft \in S /\ e \in EnMarco(u, fuera))) =>
           archivos[e.ft].datos[e.n + 1] = mem[Pag(t, e).marco],
         Escritas(archivos, t, mem, fuera, esc, S, L, D)
  PROVE  Escritas(archivos, u, mem, fuera, esc, S, L, D)
<1>0. e \in Entradas /\ Tiene(t, e)
  BY DEF EnMarco
<1>1. AceptanDe(archivos, u, fuera, S)
  BY DEF Escritas, AceptanDe
<1>2. LimpiasIguales(archivos, u, mem, fuera, L)
  <2> SUFFICES ASSUME NEW f \in EnMarco(u, fuera), f.ft \in L, ~Pag(u, f).modificada
               PROVE  mem[Pag(u, f).marco] = archivos[f.ft].datos[f.n + 1]
    BY DEF LimpiasIguales
  <2>1. CASE f = e
    BY <2>1 DEF Escritas, LimpiasIguales
  <2>2. CASE f # e
    BY <2>2 DEF Escritas, LimpiasIguales
  <2> QED
    BY <2>1, <2>2
<1>3. ASSUME NEW ft \in D
      PROVE  /\ UnaPagina(u, ft) /\ Guardado(archivos, u, mem, fuera, esc, ft)
             /\ esc[ft] # <<>> => Acepta(archivos, Primera(ft))
  <2>1. /\ UnaPagina(t, ft) /\ Guardado(archivos, t, mem, fuera, esc, ft)
        /\ esc[ft] # <<>> => Acepta(archivos, Primera(ft))
    BY DEF Escritas
  <2>2. PICK p \in Entradas : p = Primera(ft) /\ p.ft = ft /\ p.n = 0
                              /\ \A f \in Entradas : f.ft = ft /\ f.n = 0 => f = p
    BY PrimeraTipo
  <2>3. UnaPagina(u, ft)
    BY <2>1 DEF UnaPagina
  <2>4. CASE p # e
    <3>1. Sucia(u, fuera, ft) <=> Sucia(t, fuera, ft)
      BY <2>2, <2>4 DEF Sucia
    <3>2. Sucia(t, fuera, ft) => Pag(u, p) = Pag(t, p)
      BY <2>2, <2>4 DEF Sucia
    <3> QED
      BY <2>1, <2>2, <2>3, <3>1, <3>2 DEF Guardado
  <2>5. CASE p = e
    <3>1. ~Sucia(u, fuera, ft)
      BY <2>2, <2>5 DEF Sucia
    <3>2. Sucia(t, fuera, ft) <=> Pag(t, e).modificada
      BY <2>2, <2>5 DEF Sucia
    <3>3. Pag(t, e).modificada => archivos[ft].datos[1] = mem[Pag(t, e).marco]
      <4>1. Pag(t, e).modificada => archivos[e.ft].datos[e.n + 1] = mem[Pag(t, e).marco]
        BY <2>2, <2>5
      <4> QED
        BY <2>2, <2>5, <4>1
    <3>4. Guardado(archivos, u, mem, fuera, esc, ft)
      BY <2>1, <2>2, <2>5, <3>1, <3>2, <3>3 DEF Guardado
    <3> QED
      BY <2>1, <2>3, <3>4
  <2> QED
    BY <2>4, <2>5
<1> QED
  BY <1>1, <1>2, <1>3 DEF Escritas

\* The page at hand gets its frame and what the instruction has for it.
LEMMA CargaEscritas ==
  ASSUME TypeOK, NEW t \in Tablas, NEW m \in Marcos, Carga(t, global, m),
         NEW usados, MarcosBien(t, usados, {Nueva}), m \notin usados,
         Tiene(t, Nueva) => Pag(t, Nueva).precencia,
         NEW archivos, NEW esc, NEW esc2, NEW S, NEW L \in SUBSET S, NEW D \in SUBSET S, S \subseteq FileTags,
         Escritas(archivos, t, marcos, {Nueva}, esc, S, L, D),
         Nueva.ft \in S => /\ EsEscritura /\ Acepta(archivos, Nueva)
                           /\ Tiene(t, Nueva) => Pag(t, Nueva).modificada,
         Nueva.ft \in D => /\ Nueva.n = 0 /\ instr.quedan > 0 /\ instr.desp = 0
                           /\ Len(instr.datos) = SizeBlock /\ esc2[Nueva.ft] = instr.datos,
         \A ft \in D \ {Nueva.ft} : esc2[ft] = esc[ft]
  PROVE  Escritas(archivos, tablas', marcos', {}, esc2, S, L, D)
<1>1. PICK u \in Tablas, mem \in [Marcos -> Contenidos] :
           /\ EfectoMarco(t, Nueva, m, u) /\ EfectoAcceso(u, mem)
           /\ ~Tiene(t, Nueva) => Pag(u, Nueva).modificada = EsEscritura
           /\ Tiene(u, Nueva)
           /\ mem = IF EsEscritura THEN marcos ELSE [marcos EXCEPT ![m] = instr.leido]
  BY CargaEfecto
<1>2. PICK a \in Entradas : a = Nueva
  BY TurnoTipo
<1>3. EnMarco(u, {}) = EnMarco(t, {a}) \cup {a} /\ MarcosBien(u, usados \cup {m}, {})
  <2>1. MarcosBien(t, usados, {a}) /\ (Tiene(t, a) => Pag(t, a).precencia) /\ EfectoMarco(t, a, m, u)
    BY <1>1, <1>2
  <2> QED
    BY <2>1, CargaMarcos
<1>4. /\ Pag(u, a).precencia /\ Pag(u, a).marco = m
      /\ \A f \in Entradas : Tiene(t, f) /\ f # a => Pag(u, f) = Pag(t, f)
      /\ Tiene(t, a) => Pag(u, a).modificada = Pag(t, a).modificada
      /\ \A f \in Entradas : Tiene(u, f) /\ ~Tiene(t, f) /\ f # a => f.ft = a.ft /\ f.n < a.n
  BY <1>1, <1>2 DEF EfectoMarco
<1>5. EnMarco(u, {a}) = EnMarco(t, {a})
  BY <1>3 DEF EnMarco
<1>6. \A f \in EnMarco(t, {a}) : Pag(u, f) = Pag(t, f) /\ mem[Pag(t, f).marco] = marcos[Pag(t, f).marco]
  <2> SUFFICES ASSUME NEW f \in EnMarco(t, {a})
               PROVE  Pag(u, f) = Pag(t, f) /\ mem[Pag(t, f).marco] = marcos[Pag(t, f).marco]
    OBVIOUS
  <2>1. Pag(u, f) = Pag(t, f)
    BY <1>4 DEF EnMarco
  <2>2. Pag(t, f) \in Pagina
    BY PagTipo DEF EnMarco
  <2>3. Pag(t, f).marco \in usados /\ Pag(t, f).marco \in Marcos
    BY <1>2, <2>2 DEF MarcosBien, Pagina
  <2>4. marcos \in [Marcos -> Contenidos] /\ Pag(t, f).marco # m
    BY <2>3, TipoDe
  <2>5. mem = marcos \/ mem = [marcos EXCEPT ![m] = instr.leido]
    BY <1>1
  <2> QED
    BY <2>1, <2>3, <2>4, <2>5
<1>7. Escritas(archivos, t, marcos, {a}, esc, S, L, D)
  BY <1>2
<1>8. Escritas(archivos, u, mem, {a}, esc, S, L, D \ {a.ft})
  <2>1. AceptanDe(archivos, u, {a}, S)
    BY <1>5, <1>7 DEF Escritas, AceptanDe
  <2>2. LimpiasIguales(archivos, u, mem, {a}, L)
    BY <1>5, <1>6, <1>7 DEF Escritas, LimpiasIguales
  <2>3. ASSUME NEW ft \in D \ {a.ft}
        PROVE  /\ UnaPagina(u, ft) /\ Guardado(archivos, u, mem, {a}, esc, ft)
               /\ esc[ft] # <<>> => Acepta(archivos, Primera(ft))
    <3>1. /\ UnaPagina(t, ft) /\ Guardado(archivos, t, marcos, {a}, esc, ft)
          /\ esc[ft] # <<>> => Acepta(archivos, Primera(ft))
      BY <1>7, <2>3 DEF Escritas
    <3>2. UnaPagina(u, ft)
      BY <1>4, <2>3, <3>1 DEF UnaPagina
    <3>3. Sucia(u, {a}, ft) <=> Sucia(t, {a}, ft)
      BY <1>5, <1>6 DEF Sucia
    <3>4. Sucia(t, {a}, ft) => mem[Pag(u, Primera(ft)).marco] = marcos[Pag(t, Primera(ft)).marco]
      BY <1>6 DEF Sucia
    <3> QED
      BY <3>1, <3>2, <3>3, <3>4 DEF Guardado
  <2> QED
    BY <2>1, <2>2, <2>3 DEF Escritas
<1>9. a.ft \in D => UnaPagina(u, a.ft)
  <2> SUFFICES ASSUME a.ft \in D, NEW f \in Entradas, f.ft = a.ft, Tiene(u, f)
               PROVE  f.n = 0
    BY DEF UnaPagina
  <2>1. UnaPagina(t, a.ft) /\ a.n = 0 /\ f.n \in Nat
    BY <1>2, <1>7 DEF Escritas, Entradas
  <2>2. CASE Tiene(t, f)
    BY <2>1, <2>2 DEF UnaPagina
  <2>3. CASE ~Tiene(t, f)
    BY <1>4, <2>1, <2>3
  <2> QED
    BY <2>2, <2>3
<1>10. PICK D2 \in SUBSET S : D2 = D
  OBVIOUS
<1>11. /\ EfectoAcceso(u, mem) /\ MarcosBien(u, usados \cup {m}, {}) /\ Tiene(u, Nueva)
       /\ Pag(u, Nueva).precencia /\ Escritas(archivos, u, mem, {Nueva}, esc, S, L, D \ {Nueva.ft})
       /\ Nueva.ft \in S => /\ EsEscritura /\ Acepta(archivos, Nueva)
                            /\ instr.quedan > 0 \/ Pag(u, Nueva).modificada
       /\ Nueva.ft \in D => /\ UnaPagina(u, Nueva.ft) /\ instr.quedan > 0 /\ instr.desp = 0
                            /\ Len(instr.datos) = SizeBlock /\ esc2[Nueva.ft] = instr.datos
  BY <1>1, <1>2, <1>3, <1>4, <1>8, <1>9
<1> QED
  BY <1>11, AccesoEscritas

\* A set of page numbers of a table has a last one.
LEMMA UltimoDe ==
  ASSUME NEW N \in Nat, NEW T \in SUBSET (0 .. N), T # {}
  PROVE  \E x \in T : \A y \in T : y <= x
<1> DEFINE R == {N - y : y \in T}
<1>1. R \in SUBSET Nat /\ R # {}
  <2>1. \A y \in T : N - y \in Nat
    OBVIOUS
  <2> QED
    BY <2>1
<1>2. PICK r \in R : \A y \in R : r <= y
  <2> HIDE DEF R
  <2> QED
    BY <1>1, MinTipo
<1>3. PICK x \in T : r = N - x
  BY <1>2
<1>4. \A y \in T : r <= N - y
  BY <1>2
<1> QED
  BY <1>3, <1>4

\* encontrarNumeroDePagina finds a page of the table with that frame.
LEMMA NumeroDePaginaEs ==
  ASSUME NEW t \in Tablas, NEW e \in Entradas, Tiene(t, e), NEW n,
         n = NumeroDePagina(t[e.ft], Pag(t, e).marco)
  PROVE  /\ n \in Nat /\ n < Len(t[e.ft]) /\ Entrada(e.ft, n) \in Entradas
         /\ Pag(t, Entrada(e.ft, n)).marco = Pag(t, e).marco
<1>1. e.ft \in FileTags /\ e.n \in Nat /\ Len(t[e.ft]) \in Nat /\ e.n < Len(t[e.ft])
  BY LenProperties DEF Tablas, Entradas, Tiene
<1>2. PICK s, m : s = t[e.ft] /\ m = Pag(t, e).marco
  OBVIOUS
<1>3. PICK N \in Nat : N = Len(s) - 1
  <2>1. Len(s) \in Nat /\ e.n \in Nat /\ e.n < Len(s)
    BY <1>1, <1>2
  <2>2. Len(s) - 1 \in Nat
    BY <2>1
  <2> QED
    BY <2>2
<1> DEFINE T == {k \in 0 .. N : s[k + 1].marco = m}
<1>4. T \in SUBSET (0 .. N) /\ T # {}
  <2>1. e.n \in T
    BY <1>1, <1>2, <1>3 DEF Pag
  <2> QED
    BY <2>1
<1>5. PICK x \in T : \A y \in T : y <= x
  <2> HIDE DEF T
  <2> QED
    BY <1>4, UltimoDe
<1>6. /\ x \in 0 .. Len(s) - 1 /\ s[x + 1].marco = m
      /\ \A k \in x + 1 .. Len(s) - 1 : s[k + 1].marco # m
  <2>1. ASSUME NEW k \in x + 1 .. N PROVE s[k + 1].marco # m
    <3>1. k \in 0 .. N /\ ~(k <= x)
      BY <1>5
    <3> QED
      BY <1>5, <3>1
  <2> QED
    BY <1>1, <1>2, <1>3, <1>5, <2>1
<1>7. n \in 0 .. Len(s) - 1 /\ s[n + 1].marco = m
  BY <1>2, <1>6 DEF NumeroDePagina
<1>8. n \in Nat /\ n < Len(s)
  BY <1>1, <1>2, <1>7
<1> QED
  BY <1>1, <1>2, <1>7, <1>8 DEF Entrada, Entradas, Pag

\* The victim goes to the Storage: to its block, or to that of a page that is
\* in no frame.
LEMMA DevuelveEscritas ==
  ASSUME TypeOK, NEW fuera, NEW usados, MarcosBien(tablas, usados, fuera),
         NEW e \in EnMarco(tablas, fuera), DevuelveBloque(e), SinComitear(arbol),
         NEW esc, NEW S, NEW L \in SUBSET S, NEW D \in SUBSET S, S \subseteq FileTags,
         Escritas(arbol, tablas, marcos, fuera, esc, S, L, D)
  PROVE  /\ Escritas(arbol', tablas, marcos, fuera, esc, S, L, D)
         /\ MismosBloques(arbol, arbol')
         /\ Pag(tablas, e).modificada /\ e.ft \in D =>
              arbol'[e.ft].datos[e.n + 1] = marcos[Pag(tablas, e).marco]
<1>1. e \in Entradas /\ Tiene(tablas, e) /\ tablas \in Tablas /\ LaPagina(e.ft, e.n) = Pag(tablas, e)
  BY TipoDe DEF EnMarco, LaPagina, Pag
<1>2. CASE ~Pag(tablas, e).modificada
  BY <1>1, <1>2 DEF DevuelveBloque, MismosBloques
<1>3. CASE Pag(tablas, e).modificada
  <2>1. PICK n : n = NumeroDePagina(tablas[e.ft], Pag(tablas, e).marco)
    OBVIOUS
  <2>2. EscribeBloque(e.ft, n, Pag(tablas, e).marco)
    BY <1>1, <1>3, <2>1 DEF DevuelveBloque
  <2>3. PICK t \in Tablas : t = tablas
    BY <1>1
  <2>4. /\ n \in Nat /\ n < Len(t[e.ft]) /\ Entrada(e.ft, n) \in Entradas
        /\ Pag(t, Entrada(e.ft, n)).marco = Pag(t, e).marco
    BY <1>1, <2>1, <2>3, NumeroDePaginaEs
  <2>5. n = e.n \/ Entrada(e.ft, n) \notin EnMarco(tablas, fuera)
    <3>1. Entrada(e.ft, n) \in EnMarco(tablas, fuera) => Entrada(e.ft, n) = e
      BY <2>3, <2>4 DEF MarcosBien
    <3> QED
      BY <3>1 DEF Entrada
  <2>6. e.ft \in D => n = e.n
    <3>1. e.ft \in D => UnaPagina(tablas, e.ft)
      BY DEF Escritas
    <3>2. Tiene(tablas, Entrada(e.ft, n)) /\ Entrada(e.ft, n).ft = e.ft /\ Entrada(e.ft, n).n = n
      BY <2>3, <2>4 DEF Tiene, Entrada
    <3> QED
      BY <1>1, <2>4, <3>1, <3>2 DEF UnaPagina
  <2>7. /\ Escritas(arbol', tablas, marcos, fuera, esc, S, L, D)
        /\ MismosBloques(arbol, arbol')
        /\ n = e.n /\ e.ft \in S =>
             arbol'[e.ft].datos[e.n + 1] = marcos[Pag(tablas, e).marco]
    BY <1>3, <2>2, <2>4, <2>5, BloqueEscritas
  <2> QED
    BY <2>6, <2>7
<1> QED
  BY <1>2, <1>3

-----------------------------------------------------------------------------
(* The steps.                                                              *)

\* The sets of file:tags are those of the script.
LEMMA EscritosFijos ==
  ASSUME guion' = guion
  PROVE  /\ SoloEscritos' = SoloEscritos /\ DeUnaPagina' = DeUnaPagina /\ Iguales' = Iguales
         /\ (Unico' <=> Unico) /\ \A ft : Usos(ft)' = Usos(ft)
         /\ SoloEscritos \in SUBSET FileTags /\ Iguales \in SUBSET SoloEscritos
         /\ DeUnaPagina \in SUBSET SoloEscritos
BY DEF SoloEscritos, DeUnaPagina, Iguales, Unico, Usos

\* Escritas of the next state.
LEMMA EscritasPrima ==
  ASSUME guion' = guion, NEW fuera, AlAire' = fuera,
         Escritas(arbol', tablas', marcos', fuera, escrito', SoloEscritos, Iguales, DeUnaPagina)
  PROVE  Escritas(arbol, tablas, marcos, AlAire, escrito, SoloEscritos, Iguales, DeUnaPagina)'
<1>1. SoloEscritos' = SoloEscritos /\ DeUnaPagina' = DeUnaPagina /\ Iguales' = Iguales
  BY EscritosFijos
<1>2. AceptanDe(arbol, tablas, AlAire, SoloEscritos)'
  BY <1>1 DEF Escritas, AceptanDe, EnMarco, Tiene, Pag, Acepta, Hay
<1>3. LimpiasIguales(arbol, tablas, marcos, AlAire, Iguales)'
  BY <1>1 DEF Escritas, LimpiasIguales, EnMarco, Tiene, Pag
<1>4. ASSUME NEW ft \in DeUnaPagina
      PROVE  /\ UnaPagina(tablas, ft)' /\ Guardado(arbol, tablas, marcos, AlAire, escrito, ft)'
             /\ (escrito[ft] # <<>> => Acepta(arbol, Primera(ft)))'
  <2>1. /\ UnaPagina(tablas', ft) /\ Guardado(arbol', tablas', marcos', fuera, escrito', ft)
        /\ escrito'[ft] # <<>> => Acepta(arbol', Primera(ft))
    BY DEF Escritas
  <2>2. UnaPagina(tablas, ft)'
    BY <2>1 DEF UnaPagina, Tiene
  <2>3. Guardado(arbol, tablas, marcos, AlAire, escrito, ft)'
    BY <2>1 DEF Guardado, Sucia, EnMarco, Tiene, Pag
  <2>4. (escrito[ft] # <<>> => Acepta(arbol, Primera(ft)))'
    BY <2>1 DEF Acepta, Hay
  <2> QED
    BY <2>2, <2>3, <2>4
<1> QED
  BY <1>1, <1>2, <1>3, <1>4 DEF Escritas

\* Between two loads.
LEMMA VolcablesDe ==
  ASSUME Volcables, instr.pc \notin Cargando
  PROVE  Escritas(arbol, tablas, marcos, {}, escrito, SoloEscritos, Iguales, DeUnaPagina)
<1>1. AlAire = {}
  BY DEF AlAire
<1> QED
  BY <1>1 DEF Volcables

\* What it takes to keep Volcables with no page in the air...
LEMMA VolcablesEs ==
  ASSUME guion' = guion, actual' \in Destinos[guion], escrito' \in [FileTags -> Seq(Bytes)],
         SinComitear(arbol'), instr'.pc \notin Cargando,
         Escritas(arbol', tablas', marcos', {}, escrito', SoloEscritos, Iguales, DeUnaPagina)
  PROVE  Volcables'
<1>1. AlAire' = {}
  BY DEF AlAire
<1>2. Escritas(arbol, tablas, marcos, AlAire, escrito, SoloEscritos, Iguales, DeUnaPagina)'
  BY <1>1, EscritasPrima
<1>3. SinComitear(arbol)'
  BY EscritosFijos DEF SinComitear
<1> QED
  BY <1>2, <1>3 DEF Volcables, Cargando

\* During a load.
LEMMA VolcablesCargandoDe ==
  ASSUME Volcables, instr.pc \in Cargando
  PROVE  /\ Escritas(arbol, tablas, marcos, {Nueva}, escrito, SoloEscritos, Iguales, DeUnaPagina)
         /\ Nueva.ft \in SoloEscritos =>
              /\ Acepta(arbol, Nueva)
              /\ Tiene(tablas, Nueva) => Pag(tablas, Nueva).modificada
<1>1. AlAire = {Nueva}
  BY DEF AlAire
<1> QED
  BY <1>1 DEF Volcables

\* ... and with one.
LEMMA VolcablesCargandoEs ==
  ASSUME guion' = guion, actual' \in Destinos[guion], escrito' \in [FileTags -> Seq(Bytes)],
         SinComitear(arbol'), instr'.pc \in Cargando, Nueva' = Nueva,
         Escritas(arbol', tablas', marcos', {Nueva}, escrito', SoloEscritos, Iguales, DeUnaPagina),
         Nueva.ft \in SoloEscritos =>
           /\ Acepta(arbol', Nueva)
           /\ Tiene(tablas', Nueva) => Pag(tablas', Nueva).modificada
  PROVE  Volcables'
<1>1. AlAire' = {Nueva}
  BY DEF AlAire
<1>2. Escritas(arbol, tablas, marcos, AlAire, escrito, SoloEscritos, Iguales, DeUnaPagina)'
  BY <1>1, EscritasPrima
<1>3. SinComitear(arbol)' /\ SoloEscritos' = SoloEscritos
  BY EscritosFijos DEF SinComitear
<1>4. Acepta(arbol, Nueva)' <=> Acepta(arbol', Nueva)
  BY DEF Acepta, Hay
<1>5. (Tiene(tablas, Nueva) => Pag(tablas, Nueva).modificada)'
        <=> (Tiene(tablas', Nueva) => Pag(tablas', Nueva).modificada)
  BY DEF Tiene, Pag
<1>6. (instr.pc \in Cargando /\ Nueva.ft \in SoloEscritos =>
         /\ Acepta(arbol, Nueva)
         /\ Tiene(tablas, Nueva) => Pag(tablas, Nueva).modificada)'
  BY <1>3, <1>4, <1>5
<1> QED
  BY <1>2, <1>3, <1>6 DEF Volcables

\* What the others take from a step of this Worker.
ArbolSigue ==
  \A e \in Entradas : e.ft \in SoloEscritos /\ Acepta(arbol, e) => Acepta(arbol', e)

\* Blocks written commit nothing.
LEMMA MismosSigue ==
  ASSUME MismosBloques(arbol, arbol'), SinComitear(arbol)
  PROVE  SinComitear(arbol') /\ ArbolSigue
<1>1. SoloEscritos \subseteq FileTags
  BY DEF SoloEscritos
<1> QED
  BY <1>1 DEF MismosBloques, SinComitear, ArbolSigue

\* Nor does a tree that is the same for them.
LEMMA ConservaSigue ==
  ASSUME Conserva(arbol, arbol', SoloEscritos)
  PROVE  ArbolSigue
BY DEF Conserva, ArbolSigue, Acepta, Hay

\* A step that touches no page, out of a load.
LEMMA VolcablesQuieta ==
  ASSUME Volcables, guion' = guion, actual' = actual, UNCHANGED memoria,
         Conserva(arbol, arbol', SoloEscritos), SinComitear(arbol'),
         escrito' \in [FileTags -> Seq(Bytes)], \A ft \in DeUnaPagina : escrito'[ft] = escrito[ft],
         instr.pc \notin Cargando, instr'.pc \notin Cargando
  PROVE  Volcables' /\ ArbolSigue
<1>1. Escritas(arbol, tablas, marcos, {}, escrito, SoloEscritos, Iguales, DeUnaPagina)
  BY VolcablesDe
<1>2. PICK t, mem, esc, esc2 : t = tablas /\ mem = marcos /\ esc = escrito /\ esc2 = escrito'
  OBVIOUS
<1>3. tablas' = t /\ marcos' = mem
  BY <1>2 DEF memoria
<1>4. /\ Escritas(arbol, t, mem, {}, esc, SoloEscritos, Iguales, DeUnaPagina)
      /\ \A ft \in DeUnaPagina : esc2[ft] = esc[ft]
  BY <1>1, <1>2
<1>5. Escritas(arbol', t, mem, {}, esc2, SoloEscritos, Iguales, DeUnaPagina)
  BY <1>4, EscritosFijos, RetocaEscritas
<1>6. Escritas(arbol', tablas', marcos', {}, escrito', SoloEscritos, Iguales, DeUnaPagina)
  BY <1>2, <1>3, <1>5
<1>7. actual' \in Destinos[guion]
  BY DEF Volcables
<1> QED
  BY <1>6, <1>7, VolcablesEs, ConservaSigue

-----------------------------------------------------------------------------
(* The last bytes written, and the instruction at hand.                    *)

\* Trabaja's account of what was written.
Anota ==
  escrito' = IF EscribioPagina THEN [escrito EXCEPT ![instr.p.ft] = instr.p.datos] ELSE escrito

\* Only the file:tag of the instruction gets another account.
LEMMA AnotaTipo ==
  ASSUME TypeOK, escrito \in [FileTags -> Seq(Bytes)], Anota
  PROVE  /\ escrito' \in [FileTags -> Seq(Bytes)]
         /\ \A ft \in FileTags : ft # instr.p.ft => escrito'[ft] = escrito[ft]
         /\ EscribioPagina => escrito'[instr.p.ft] = instr.p.datos
         /\ ~EscribioPagina => escrito' = escrito
<1>1. instr.p.ft \in FileTags /\ instr.p.datos \in Seq(Bytes)
  BY TurnoTipo, InstruccionTipo
<1> QED
  BY <1>1 DEF Anota

\* A file:tag of one page has no use but WRITE and FLUSH, the WRITEs of all
\* the page.
LEMMA DeUnaPaginaUso ==
  ASSUME NEW p \in guion, p.ft \in DeUnaPagina
  PROVE  /\ p.op \in {"WRITE", "FLUSH"}
         /\ p.op = "WRITE" => p.dir = 0 /\ Len(p.datos) = SizeBlock
BY UsoDe DEF DeUnaPagina, SoloEscritos

\* The access to the only page ends the instruction.
LEMMA AccesoUltimo ==
  ASSUME NEW t, NEW mem, Accede(t, mem), instr.quedan = 1
  PROVE  instr'.pc = "interrupcion"
<1>1. AccedeA(t, mem)
  BY DEF Accede, SinAcceso
<1>2. instr' = [Ociosa EXCEPT
                 !.pc = "interrupcion",
                 !.p = instr.p, !.pag = instr.pag + 1, !.quedan = instr.quedan - 1,
                 !.datos = Sobrante(instr.desp, instr.datos), !.tam = Resto(instr.tam, instr.desp),
                 !.lectura = IF EsEscritura THEN <<>>
                   ELSE instr.lectura \o Leido(mem[t[instr.p.ft][instr.pag + 1].marco], instr.desp, instr.tam)]
  BY <1>1 DEF AccedeA
<1>3. \E p, pag, quedan, datos, tam, lectura :
        instr' = [Ociosa EXCEPT !.pc = "interrupcion", !.p = p, !.pag = pag, !.quedan = quedan,
                                !.datos = datos, !.tam = tam, !.lectura = lectura]
  BY <1>2
<1> QED
  BY <1>3, OciosaTipo DEF Turno

\* An access to a page of a file:tag of one page is the whole WRITE.
LEMMA EscritoAcceso ==
  ASSUME TypeOK, Encargo, escrito \in [FileTags -> Seq(Bytes)], Anota,
         instr.pc \in {"pagina"} \cup Cargando, NEW t, NEW mem, Accede(t, mem)
  PROVE  /\ escrito' \in [FileTags -> Seq(Bytes)]
         /\ \A ft \in DeUnaPagina \ {Nueva.ft} : escrito'[ft] = escrito[ft]
         /\ Nueva.ft \in DeUnaPagina =>
              /\ EsEscritura /\ Nueva.n = 0 /\ instr.quedan > 0 /\ instr.desp = 0
              /\ Len(instr.datos) = SizeBlock /\ escrito'[Nueva.ft] = instr.datos
<1>1. Nueva.ft = instr.p.ft /\ Nueva.n = instr.pag
  BY TurnoTipo
<1>2. /\ escrito' \in [FileTags -> Seq(Bytes)]
      /\ \A ft \in FileTags : ft # instr.p.ft => escrito'[ft] = escrito[ft]
      /\ EscribioPagina => escrito'[instr.p.ft] = instr.p.datos
  BY AnotaTipo
<1>3. \A ft \in DeUnaPagina : ft \in FileTags
  BY DEF DeUnaPagina, SoloEscritos
<1>4. ASSUME Nueva.ft \in DeUnaPagina
      PROVE  /\ EsEscritura /\ Nueva.n = 0 /\ instr.quedan > 0 /\ instr.desp = 0
             /\ Len(instr.datos) = SizeBlock /\ escrito'[Nueva.ft] = instr.datos
  <2>1. /\ EsEscritura /\ instr.p.dir = 0
        /\ Len(instr.p.datos) = SizeBlock /\ instr.datos = instr.p.datos
        /\ instr.pag = 0 /\ instr.desp = 0 /\ instr.quedan = 1
    BY <1>1, <1>4 DEF Encargo
  <2>2. instr'.pc = "interrupcion"
    BY <2>1, AccesoUltimo
  <2>3. EscribioPagina
    BY <2>1, <2>2 DEF EscribioPagina, EsEscritura, Cargando
  <2> QED
    BY <1>1, <1>2, <2>1, <2>3
<1> QED
  BY <1>1, <1>2, <1>3, <1>4

\* The other steps write no page of them.
LEMMA EscritoQuieto ==
  ASSUME TypeOK, Papel, Encargo, escrito \in [FileTags -> Seq(Bytes)], Anota,
         \/ Recibe \/ LeeBloque \/ EligeLRU \/ EligeClockM \/ RelojMira \/ FallaTablaLiberada
         \/ PaginaInicialSinValor \/ PersistePagina \/ TerminaTabla \/ TerminaPersistir
         \/ EnviaCommit \/ Interrumpe \/ ConfirmaDesalojo \/ instr' = instr
  PROVE  /\ escrito' \in [FileTags -> Seq(Bytes)]
         /\ \A ft \in DeUnaPagina : escrito'[ft] = escrito[ft]
<1>1. /\ escrito' \in [FileTags -> Seq(Bytes)]
      /\ \A ft \in FileTags : ft # instr.p.ft => escrito'[ft] = escrito[ft]
      /\ ~EscribioPagina => escrito' = escrito
  BY AnotaTipo
<1>2. EscribioPagina => instr.p.ft \notin DeUnaPagina
  <2> SUFFICES ASSUME instr.pc # "interrupcion", instr'.pc = "interrupcion", instr.p.op = "WRITE",
                      instr.p.ft \in DeUnaPagina
               PROVE  FALSE
    BY DEF EscribioPagina
  <2>0. instr'.pc # instr.pc
    OBVIOUS
  <2>1. Fin.op = "END"
    BY DEF Fin
  <2>2. instr.pc \notin {"libre", "persistir", "commit", "sinPagina"}
    BY <2>1 DEF Encargo, Papel
  <2>3. CASE Recibe
    BY <2>2, <2>3 DEF Recibe, Directa, ComienzaAcceso, ComienzaPersistir, En
  <2>4. CASE PaginaInicialSinValor \/ PersistePagina \/ TerminaTabla \/ TerminaPersistir
             \/ EnviaCommit \/ Interrumpe
    BY <2>2, <2>4 DEF PaginaInicialSinValor, PersistePagina, TerminaTabla, TerminaPersistir,
       EnviaCommit, Interrumpe, En
  <2>5. CASE ConfirmaDesalojo
    BY <2>5, OciosaTipo DEF ConfirmaDesalojo
  <2>6. CASE FallaTablaLiberada \/ instr' = instr
    BY <2>0, <2>6 DEF FallaTablaLiberada
  <2>7. CASE LeeBloque
    <3>1. instr'.pc \in {"asignar", "libre"}
      BY <2>7, ErrorTipo, TurnoTipo DEF LeeBloque, Turno
    <3> QED
      BY <3>1
  <2>8. CASE EligeLRU \/ EligeClockM \/ RelojMira
    <3>1. instr'.pc \in {"reloj", "liberar"}
      BY <2>8, TurnoTipo DEF EligeLRU, EligeClockM, RelojMira, Va, En, Turno
    <3> QED
      BY <3>1
  <2> QED
    BY <2>3, <2>4, <2>5, <2>6, <2>7, <2>8
<1>3. \A ft \in DeUnaPagina : ft \in FileTags
  BY DEF DeUnaPagina, SoloEscritos
<1> QED
  BY <1>1, <1>2, <1>3

\* One page is needed for the bytes of one.
LEMMA NecesariosUno == MarcosNecesarios(SizeBlock) = 1 /\ 0 \div SizeBlock = 0 /\ 0 % SizeBlock = 0
<1>1. PICK s \in Nat \ {0} : s = SizeBlock
  BY MemoriaAssumption
<1>2. (s + s - 1) \div s = 1 /\ 0 \div s = 0 /\ 0 % s = 0
  OBVIOUS
<1> QED
  BY <1>1, <1>2 DEF MarcosNecesarios

-----------------------------------------------------------------------------
(* Each step keeps them.                                                   *)

\* A page of what is only written is written.
LEMMA EscribeSolo ==
  ASSUME Papel, instr.pc \in {"pagina"} \cup Cargando, instr.p.ft \in SoloEscritos
  PROVE  EsEscritura /\ "WRITE" \in Usos(instr.p.ft)
<1>1. instr.p \in guion /\ instr.p.op \in {"READ", "WRITE"}
  BY DEF Papel
<1>2. instr.p.op \in Usos(instr.p.ft)
  BY <1>1, UsoDe
<1> QED
  BY <1>1, <1>2 DEF SoloEscritos, EsEscritura

\* Less is asked of the file:tag at hand.
LEMMA EscritasMenos ==
  ASSUME NEW archivos, NEW t, NEW mem, NEW esc, NEW S, NEW L \in SUBSET S, NEW D \in SUBSET S,
         S \subseteq FileTags, Escritas(archivos, t, mem, {}, esc, S, L, D), NEW e \in Entradas
  PROVE  Escritas(archivos, t, mem, {e}, esc, S, L, D \ {e.ft})
<1>1. AceptanDe(archivos, t, {e}, S) /\ LimpiasIguales(archivos, t, mem, {e}, L)
  BY DEF Escritas, AceptanDe, LimpiasIguales, EnMarco
<1>2. ASSUME NEW ft \in D \ {e.ft}
      PROVE  /\ UnaPagina(t, ft) /\ Guardado(archivos, t, mem, {e}, esc, ft)
             /\ esc[ft] # <<>> => Acepta(archivos, Primera(ft))
  <2>1. /\ UnaPagina(t, ft) /\ Guardado(archivos, t, mem, {}, esc, ft)
        /\ esc[ft] # <<>> => Acepta(archivos, Primera(ft))
    BY DEF Escritas
  <2>2. Primera(ft) # e
    BY PrimeraTipo
  <2>3. Sucia(t, {e}, ft) <=> Sucia(t, {}, ft)
    BY <2>2 DEF Sucia, EnMarco
  <2> QED
    BY <2>1, <2>3 DEF Guardado
<1> QED
  BY <1>1, <1>2 DEF Escritas

\* A page in its frame is accessed.
LEMMA AccedePresenteVolcable ==
  ASSUME MemoriaBien, Papel, Volcables, Encargo, Anota, actual' = actual, AccedePresente
  PROVE  Volcables' /\ ArbolSigue
<1>1. /\ Tiene(tablas, Nueva) /\ Pag(tablas, Nueva).precencia /\ AccedeA(tablas, marcos)
      /\ TypeOK /\ tablas \in Tablas /\ marcos \in [Marcos -> Contenidos]
  BY PresenteDe, TipoDe DEF AccedePresente, MemoriaBien
<1>2. EfectoAcceso(tablas, marcos)
  BY <1>1, AccesoEfecto
<1>3. guion' = guion /\ arbol' = arbol /\ instr.pc = "pagina" /\ instr.pc \notin Cargando
  BY DEF AccedePresente, En, Cargando
<1>4. MarcosBien(tablas, bitmap, {})
  BY <1>3, QuietoDe DEF MemoriaBien
<1>5. PICK a \in Entradas : a = Nueva /\ a.ft = instr.p.ft
  BY <1>1, TurnoTipo
<1>6. PICK S \in SUBSET FileTags : S = SoloEscritos
  BY DEF SoloEscritos
<1>7. PICK L \in SUBSET S, D \in SUBSET S : L = Iguales /\ D = DeUnaPagina
  BY <1>3, <1>6, EscritosFijos
<1>8. PICK t \in Tablas, mem \in [Marcos -> Contenidos] : t = tablas /\ mem = marcos
  BY <1>1
<1>9. PICK archivos, esc, esc2, usados :
        archivos = arbol /\ esc = escrito /\ esc2 = escrito' /\ usados = bitmap
  OBVIOUS
<1>10. Escritas(archivos, t, mem, {}, esc, S, L, D)
  BY <1>3, <1>6, <1>7, <1>8, <1>9, VolcablesDe
<1>11. /\ EfectoAcceso(t, mem) /\ MarcosBien(t, usados, {}) /\ Tiene(t, Nueva)
       /\ Pag(t, Nueva).precencia
  BY <1>1, <1>2, <1>4, <1>8, <1>9
<1>12. Escritas(archivos, t, mem, {Nueva}, esc, S, L, D \ {Nueva.ft})
  BY <1>5, <1>10, EscritasMenos
<1>13. Nueva.ft \in S => /\ EsEscritura /\ Acepta(archivos, Nueva)
                         /\ instr.quedan > 0 \/ Pag(t, Nueva).modificada
  <2> SUFFICES ASSUME a.ft \in S
               PROVE  EsEscritura /\ Acepta(archivos, a) /\ instr.quedan > 0
    BY <1>5
  <2>1. EsEscritura /\ instr.quedan > 0
    BY <1>1, <1>3, <1>5, <1>6, EscribeSolo DEF AccedeA
  <2>2. a \in EnMarco(t, {})
    BY <1>5, <1>11 DEF EnMarco
  <2> QED
    BY <1>10, <2>1, <2>2 DEF Escritas, AceptanDe
<1>14. /\ escrito' \in [FileTags -> Seq(Bytes)]
       /\ \A ft \in DeUnaPagina \ {Nueva.ft} : escrito'[ft] = escrito[ft]
       /\ Nueva.ft \in DeUnaPagina =>
            /\ EsEscritura /\ Nueva.n = 0 /\ instr.quedan > 0 /\ instr.desp = 0
            /\ Len(instr.datos) = SizeBlock /\ escrito'[Nueva.ft] = instr.datos
  BY <1>1, <1>3, EscritoAcceso DEF Accede, Volcables
<1>15. Nueva.ft \in D => /\ UnaPagina(t, Nueva.ft) /\ instr.quedan > 0 /\ instr.desp = 0
                         /\ Len(instr.datos) = SizeBlock /\ esc2[Nueva.ft] = instr.datos
  BY <1>7, <1>9, <1>10, <1>14 DEF Escritas
<1>16. \A ft \in D \ {Nueva.ft} : esc2[ft] = esc[ft]
  BY <1>7, <1>9, <1>14
<1>17. Escritas(archivos, tablas', marcos', {}, esc2, S, L, D)
  BY <1>1, <1>11, <1>12, <1>13, <1>15, <1>16, AccesoEscritas
<1>18. Escritas(arbol', tablas', marcos', {}, escrito', SoloEscritos, Iguales, DeUnaPagina)
  BY <1>3, <1>6, <1>7, <1>9, <1>17
<1>19. instr'.pc \notin Cargando
  BY <1>2 DEF EfectoAcceso, Cargando
<1>20. SinComitear(arbol') /\ actual' \in Destinos[guion]
  BY <1>3 DEF Volcables
<1> QED
  BY <1>3, <1>14, <1>18, <1>19, <1>20, VolcablesEs DEF ArbolSigue

\* A page that is not in memory is asked for.
LEMMA LeeBloqueVolcable ==
  ASSUME MemoriaBien, Papel, Volcables, Encargo, Anota, actual' = actual, LeeBloque
  PROVE  Volcables' /\ ArbolSigue
<1>1. guion' = guion /\ arbol' = arbol /\ marcos' = marcos /\ instr.pc = "pagina"
      /\ instr.pc \notin Cargando /\ UNCHANGED <<global, bitmap, puntero>> /\ TypeOK
  BY DEF LeeBloque, En, MemoriaBien, Cargando
<1>2. /\ escrito' \in [FileTags -> Seq(Bytes)]
      /\ \A ft \in DeUnaPagina : escrito'[ft] = escrito[ft]
  BY <1>1, EscritoQuieto DEF Volcables
<1>3. SinComitear(arbol') /\ actual' \in Destinos[guion] /\ SinComitear(arbol)
  BY <1>1 DEF Volcables
<1>4. CASE Error /\ tablas' = tablas
  <2>1. UNCHANGED memoria /\ instr'.pc \notin Cargando
    BY <1>1, <1>4, ErrorTipo DEF memoria, Cargando
  <2>2. Conserva(arbol, arbol', SoloEscritos)
    BY <1>1 DEF Conserva
  <2> QED
    BY <1>1, <1>2, <1>3, <2>1, <2>2, VolcablesQuieta
<1>5. CASE ~(Error /\ tablas' = tablas)
  <2>1. /\ ~EsPresente /\ HayBloque(instr.p.ft, instr.pag)
        /\ instr'.pc = "asignar" /\ Nueva' = Nueva
        /\ \A f \in Entradas : Tiene(tablas', f) <=> Tiene(tablas, f)
        /\ \A f \in Entradas : Tiene(tablas, f) /\ f # Nueva => Pag(tablas', f) = Pag(tablas, f)
        /\ Tiene(tablas, Nueva) => Pag(tablas', Nueva).modificada = EsEscritura
    BY <1>5, LeeEfecto
  <2>2. PICK a \in Entradas : a = Nueva /\ a.ft = instr.p.ft /\ a.n = instr.pag
    BY <1>1, TurnoTipo
  <2>3. ~(Tiene(tablas, a) /\ Pag(tablas, a).precencia)
    BY <1>1, <2>1, <2>2, PresenteDe
  <2>4. PICK t, u, archivos, mem, esc, esc2 :
          /\ t = tablas /\ u = tablas' /\ archivos = arbol /\ mem = marcos
          /\ esc = escrito /\ esc2 = escrito'
    OBVIOUS
  <2>5. EnMarco(u, {a}) = EnMarco(t, {})
    BY <2>1, <2>2, <2>3, <2>4 DEF EnMarco
  <2>6. \A f \in EnMarco(t, {}) : /\ Pag(u, f).marco = Pag(t, f).marco
                                  /\ Pag(u, f).modificada = Pag(t, f).modificada
    BY <2>1, <2>2, <2>3, <2>4 DEF EnMarco
  <2>7. PICK S \in SUBSET FileTags : S = SoloEscritos
    BY DEF SoloEscritos
  <2>8. PICK L \in SUBSET S, D \in SUBSET S : L = Iguales /\ D = DeUnaPagina
    BY <1>1, <2>7, EscritosFijos
  <2>9. Escritas(archivos, t, mem, {}, esc, S, L, D)
    BY <1>1, <2>4, <2>7, <2>8, VolcablesDe
  <2>10. \A f \in Entradas : Tiene(u, f) => Tiene(t, f)
    BY <2>1, <2>4
  <2>11. Conserva(archivos, archivos, S) /\ \A ft \in D : esc2[ft] = esc[ft]
    BY <1>2, <2>4, <2>8 DEF Conserva
  <2>12. Escritas(archivos, u, mem, {a}, esc2, S, L, D)
    BY <2>5, <2>6, <2>9, <2>10, <2>11, RetocaEscritas
  <2>13. Escritas(arbol', tablas', marcos', {Nueva}, escrito', SoloEscritos, Iguales, DeUnaPagina)
    BY <1>1, <2>2, <2>4, <2>7, <2>8, <2>12
  <2>14. ASSUME Nueva.ft \in SoloEscritos
         PROVE  /\ Acepta(arbol', Nueva)
                /\ Tiene(tablas', Nueva) => Pag(tablas', Nueva).modificada
    <3>1. EsEscritura /\ "WRITE" \in Usos(a.ft) /\ a.ft \in SoloEscritos
      BY <1>1, <2>2, <2>14, EscribeSolo
    <3>2. arbol[a.ft] # NoHay /\ a.n < Len(arbol[a.ft].datos) /\ arbol[a.ft].estado # "COMMITED"
      BY <1>3, <2>1, <2>2, <3>1 DEF HayBloque, SinComitear
    <3>3. Acepta(arbol, a)
      BY <3>2 DEF Acepta, Hay
    <3> QED
      BY <1>1, <2>1, <2>2, <3>1, <3>3
  <2> QED
    BY <1>1, <1>2, <1>3, <2>1, <2>13, <2>14, VolcablesCargandoEs DEF ArbolSigue, Cargando
<1> QED
  BY <1>4, <1>5

\* The flags change, during a load.
LEMMA RetocaVolcable ==
  ASSUME TypeOK, Volcables, guion' = guion, actual' = actual, arbol' = arbol, marcos' = marcos,
         instr.pc \in Cargando, instr'.pc \in Cargando, Nueva' = Nueva, Retocadas(tablas, tablas'),
         \A f \in Entradas : Tiene(tablas, f) => Pag(tablas', f).modificada = Pag(tablas, f).modificada,
         escrito' \in [FileTags -> Seq(Bytes)], \A ft \in DeUnaPagina : escrito'[ft] = escrito[ft]
  PROVE  Volcables' /\ ArbolSigue
<1>1. /\ Escritas(arbol, tablas, marcos, {Nueva}, escrito, SoloEscritos, Iguales, DeUnaPagina)
      /\ Nueva.ft \in SoloEscritos =>
           /\ Acepta(arbol, Nueva)
           /\ Tiene(tablas, Nueva) => Pag(tablas, Nueva).modificada
  BY VolcablesCargandoDe
<1>2. PICK a \in Entradas : a = Nueva
  BY TurnoTipo
<1>3. PICK t, u, archivos, mem, esc, esc2 :
        /\ t = tablas /\ u = tablas' /\ archivos = arbol /\ mem = marcos
        /\ esc = escrito /\ esc2 = escrito'
  OBVIOUS
<1>4. PICK S \in SUBSET FileTags : S = SoloEscritos
  BY DEF SoloEscritos
<1>5. PICK L \in SUBSET S, D \in SUBSET S : L = Iguales /\ D = DeUnaPagina
  BY <1>4, EscritosFijos
<1>6. Retocadas(t, u) /\ \A f \in Entradas : Tiene(t, f) => Pag(u, f).modificada = Pag(t, f).modificada
  BY <1>3
<1>7. EnMarco(u, {a}) = EnMarco(t, {a})
  BY <1>6 DEF EnMarco, Retocadas
<1>8. /\ \A f \in EnMarco(t, {a}) : /\ Pag(u, f).marco = Pag(t, f).marco
                                    /\ Pag(u, f).modificada = Pag(t, f).modificada
      /\ \A f \in Entradas : Tiene(u, f) => Tiene(t, f)
  BY <1>6 DEF EnMarco, Retocadas
<1>9. Escritas(archivos, t, mem, {a}, esc, S, L, D)
  BY <1>1, <1>2, <1>3, <1>4, <1>5
<1>10. Conserva(archivos, archivos, S) /\ \A ft \in D : esc2[ft] = esc[ft]
  BY <1>3, <1>5 DEF Conserva
<1>11. Escritas(archivos, u, mem, {a}, esc2, S, L, D)
  BY <1>7, <1>8, <1>9, <1>10, RetocaEscritas
<1>12. Escritas(arbol', tablas', marcos', {Nueva}, escrito', SoloEscritos, Iguales, DeUnaPagina)
  BY <1>2, <1>3, <1>4, <1>5, <1>11
<1>13. Nueva.ft \in SoloEscritos =>
         /\ Acepta(arbol', Nueva)
         /\ Tiene(tablas', Nueva) => Pag(tablas', Nueva).modificada
  BY <1>1, <1>2, <1>3, <1>6 DEF Retocadas
<1>14. SinComitear(arbol') /\ actual' \in Destinos[guion]
  BY DEF Volcables
<1> QED
  BY <1>12, <1>13, <1>14, VolcablesCargandoEs DEF ArbolSigue

\* A load ends in an access.
LEMMA CargaAccede ==
  ASSUME TypeOK, NEW t \in Tablas, NEW m \in Marcos, Carga(t, global, m)
  PROVE  /\ \E u, mem : Accede(u, mem)
         /\ instr'.pc \in {"interrupcion", "pagina", "sinPagina"} /\ instr'.p = instr.p
<1>1. \E u, mem : Accede(u, mem)
  BY DEF Carga
<1>2. PICK u, mem : EfectoAcceso(u, mem)
  BY CargaEfecto
<1> QED
  BY <1>1, <1>2 DEF EfectoAcceso

\* A free frame gets the page.
LEMMA AsignaLibreVolcable ==
  ASSUME MemoriaBien, Papel, Volcables, Encargo, Anota, actual' = actual, AsignaLibre
  PROVE  Volcables' /\ ArbolSigue
<1>1. PICK m \in Marcos : m \notin bitmap /\ Carga(tablas, global, m)
  BY DEF AsignaLibre
<1>2. guion' = guion /\ arbol' = arbol /\ instr.pc = "asignar" /\ instr.pc \in Cargando
      /\ TypeOK /\ tablas \in Tablas
  BY TipoDe DEF AsignaLibre, En, MemoriaBien, Cargando
<1>3. MarcosBien(tablas, bitmap, {Nueva}) /\ (Tiene(tablas, Nueva) => Pag(tablas, Nueva).precencia)
  BY <1>2, CargandoDe DEF MemoriaBien
<1>4. /\ Escritas(arbol, tablas, marcos, {Nueva}, escrito, SoloEscritos, Iguales, DeUnaPagina)
      /\ Nueva.ft \in SoloEscritos =>
           /\ Acepta(arbol, Nueva)
           /\ Tiene(tablas, Nueva) => Pag(tablas, Nueva).modificada
  BY <1>2, VolcablesCargandoDe
<1>5. Nueva.ft \in SoloEscritos => EsEscritura
  BY <1>2, EscribeSolo, TurnoTipo
<1>6. PICK archivos, esc, esc2, usados :
        archivos = arbol /\ esc = escrito /\ esc2 = escrito' /\ usados = bitmap
  OBVIOUS
<1>7. PICK t \in Tablas, S \in SUBSET FileTags : t = tablas /\ S = SoloEscritos
  BY <1>2 DEF SoloEscritos
<1>8. PICK L \in SUBSET S, D \in SUBSET S : L = Iguales /\ D = DeUnaPagina
  BY <1>2, <1>7, EscritosFijos
<1>9. /\ \E u, mem : Accede(u, mem)
      /\ instr'.pc \in {"interrupcion", "pagina", "sinPagina"}
  BY <1>1, <1>2, CargaAccede
<1>10. /\ escrito' \in [FileTags -> Seq(Bytes)]
       /\ \A ft \in DeUnaPagina \ {Nueva.ft} : escrito'[ft] = escrito[ft]
       /\ Nueva.ft \in DeUnaPagina =>
            /\ EsEscritura /\ Nueva.n = 0 /\ instr.quedan > 0 /\ instr.desp = 0
            /\ Len(instr.datos) = SizeBlock /\ escrito'[Nueva.ft] = instr.datos
  BY <1>2, <1>9, EscritoAcceso DEF Volcables
<1>11. /\ Carga(t, global, m) /\ MarcosBien(t, usados, {Nueva}) /\ m \notin usados
       /\ Tiene(t, Nueva) => Pag(t, Nueva).precencia
       /\ Escritas(archivos, t, marcos, {Nueva}, esc, S, L, D)
  BY <1>1, <1>3, <1>4, <1>6, <1>7, <1>8
<1>12. /\ Nueva.ft \in S => /\ EsEscritura /\ Acepta(archivos, Nueva)
                            /\ Tiene(t, Nueva) => Pag(t, Nueva).modificada
       /\ Nueva.ft \in D => /\ Nueva.n = 0 /\ instr.quedan > 0 /\ instr.desp = 0
                            /\ Len(instr.datos) = SizeBlock /\ esc2[Nueva.ft] = instr.datos
       /\ \A ft \in D \ {Nueva.ft} : esc2[ft] = esc[ft]
  BY <1>4, <1>5, <1>6, <1>7, <1>8, <1>10
<1>13. Escritas(archivos, tablas', marcos', {}, esc2, S, L, D)
  BY <1>2, <1>11, <1>12, CargaEscritas
<1>14. Escritas(arbol', tablas', marcos', {}, escrito', SoloEscritos, Iguales, DeUnaPagina)
  BY <1>2, <1>6, <1>7, <1>8, <1>13
<1>15. instr'.pc \notin Cargando
  BY <1>9 DEF Cargando
<1>16. SinComitear(arbol') /\ actual' \in Destinos[guion]
  BY <1>2 DEF Volcables
<1> QED
  BY <1>2, <1>10, <1>14, <1>15, <1>16, VolcablesEs DEF ArbolSigue

\* The table that was growing is gone: nothing in memory changes.
LEMMA FallaVolcable ==
  ASSUME MemoriaBien, Papel, Volcables, Encargo, Anota, actual' = actual, FallaTablaLiberada
  PROVE  Volcables' /\ ArbolSigue
<1>1. PICK e \in Entradas : e = instr.victima
  BY TurnoTipo DEF MemoriaBien
<1>2. /\ guion' = guion /\ UNCHANGED memoria /\ instr' = instr /\ instr.pc = "liberar"
      /\ instr.pc \in Cargando /\ instr'.pc \in Cargando /\ DevuelveBloque(e) /\ TypeOK
  BY <1>1 DEF FallaTablaLiberada, MemoriaBien, Cargando
<1>3. MarcosBien(tablas, bitmap, {Nueva}) /\ e \in EnMarco(tablas, {Nueva})
  BY <1>1, <1>2, LiberarDe DEF MemoriaBien
<1>4. /\ Escritas(arbol, tablas, marcos, {Nueva}, escrito, SoloEscritos, Iguales, DeUnaPagina)
      /\ Nueva.ft \in SoloEscritos =>
           /\ Acepta(arbol, Nueva)
           /\ Tiene(tablas, Nueva) => Pag(tablas, Nueva).modificada
  BY <1>2, VolcablesCargandoDe
<1>5. SinComitear(arbol) /\ actual' \in Destinos[guion] /\ escrito \in [FileTags -> Seq(Bytes)]
  BY <1>2 DEF Volcables
<1>6. escrito' = escrito
  BY <1>2, <1>5, AnotaTipo DEF EscribioPagina
<1>7. PICK a \in Entradas : a = Nueva
  BY <1>2, TurnoTipo
<1>8. PICK S \in SUBSET FileTags : S = SoloEscritos
  BY DEF SoloEscritos
<1>9. PICK L \in SUBSET S, D \in SUBSET S : L = Iguales /\ D = DeUnaPagina
  BY <1>8, EscritosFijos, <1>2
<1>10. PICK fuera, usados, esc : fuera = {a} /\ usados = bitmap /\ esc = escrito
  OBVIOUS
<1>11. /\ MarcosBien(tablas, usados, fuera) /\ e \in EnMarco(tablas, fuera)
       /\ Escritas(arbol, tablas, marcos, fuera, esc, S, L, D)
  BY <1>3, <1>4, <1>7, <1>8, <1>9, <1>10
<1>12. /\ Escritas(arbol', tablas, marcos, fuera, esc, S, L, D)
       /\ MismosBloques(arbol, arbol')
  BY <1>2, <1>5, <1>11, DevuelveEscritas
<1>13. SinComitear(arbol') /\ ArbolSigue
  BY <1>5, <1>12, MismosSigue
<1>14. Nueva' = Nueva /\ tablas' = tablas /\ marcos' = marcos
  BY <1>2 DEF Nueva, memoria
<1>15. Escritas(arbol', tablas', marcos', {Nueva}, escrito', SoloEscritos, Iguales, DeUnaPagina)
  BY <1>6, <1>7, <1>8, <1>9, <1>10, <1>12, <1>14
<1>16. Nueva.ft \in SoloEscritos =>
         /\ Acepta(arbol', Nueva)
         /\ Tiene(tablas', Nueva) => Pag(tablas', Nueva).modificada
  BY <1>4, <1>7, <1>12, <1>14 DEF MismosBloques
<1> QED
  BY <1>2, <1>5, <1>6, <1>13, <1>14, <1>15, <1>16, VolcablesCargandoEs

\* A page is flushed.
LEMMA PersisteVolcable ==
  ASSUME MemoriaBien, Papel, Volcables, Encargo, Anota, actual' = actual, PersistePagina
  PROVE  Volcables' /\ ArbolSigue
<1>1. PICK e \in Entradas, q \in Pagina :
           /\ Tiene(tablas, e) /\ Pag(tablas, e).modificada
           /\ q = [Pag(tablas, e) EXCEPT !.modificada = FALSE]
           /\ tablas' = Pone(tablas, e, q)
           /\ EscribeBloque(e.ft, e.n, Pag(tablas, e).marco)
           /\ IF AceptaBloque(e.ft, e.n) THEN UNCHANGED instr ELSE Error
  BY PersisteEfecto
<1>2. guion' = guion /\ marcos' = marcos /\ instr.pc = "persistir" /\ instr.pc \notin Cargando /\ TypeOK
  BY DEF PersistePagina, En, Cargando, MemoriaBien
<1>3. instr'.pc \notin Cargando /\ instr'.pc # "interrupcion"
  BY <1>1, <1>2, ErrorTipo DEF Cargando
<1>4. SinComitear(arbol) /\ actual' \in Destinos[guion] /\ escrito \in [FileTags -> Seq(Bytes)]
  BY <1>2 DEF Volcables
<1>5. escrito' = escrito
  BY <1>2, <1>3, <1>4, AnotaTipo DEF EscribioPagina
<1>6. PICK S \in SUBSET FileTags : S = SoloEscritos
  BY DEF SoloEscritos
<1>7. PICK L \in SUBSET S, D \in SUBSET S : L = Iguales /\ D = DeUnaPagina
  BY <1>2, <1>6, EscritosFijos
<1>8. PICK fuera, usados, esc : fuera = {} /\ usados = bitmap /\ esc = escrito
  OBVIOUS
<1>9. MarcosBien(tablas, usados, fuera) /\ Escritas(arbol, tablas, marcos, fuera, esc, S, L, D)
  BY <1>2, <1>6, <1>7, <1>8, QuietoDe, VolcablesDe DEF MemoriaBien
<1>10. e \in EnMarco(tablas, fuera) /\ e.n \in Nat
  BY <1>1, <1>8, <1>9 DEF MarcosBien, EnMarco, Entradas
<1>11. /\ Escritas(arbol', tablas, marcos, fuera, esc, S, L, D)
       /\ MismosBloques(arbol, arbol')
       /\ e.ft \in S => arbol'[e.ft].datos[e.n + 1] = marcos[Pag(tablas, e).marco]
  <2>1. PICK n \in Nat : n = e.n
    BY <1>10
  <2>2. EscribeBloque(e.ft, n, Pag(tablas, e).marco)
    BY <1>1, <2>1
  <2>3. /\ Escritas(arbol', tablas, marcos, fuera, esc, S, L, D)
        /\ MismosBloques(arbol, arbol')
        /\ n = e.n /\ e.ft \in S =>
             arbol'[e.ft].datos[e.n + 1] = marcos[Pag(tablas, e).marco]
    BY <1>1, <1>2, <1>9, <1>10, <2>1, <2>2, BloqueEscritas
  <2> QED
    BY <2>1, <2>3
<1>12. PICK t \in Tablas : t = tablas
  BY <1>2, TipoDe
<1>13. PICK u, archivos, mem : u = tablas' /\ archivos = arbol' /\ mem = marcos
  OBVIOUS
<1>14. /\ Pone(t, e, q) \in Tablas
       /\ \A f \in Entradas : Tiene(Pone(t, e, q), f) <=> Tiene(t, f)
       /\ \A f \in Entradas : Tiene(t, f) => Pag(Pone(t, e, q), f) = IF f = e THEN q ELSE Pag(t, f)
  <2>1. Tiene(t, e)
    BY <1>1, <1>12
  <2> QED
    BY <2>1, PoneEfecto
<1>15. u = Pone(t, e, q)
  BY <1>1, <1>12, <1>13
<1>16. q.marco = Pag(t, e).marco /\ q.precencia = Pag(t, e).precencia /\ ~q.modificada
  <2>1. Pag(t, e) \in Pagina
    BY <1>1, <1>12, PagTipo
  <2> QED
    BY <1>1, <1>12, <2>1 DEF Pagina
<1>17. e \in EnMarco(t, fuera) /\ EnMarco(u, fuera) \cup {e} = EnMarco(t, fuera)
  BY <1>10, <1>12, <1>14, <1>15, <1>16 DEF EnMarco
<1>18. /\ \A f \in EnMarco(t, fuera) : f # e => Pag(u, f) = Pag(t, f)
       /\ e \in EnMarco(u, fuera) => ~Pag(u, e).modificada /\ Pag(u, e).marco = Pag(t, e).marco
       /\ \A f \in Entradas : Tiene(u, f) => Tiene(t, f)
  BY <1>14, <1>15, <1>16 DEF EnMarco
<1>19. /\ Escritas(archivos, t, mem, fuera, esc, S, L, D)
       /\ e.ft \in S => archivos[e.ft].datos[e.n + 1] = mem[Pag(t, e).marco]
  BY <1>11, <1>12, <1>13
<1>20. Escritas(archivos, u, mem, fuera, esc, S, L, D)
  BY <1>17, <1>18, <1>19, LimpiaEscritas
<1>21. Escritas(arbol', tablas', marcos', {}, escrito', SoloEscritos, Iguales, DeUnaPagina)
  BY <1>2, <1>5, <1>6, <1>7, <1>8, <1>13, <1>20
<1>22. SinComitear(arbol') /\ ArbolSigue
  BY <1>4, <1>11, MismosSigue
<1> QED
  BY <1>2, <1>3, <1>4, <1>5, <1>21, <1>22, VolcablesEs

\* A victim goes to the Storage and its frame gets the page.
LEMMA LiberaVolcable ==
  ASSUME MemoriaBien, Papel, Volcables, Encargo, Anota, actual' = actual, LiberaYCarga
  PROVE  Volcables' /\ ArbolSigue
<1>1. PICK e \in Entradas : e = instr.victima
  BY TurnoTipo DEF MemoriaBien
<1>2. /\ guion' = guion /\ instr.pc = "liberar" /\ instr.pc \in Cargando /\ TypeOK
      /\ DevuelveBloque(e) /\ Carga(TrasLiberar(e), global, Pag(tablas, e).marco)
  BY <1>1 DEF LiberaYCarga, En, LaPagina, Pag, MemoriaBien, Cargando
<1>3. /\ MarcosBien(tablas, bitmap, {Nueva}) /\ e \in EnMarco(tablas, {Nueva})
      /\ GlobalBien(tablas, global, {Nueva} \cup {e}, Pag(tablas, e).marco)
      /\ Tiene(tablas, Nueva) => Pag(tablas, Nueva).precencia
  BY <1>1, <1>2, LiberarDe DEF MemoriaBien
<1>4. Tiene(tablas, e) /\ e # Nueva
  BY <1>3 DEF EnMarco
<1>5. PICK t \in Tablas : t = tablas
  BY <1>2, TipoDe
<1>6. PICK u : u = TrasLiberar(e)
  OBVIOUS
<1>7. EfectoLiberar(t, e, u)
  BY <1>1, <1>2, <1>4, <1>5, <1>6, TipoDe, LiberaEfecto
<1>8. PICK m \in Marcos : m = Pag(t, e).marco
  BY <1>4, <1>5, PagTipo DEF Pagina
<1>9. PICK a \in Entradas : a = Nueva /\ a.ft = instr.p.ft
  BY <1>2, TurnoTipo
<1>10. PICK fuera, usados : fuera = {a} /\ usados = bitmap
  OBVIOUS
<1>11. /\ MarcosBien(t, usados, fuera) /\ e \in EnMarco(t, fuera)
       /\ GlobalBien(t, global, fuera \cup {e}, Pag(t, e).marco)
  BY <1>3, <1>5, <1>9, <1>10
<1>12. /\ EnMarco(u, fuera) = EnMarco(t, fuera) \ {e}
       /\ MarcosBien(u, usados \ {Pag(t, e).marco}, fuera)
       /\ GlobalBien(u, global, fuera, Pag(t, e).marco)
  BY <1>5, <1>6, <1>11, LiberaMarcos
<1>13. PICK usados2 : usados2 = usados \ {m}
  OBVIOUS
<1>14. MarcosBien(u, usados2, {Nueva}) /\ m \notin usados2
  BY <1>8, <1>9, <1>10, <1>12, <1>13
<1>15. /\ Tiene(u, a) => Tiene(t, a) /\ Pag(u, a) = Pag(t, a)
       /\ \A f \in Entradas : Tiene(u, f) => Tiene(t, f)
       /\ \A f \in Entradas : Tiene(u, f) /\ f # e => Pag(u, f) = Pag(t, f)
       /\ u \in Tablas
  BY <1>4, <1>7, <1>9 DEF EfectoLiberar
<1>16. /\ Escritas(arbol, tablas, marcos, {Nueva}, escrito, SoloEscritos, Iguales, DeUnaPagina)
       /\ Nueva.ft \in SoloEscritos =>
            /\ Acepta(arbol, Nueva)
            /\ Tiene(tablas, Nueva) => Pag(tablas, Nueva).modificada
  BY <1>2, VolcablesCargandoDe
<1>17. PICK S \in SUBSET FileTags : S = SoloEscritos
  BY DEF SoloEscritos
<1>18. PICK L \in SUBSET S, D \in SUBSET S : L = Iguales /\ D = DeUnaPagina
  BY <1>2, <1>17, EscritosFijos
<1>19. PICK esc, esc2, mem, archivos :
         esc = escrito /\ esc2 = escrito' /\ mem = marcos /\ archivos = arbol'
  OBVIOUS
<1>20. SinComitear(arbol) /\ actual' \in Destinos[guion]
  BY <1>2 DEF Volcables
<1>21. /\ Escritas(arbol', tablas, marcos, fuera, esc, S, L, D)
       /\ MismosBloques(arbol, arbol')
       /\ Pag(tablas, e).modificada /\ e.ft \in D =>
            arbol'[e.ft].datos[e.n + 1] = marcos[Pag(tablas, e).marco]
  <2>1. /\ MarcosBien(tablas, usados, fuera) /\ e \in EnMarco(tablas, fuera)
        /\ Escritas(arbol, tablas, marcos, fuera, esc, S, L, D)
    BY <1>3, <1>9, <1>10, <1>16, <1>17, <1>18, <1>19
  <2> QED
    BY <1>2, <1>20, <2>1, DevuelveEscritas
<1>22. Escritas(archivos, u, mem, fuera, esc, S, L, D)
  <2>1. /\ Escritas(archivos, t, mem, fuera, esc, S, L, D)
        /\ Pag(t, e).modificada /\ e.ft \in D =>
             archivos[e.ft].datos[e.n + 1] = mem[Pag(t, e).marco]
    BY <1>5, <1>19, <1>21
  <2>2. /\ EnMarco(u, fuera) \cup {e} = EnMarco(t, fuera) /\ e \notin EnMarco(u, fuera)
        /\ e \in EnMarco(t, fuera)
    BY <1>11, <1>12
  <2>3. \A f \in EnMarco(t, fuera) : f # e => Pag(u, f) = Pag(t, f)
    BY <1>12, <1>15 DEF EnMarco
  <2> QED
    BY <1>15, <2>1, <2>2, <2>3, LimpiaEscritas
<1>23. Carga(u, global, m)
  BY <1>2, <1>5, <1>6, <1>8
<1>24. /\ \E v, w : Accede(v, w)
       /\ instr'.pc \in {"interrupcion", "pagina", "sinPagina"}
  BY <1>2, <1>15, <1>23, CargaAccede
<1>25. /\ escrito' \in [FileTags -> Seq(Bytes)]
       /\ \A ft \in DeUnaPagina \ {Nueva.ft} : escrito'[ft] = escrito[ft]
       /\ Nueva.ft \in DeUnaPagina =>
            /\ EsEscritura /\ Nueva.n = 0 /\ instr.quedan > 0 /\ instr.desp = 0
            /\ Len(instr.datos) = SizeBlock /\ escrito'[Nueva.ft] = instr.datos
  BY <1>2, <1>24, EscritoAcceso DEF Volcables
<1>26. a.ft \in S => EsEscritura
  BY <1>2, <1>9, <1>17, EscribeSolo
<1>27. /\ a.ft \in S => /\ EsEscritura /\ Acepta(archivos, a)
                        /\ Tiene(u, a) => Pag(u, a).modificada
       /\ Tiene(u, a) => Pag(u, a).precencia
  BY <1>3, <1>5, <1>9, <1>15, <1>16, <1>17, <1>19, <1>21, <1>26 DEF MismosBloques
<1>28. /\ Tiene(u, Nueva) => Pag(u, Nueva).precencia
       /\ Nueva.ft \in S => /\ EsEscritura /\ Acepta(archivos, Nueva)
                            /\ Tiene(u, Nueva) => Pag(u, Nueva).modificada
       /\ Escritas(archivos, u, marcos, {Nueva}, esc, S, L, D)
  BY <1>9, <1>10, <1>19, <1>22, <1>27
<1>29. /\ Nueva.ft \in D => /\ Nueva.n = 0 /\ instr.quedan > 0 /\ instr.desp = 0
                            /\ Len(instr.datos) = SizeBlock /\ esc2[Nueva.ft] = instr.datos
       /\ \A ft \in D \ {Nueva.ft} : esc2[ft] = esc[ft]
  BY <1>18, <1>19, <1>25
<1>30. Escritas(archivos, tablas', marcos', {}, esc2, S, L, D)
  BY <1>2, <1>14, <1>15, <1>23, <1>28, <1>29, CargaEscritas
<1>31. Escritas(arbol', tablas', marcos', {}, escrito', SoloEscritos, Iguales, DeUnaPagina)
  BY <1>17, <1>18, <1>19, <1>30
<1>32. SinComitear(arbol') /\ ArbolSigue
  BY <1>20, <1>21, MismosSigue
<1>33. instr'.pc \notin Cargando
  BY <1>24 DEF Cargando
<1> QED
  BY <1>2, <1>20, <1>25, <1>31, <1>32, <1>33, VolcablesEs

\* CREATE and TAG make a file:tag in progress; TRUNCATE and DELETE name others.
LEMMA DirectaEscritos ==
  ASSUME TypeOK, guion \in Guiones, Directa, SinComitear(arbol)
  PROVE  Conserva(arbol, arbol', SoloEscritos) /\ SinComitear(arbol')
<1>1. PICK p \in guion :
       \/ p.op = "CREATE" /\ Storage!Crea(p.ft)
       \/ p.op = "TRUNCATE" /\ Redimensiona(p.ft, p.tam \div SizeBlock)
       \/ p.op = "TAG" /\ Storage!Etiqueta(p.ft, p.dst)
       \/ p.op = "DELETE" /\ Storage!Borra(p.ft)
       \/ UNCHANGED arbol
  BY DEF Directa
<1>2. p.ft \in FileTags /\ p.dst \in FileTags /\ p.op \in Usos(p.ft)
  BY GuionTipo, InstruccionTipo, UsoDe
<1>3. arbol \in Arbol /\ \A ft \in SoloEscritos : ft \in FileTags /\ Usos(ft) \subseteq {"WRITE", "FLUSH"}
  BY TipoDe DEF SoloEscritos
<1>4. CASE p.op \in {"TRUNCATE", "DELETE"}
  <2>1. p.ft \notin SoloEscritos
    BY <1>2, <1>3, <1>4
  <2>2. \A ft \in SoloEscritos : arbol'[ft] = arbol[ft]
    BY <1>1, <1>2, <1>3, <1>4, <2>1 DEF Redimensiona, Storage!Borra, Arbol
  <2> QED
    BY <2>2 DEF Conserva, SinComitear
<1>5. CASE p.op \notin {"TRUNCATE", "DELETE"}
  <2>1. \A ft \in FileTags : \/ arbol'[ft] = arbol[ft]
                             \/ arbol[ft] = NoHay /\ arbol'[ft].estado # "COMMITED"
    BY <1>1, <1>2, <1>3, <1>5 DEF Storage!Crea, Storage!Etiqueta, Storage!FileTag, Arbol
  <2> QED
    BY <1>3, <2>1 DEF Conserva, SinComitear
<1> QED
  BY <1>4, <1>5

\* A COMMIT names a file:tag that is not one of them.
LEMMA CommitEscritos ==
  ASSUME TypeOK, Papel, EnviaCommit, SinComitear(arbol)
  PROVE  Conserva(arbol, arbol', SoloEscritos) /\ SinComitear(arbol')
<1>1. instr.p \in guion /\ instr.p.op = "COMMIT"
  BY DEF EnviaCommit, En, Papel
<1>2. instr.p.ft \notin SoloEscritos
  BY <1>1, UsoDe DEF SoloEscritos
<1>3. arbol \in Arbol /\ SoloEscritos \subseteq FileTags
  BY TipoDe DEF SoloEscritos
<1>4. \A ft \in SoloEscritos : arbol'[ft] = arbol[ft]
  BY <1>2, <1>3 DEF EnviaCommit, Storage!Commitea, Arbol
<1> QED
  BY <1>4 DEF Conserva, SinComitear

\* Every step of the Worker that has the query.
LEMMA VolcablesSigue ==
  ASSUME MemoriaBien, Papel, Volcables, Encargo, [Next]_vars, Anota, actual' = actual
  PROVE  Volcables' /\ ArbolSigue
<1>0. TypeOK /\ guion \in Guiones /\ guion' = guion /\ escrito \in [FileTags -> Seq(Bytes)]
      /\ SinComitear(arbol)
  BY Fijos DEF MemoriaBien, Papel, Volcables
<1>a. arbol' = arbol => Conserva(arbol, arbol', SoloEscritos) /\ SinComitear(arbol')
  BY <1>0 DEF Conserva
<1>b. Retocadas(tablas, tablas)
  BY DEF Retocadas
<1>c. /\ Directa \/ EnviaCommit \/ EligeLRU \/ EligeClockM \/ RelojMira \/ UNCHANGED vars
         \/ ComienzaAcceso \/ ComienzaPersistir \/ Interrumpe \/ PaginaInicialSinValor
         \/ TerminaTabla \/ TerminaPersistir \/ ConfirmaDesalojo =>
           \/ Recibe \/ LeeBloque \/ EligeLRU \/ EligeClockM \/ RelojMira \/ FallaTablaLiberada
           \/ PaginaInicialSinValor \/ PersistePagina \/ TerminaTabla \/ TerminaPersistir
           \/ EnviaCommit \/ Interrumpe \/ ConfirmaDesalojo \/ instr' = instr
  BY DEF Recibe, vars
<1>1. CASE UNCHANGED vars
  <2>1. UNCHANGED <<arbol, memoria, instr>>
    BY <1>1 DEF vars
  <2>2. /\ escrito' \in [FileTags -> Seq(Bytes)]
        /\ \A ft \in DeUnaPagina : escrito'[ft] = escrito[ft]
    BY <1>0, <2>1, EscritoQuieto
  <2>3. CASE instr.pc \notin Cargando
    BY <1>0, <1>a, <2>1, <2>2, <2>3, VolcablesQuieta
  <2>4. CASE instr.pc \in Cargando
    <3>1. Nueva' = Nueva /\ tablas' = tablas /\ marcos' = marcos
      BY <2>1 DEF Nueva, memoria
    <3>2. /\ Retocadas(tablas, tablas')
          /\ \A f \in Entradas : Tiene(tablas, f) => Pag(tablas', f).modificada = Pag(tablas, f).modificada
      BY <1>b, <3>1
    <3> QED
      BY <1>0, <2>1, <2>2, <2>4, <3>1, <3>2, RetocaVolcable
  <2> QED
    BY <2>3, <2>4
<1>2. CASE Directa
  <2>1. instr.pc \notin Cargando /\ instr'.pc \notin Cargando /\ UNCHANGED memoria
    BY <1>0, <1>2, ErrorTipo, VaTipo DEF Directa, En, Bien, Etiquetas, Cargando
  <2>2. /\ escrito' \in [FileTags -> Seq(Bytes)]
        /\ \A ft \in DeUnaPagina : escrito'[ft] = escrito[ft]
    BY <1>0, <1>2, <1>c, EscritoQuieto
  <2>3. Conserva(arbol, arbol', SoloEscritos) /\ SinComitear(arbol')
    BY <1>0, <1>2, DirectaEscritos
  <2> QED
    BY <1>0, <2>1, <2>2, <2>3, VolcablesQuieta
<1>3. CASE ComienzaAcceso \/ ComienzaPersistir \/ Interrumpe \/ PaginaInicialSinValor
           \/ TerminaTabla \/ TerminaPersistir \/ ConfirmaDesalojo
  <2>1. UNCHANGED <<arbol, memoria>> /\ instr.pc \notin Cargando /\ instr'.pc \notin Cargando
    BY <1>0, <1>3, QuietaSale
  <2>2. /\ escrito' \in [FileTags -> Seq(Bytes)]
        /\ \A ft \in DeUnaPagina : escrito'[ft] = escrito[ft]
    BY <1>0, <1>3, <1>c, EscritoQuieto
  <2> QED
    BY <1>0, <1>a, <2>1, <2>2, VolcablesQuieta
<1>4. CASE EnviaCommit
  <2>1. instr.pc \notin Cargando /\ instr'.pc \notin Cargando /\ UNCHANGED memoria
    BY <1>0, <1>4, ErrorTipo, VaTipo DEF EnviaCommit, En, Bien, Etiquetas, Cargando
  <2>2. /\ escrito' \in [FileTags -> Seq(Bytes)]
        /\ \A ft \in DeUnaPagina : escrito'[ft] = escrito[ft]
    BY <1>0, <1>4, <1>c, EscritoQuieto
  <2>3. Conserva(arbol, arbol', SoloEscritos) /\ SinComitear(arbol')
    BY <1>0, <1>4, CommitEscritos
  <2> QED
    BY <1>0, <2>1, <2>2, <2>3, VolcablesQuieta
<1>5. CASE EligeLRU \/ EligeClockM
  <2>1. /\ tablas' = tablas /\ arbol' = arbol /\ marcos' = marcos /\ instr.pc \in Cargando
        /\ instr'.pc \in Cargando /\ instr'.p = instr.p /\ instr'.pag = instr.pag
    BY <1>0, <1>5, TurnoTipo DEF EligeLRU, EligeClockM, Va, En, Turno, Cargando, memoria
  <2>2. Nueva' = Nueva
    BY <2>1 DEF Nueva
  <2>3. /\ Retocadas(tablas, tablas')
        /\ \A f \in Entradas : Tiene(tablas, f) => Pag(tablas', f).modificada = Pag(tablas, f).modificada
    BY <1>b, <2>1
  <2>4. /\ escrito' \in [FileTags -> Seq(Bytes)]
        /\ \A ft \in DeUnaPagina : escrito'[ft] = escrito[ft]
    BY <1>0, <1>5, <1>c, EscritoQuieto
  <2> QED
    BY <1>0, <2>1, <2>2, <2>3, <2>4, RetocaVolcable
<1>6. CASE RelojMira
  <2>1. /\ UNCHANGED <<arbol, bitmap, marcos>> /\ instr.pc = "reloj"
        /\ instr'.pc \in {"reloj", "liberar"} /\ Nueva' = Nueva /\ Retocadas(tablas, tablas')
        /\ \A f \in Entradas : Tiene(tablas, f) => Pag(tablas', f).modificada = Pag(tablas, f).modificada
    BY <1>6, RelojEfecto
  <2>2. instr.pc \in Cargando /\ instr'.pc \in Cargando
    BY <2>1 DEF Cargando
  <2>3. /\ escrito' \in [FileTags -> Seq(Bytes)]
        /\ \A ft \in DeUnaPagina : escrito'[ft] = escrito[ft]
    BY <1>0, <1>6, <1>c, EscritoQuieto
  <2> QED
    BY <1>0, <2>1, <2>2, <2>3, RetocaVolcable
<1>7. CASE AccedePresente \/ LeeBloque \/ AsignaLibre \/ LiberaYCarga \/ FallaTablaLiberada \/ PersistePagina
  BY <1>7, AccedePresenteVolcable, LeeBloqueVolcable, AsignaLibreVolcable, LiberaVolcable,
     FallaVolcable, PersisteVolcable
<1> QED
  BY <1>1, <1>2, <1>3, <1>4, <1>5, <1>6, <1>7 DEF Next, Recibe, Sigue

\* Where Encargo says nothing.
LEMMA EncargoEs ==
  ASSUME instr'.pc \in {"interrupcion", "commit", "desalojo"}
         \/ (instr'.pc = "libre" /\ instr'.p = Fin)
  PROVE  Encargo'
BY DEF Encargo, Cargando

\* The instruction goes on with the same page.
LEMMA EncargoCargando ==
  ASSUME Encargo, guion' = guion, instr.pc \in {"pagina"} \cup Cargando, instr'.pc \in Cargando,
         instr'.p = instr.p, instr'.pag = instr.pag, instr'.desp = instr.desp,
         instr'.quedan = instr.quedan, instr'.datos = instr.datos
  PROVE  Encargo'
<1>1. DeUnaPagina' = DeUnaPagina /\ instr'.pc \notin {"libre", "persistir", "sinPagina"}
  BY EscritosFijos DEF Cargando
<1>2. instr.p.ft \in DeUnaPagina =>
        /\ EsEscritura /\ instr.p.dir = 0
        /\ Len(instr.p.datos) = SizeBlock /\ instr.datos = instr.p.datos
        /\ instr.pag = 0 /\ instr.desp = 0 /\ instr.quedan = 1
  BY DEF Encargo
<1> QED
  BY <1>1, <1>2 DEF Encargo, EsEscritura

\* It reaches its page: of a file:tag of one page there is no other.
LEMMA EncargoAccede ==
  ASSUME TypeOK, Encargo, guion' = guion, instr.pc \in {"pagina"} \cup Cargando,
         NEW t, NEW mem, Accede(t, mem)
  PROVE  Encargo'
<1>1. instr'.p = instr.p /\ instr'.pc \in {"interrupcion", "pagina", "sinPagina"}
  BY VaTipo DEF Accede, AccedeA, SinAcceso, Ociosa, Etiquetas
<1>2. CASE instr.p.ft \in DeUnaPagina
  <2>1. instr.quedan = 1
    BY <1>2 DEF Encargo
  <2> QED
    BY <2>1, AccesoUltimo, EncargoEs
<1>3. CASE instr.p.ft \notin DeUnaPagina
  <2>1. instr'.p.ft \notin DeUnaPagina'
    BY <1>1, <1>3, EscritosFijos
  <2> QED
    BY <1>1, <2>1 DEF Encargo
<1> QED
  BY <1>2, <1>3

\* A WRITE or READ begins.
LEMMA EncargoComienza ==
  ASSUME TypeOK, guion \in Guiones, ComienzaAcceso
  PROVE  Encargo'
<1>1. PICK p \in guion :
        /\ p.op \in {"WRITE", "READ"}
        /\ instr' = [Ociosa EXCEPT !.p = p,
                       !.pc = IF Largo(p) = 0 /\ tablas[p.ft] # <<>> THEN "sinPagina" ELSE "pagina",
                       !.pag = p.dir \div SizeBlock, !.desp = p.dir % SizeBlock,
                       !.quedan = MarcosNecesarios(Largo(p)), !.datos = p.datos, !.tam = p.tam]
  BY DEF ComienzaAcceso
<1>2. guion' = guion
  BY DEF ComienzaAcceso, En
<1>3. PICK pc, pag, desp, quedan :
        /\ pc = IF Largo(p) = 0 /\ tablas[p.ft] # <<>> THEN "sinPagina" ELSE "pagina"
        /\ pag = p.dir \div SizeBlock /\ desp = p.dir % SizeBlock
        /\ quedan = MarcosNecesarios(Largo(p))
  OBVIOUS
<1>4. instr' = [Ociosa EXCEPT !.p = p, !.pc = pc, !.pag = pag, !.desp = desp,
                  !.quedan = quedan, !.datos = p.datos, !.tam = p.tam]
  BY <1>1, <1>3
<1>5. /\ instr'.p = p /\ instr'.pc = pc /\ instr'.pag = pag /\ instr'.desp = desp
      /\ instr'.quedan = quedan /\ instr'.datos = p.datos
  BY <1>4, OciosaTipo DEF Turno
<1>6. pc \in {"sinPagina", "pagina"}
  BY <1>3
<1>7. ASSUME p.ft \in DeUnaPagina
      PROVE  /\ pc = "pagina" /\ p.op = "WRITE" /\ p.dir = 0 /\ Len(p.datos) = SizeBlock
             /\ pag = 0 /\ desp = 0 /\ quedan = 1
  <2>1. p.op \in {"WRITE", "FLUSH"} /\ (p.op = "WRITE" => p.dir = 0 /\ Len(p.datos) = SizeBlock)
    BY <1>7, DeUnaPaginaUso
  <2>2. p.op = "WRITE" /\ p.dir = 0 /\ Len(p.datos) = SizeBlock
    BY <1>1, <2>1
  <2>3. Largo(p) = SizeBlock /\ SizeBlock # 0
    BY <2>2, MemoriaAssumption DEF Largo
  <2>4. pc = "pagina"
    BY <1>3, <2>3
  <2>5. pag = 0 /\ desp = 0 /\ quedan = 1
    BY <1>3, <2>2, <2>3, NecesariosUno
  <2> QED
    BY <2>2, <2>4, <2>5
<1>8. DeUnaPagina' = DeUnaPagina
  BY <1>2, EscritosFijos
<1> QED
  BY <1>5, <1>6, <1>7, <1>8 DEF Encargo, EsEscritura

\* A table that was gone through is one more with no dirty page.
LEMMA EncargoTabla ==
  ASSUME MemoriaBien, Encargo, TerminaTabla
  PROVE  Encargo'
<1>1. /\ instr.pc = "persistir" /\ instr.tabs # <<>> /\ Modificadas(Head(instr.tabs)) = {}
      /\ UNCHANGED memoria /\ instr'.pc = "persistir" /\ instr'.p = instr.p
      /\ instr'.tabs = Tail(instr.tabs) /\ instr.tabs \in Seq(FileTags) /\ tablas \in Tablas
  BY TipoDe, TurnoTipo DEF TerminaTabla, En, Turno, MemoriaBien
<1>2. PICK s \in Seq(FileTags) : s = instr.tabs
  BY <1>1
<1>3. LimpiasDe(tablas, {Head(s)}) /\ ToSet(s) \subseteq ToSet(Tail(s)) \cup {Head(s)}
  BY <1>1, <1>2, TablaLimpia
<1>4. instr.p.op # "END" => LimpiasDe(tablas, {instr.p.ft} \ ToSet(Tail(s)))
  BY <1>1, <1>2, <1>3 DEF Encargo, LimpiasDe
<1>5. tablas' = tablas
  BY <1>1 DEF memoria
<1>6. instr'.p.op # "END" => LimpiasDe(tablas', {instr'.p.ft} \ ToSet(instr'.tabs))
  BY <1>1, <1>2, <1>4, <1>5
<1>7. (instr.p.op # "END" => LimpiasDe(tablas, {instr.p.ft} \ ToSet(instr.tabs)))'
  BY <1>6 DEF LimpiasDe, Tiene, Pag
<1>8. instr'.p.op \in {"FLUSH", "COMMIT", "END"}
  BY <1>1 DEF Encargo
<1> QED
  BY <1>1, <1>7, <1>8 DEF Encargo, Cargando

\* Each step leaves an instruction of the same kind, or none.
LEMMA EncargoSigue ==
  ASSUME MemoriaBien, Papel, Encargo, [Next]_vars
  PROVE  Encargo'
<1>0. TypeOK /\ guion \in Guiones /\ guion' = guion
  BY Fijos DEF MemoriaBien, Papel
<1>1. CASE UNCHANGED vars
  <2>1. tablas' = tablas /\ instr' = instr /\ DeUnaPagina' = DeUnaPagina
    BY <1>0, <1>1, EscritosFijos DEF vars, memoria
  <2>2. LimpiasDe(tablas, {instr.p.ft} \ ToSet(instr.tabs))'
          <=> LimpiasDe(tablas, {instr.p.ft} \ ToSet(instr.tabs))
    BY <2>1 DEF LimpiasDe, Tiene, Pag
  <2> QED
    BY <2>1, <2>2 DEF Encargo, EsEscritura
<1>2. CASE Directa \/ EnviaCommit
  BY <1>0, <1>2, ErrorTipo, VaTipo, EncargoEs DEF Directa, EnviaCommit, Bien, Etiquetas
<1>3. CASE ComienzaAcceso
  BY <1>0, <1>3, EncargoComienza
<1>4. CASE ComienzaPersistir
  <2>1. PICK p \in guion :
          /\ p.op \in {"FLUSH", "COMMIT"}
          /\ instr' = [Ociosa EXCEPT !.pc = "persistir", !.p = p, !.tabs = <<p.ft>>,
                         !.luego = IF p.op = "COMMIT" THEN "commit" ELSE "interrupcion"]
    BY <1>4 DEF ComienzaPersistir
  <2>2. instr'.pc = "persistir" /\ instr'.p = p /\ instr'.tabs = <<p.ft>>
    BY <2>1 DEF Ociosa
  <2>3. {p.ft} \ ToSet(<<p.ft>>) = {}
    <3>1. 1 \in DOMAIN <<p.ft>> /\ <<p.ft>>[1] = p.ft
      OBVIOUS
    <3> QED
      BY <3>1 DEF ToSet
  <2>4. (LimpiasDe(tablas, {instr.p.ft} \ ToSet(instr.tabs)))'
    BY <2>2, <2>3 DEF LimpiasDe
  <2> QED
    BY <2>1, <2>2, <2>4 DEF Encargo, Cargando
<1>5. CASE AccedePresente \/ AsignaLibre \/ LiberaYCarga
  <2>1. instr.pc \in {"pagina"} \cup Cargando /\ \E t, mem : Accede(t, mem)
    BY <1>5 DEF AccedePresente, AsignaLibre, LiberaYCarga, Carga, Accede, En, Cargando
  <2> QED
    BY <1>0, <2>1, EncargoAccede
<1>6. CASE LeeBloque
  <2>1. CASE Error
    BY <2>1, ErrorTipo, EncargoEs
  <2>2. CASE ~Error
    <3>1. /\ instr.pc = "pagina" /\ instr'.pc = "asignar" /\ instr'.p = instr.p
          /\ instr'.pag = instr.pag /\ instr'.desp = instr.desp /\ instr'.datos = instr.datos
          /\ instr'.quedan = instr.quedan
      BY <1>6, <2>2, LeeEfecto
    <3> QED
      BY <1>0, <3>1, EncargoCargando DEF Cargando
  <2> QED
    BY <2>1, <2>2
<1>7. CASE EligeLRU \/ EligeClockM \/ RelojMira
  <2>1. /\ instr.pc \in {"asignar", "reloj"} /\ instr'.pc \in {"reloj", "liberar"} /\ instr'.p = instr.p
        /\ instr'.pag = instr.pag /\ instr'.desp = instr.desp /\ instr'.datos = instr.datos
        /\ instr'.quedan = instr.quedan
    <3>1. CASE EligeLRU
      <4>1. instr.pc = "asignar" /\ \E v : instr' = [instr EXCEPT !.pc = "liberar", !.victima = v]
        BY <3>1 DEF EligeLRU, En
      <4> QED
        BY <1>0, <4>1, TurnoTipo DEF Turno
    <3>2. CASE EligeClockM
      <4>1. instr.pc = "asignar" /\ instr' = [instr EXCEPT !.pc = "reloj"]
        BY <3>2 DEF EligeClockM, En, Va
      <4> QED
        BY <1>0, <4>1, TurnoTipo DEF Turno
    <3>3. CASE RelojMira
      BY <1>0, <3>3, RelojEfecto
    <3> QED
      BY <1>7, <3>1, <3>2, <3>3
  <2> QED
    BY <1>0, <2>1, EncargoCargando DEF Cargando
<1>8. CASE FallaTablaLiberada
  <2>1. instr' = instr /\ instr.pc = "liberar"
    BY <1>8 DEF FallaTablaLiberada
  <2> QED
    BY <1>0, <2>1, EncargoCargando DEF Cargando
<1>9. CASE PaginaInicialSinValor
  <2>1. instr.pc = "sinPagina" /\ instr'.p = instr.p /\ instr'.pc \in {"interrupcion", "sinPagina"}
    BY <1>0, <1>9, VaTipo DEF PaginaInicialSinValor, Bien, Etiquetas
  <2>2. instr'.p.ft \notin DeUnaPagina'
    BY <1>0, <2>1, EscritosFijos DEF Encargo
  <2> QED
    BY <2>1, <2>2 DEF Encargo
<1>10. CASE PersistePagina
  <2>1. instr.pc = "persistir" /\ (instr' = instr \/ Error)
    BY <1>10 DEF PersistePagina, En
  <2>2. CASE Error
    BY <2>2, ErrorTipo, EncargoEs
  <2>3. CASE instr' = instr
    <3> DEFINE S == {instr.p.ft} \ ToSet(instr.tabs)
    <3>1. LimpiasDe(tablas, S) => LimpiasDe(tablas', S)
      BY <1>10, PersisteLimpia
    <3>2. S' = S
      BY <2>3
    <3>3. LimpiasDe(tablas', S') <=> LimpiasDe(tablas, S)'
      BY DEF LimpiasDe, Tiene, Pag
    <3> QED
      BY <2>1, <2>3, <3>1, <3>2, <3>3 DEF Encargo, Cargando
  <2> QED
    BY <2>1, <2>2, <2>3
<1>11. CASE TerminaTabla
  BY <1>11, EncargoTabla
<1>12. CASE TerminaPersistir
  <2>1. instr.luego \in {"commit", "interrupcion", "desalojo"}
    BY <1>12 DEF TerminaPersistir, En, Papel
  <2>2. instr'.pc = instr.luego
    BY <1>0, <1>12, <2>1, VaTipo DEF TerminaPersistir, Etiquetas
  <2> QED
    BY <2>1, <2>2, EncargoEs
<1>13. CASE Interrumpe
  <2>1. CASE instr' = Ociosa
    BY <2>1, OciosaTipo, EncargoEs
  <2>2. ASSUME NEW orden, instr' = [Ociosa EXCEPT !.pc = "persistir", !.tabs = orden, !.luego = "desalojo"]
        PROVE  Encargo'
    <3>1. instr'.pc = "persistir" /\ instr'.p = Fin
      BY <2>2 DEF Ociosa
    <3> QED
      BY <3>1 DEF Encargo, Cargando, Fin
  <2> QED
    BY <1>13, <2>1, <2>2 DEF Interrumpe
<1>14. CASE ConfirmaDesalojo
  BY <1>14, OciosaTipo, EncargoEs DEF ConfirmaDesalojo
<1> QED
  BY <1>1, <1>2, <1>3, <1>4, <1>5, <1>6, <1>7, <1>8, <1>9, <1>10, <1>11, <1>12, <1>13, <1>14
     DEF Next, Recibe, Sigue

-----------------------------------------------------------------------------
(* What was written survives.                                              *)

EscritoBien == DesalojoBien /\ Volcables /\ Encargo /\ OtrasEscritas

\* OtrasEscritas, from its parts.
LEMMA OtrasEscritasEs ==
  ASSUME guion' = guion,
         \A w \in Workers : /\ AceptanDe(arbol', otras'[w].tablas, {}, SoloEscritos)
                            /\ \A ft \in DeUnaPagina : UnaPagina(otras'[w].tablas, ft)
  PROVE  OtrasEscritas'
<1>1. SoloEscritos' = SoloEscritos /\ DeUnaPagina' = DeUnaPagina
  BY EscritosFijos
<1> SUFFICES ASSUME NEW w \in Workers
             PROVE  /\ AceptanDe(arbol, otras[w].tablas, {}, SoloEscritos)'
                    /\ \A ft \in DeUnaPagina : UnaPagina(otras[w].tablas, ft)'
  BY <1>1 DEF OtrasEscritas
<1>2. AceptanDe(arbol, otras[w].tablas, {}, SoloEscritos)'
  BY <1>1 DEF AceptanDe, EnMarco, Tiene, Pag, Acepta, Hay
<1>3. \A ft \in DeUnaPagina : UnaPagina(otras[w].tablas, ft)'
  BY DEF UnaPagina, Tiene
<1> QED
  BY <1>2, <1>3

\* No Worker has run anything.
LEMMA InicioEscrito ==
  ASSUME SinComiteados, InitDesalojo
  PROVE  EscritoBien
<1>1. Init /\ actual \in Destinos[guion] /\ otras = [w \in Workers |-> Vacia]
      /\ escrito = [ft \in FileTags |-> <<>>]
  BY DEF InitDesalojo
<1>2. DesalojoBien
  BY InicioDesalojo
<1>3. /\ guion \in Guiones /\ arbol = ArbolInicial /\ instr = Ociosa
      /\ tablas = [ft \in FileTags |-> <<>>]
  BY <1>1 DEF Init
<1>4. instr.pc = "libre" /\ instr.p = Fin
  BY <1>3, OciosaTipo
<1>5. Encargo
  BY <1>4 DEF Encargo, Cargando
<1>6. \A e \in Entradas : ~Tiene(tablas, e) /\ ~Tiene(Vacia.tablas, e)
  BY <1>3, EmptySeq DEF Tiene, Entradas, Vacia
<1>7. OtrasEscritas
  BY <1>1, <1>6 DEF OtrasEscritas, AceptanDe, EnMarco, UnaPagina
<1>8. SinComitear(arbol)
  <2> SUFFICES ASSUME NEW ft \in SoloEscritos, "WRITE" \in Usos(ft)
               PROVE  ArbolInicial[ft] = NoHay \/ ArbolInicial[ft].estado # "COMMITED"
    BY <1>3 DEF SinComitear
  <2>1. PICK p \in guion : p.ft = ft /\ p.op = "WRITE"
    BY DEF Usos
  <2>2. \A q \in guion : q.ft = p.ft => q.op \in {"WRITE", "FLUSH"}
    BY <2>1, UsoDe DEF SoloEscritos
  <2> QED
    BY <1>3, <2>1, <2>2 DEF SinComiteados
<1>9. \A e : e \notin EnMarco(tablas, AlAire)
  BY <1>6 DEF EnMarco
<1>10. Escritas(arbol, tablas, marcos, AlAire, escrito, SoloEscritos, Iguales, DeUnaPagina)
  <2>1. AceptanDe(arbol, tablas, AlAire, SoloEscritos)
        /\ LimpiasIguales(arbol, tablas, marcos, AlAire, Iguales)
    BY <1>9 DEF AceptanDe, LimpiasIguales
  <2>2. ASSUME NEW ft \in DeUnaPagina
        PROVE  /\ UnaPagina(tablas, ft) /\ Guardado(arbol, tablas, marcos, AlAire, escrito, ft)
               /\ escrito[ft] # <<>> => Acepta(arbol, Primera(ft))
    <3>1. escrito[ft] = <<>>
      BY <1>1 DEF DeUnaPagina, SoloEscritos
    <3> QED
      BY <1>6, <1>9, <3>1 DEF UnaPagina, Guardado, Sucia
  <2> QED
    BY <2>1, <2>2 DEF Escritas
<1>11. escrito \in [FileTags -> Seq(Bytes)]
  BY <1>1, EmptySeq
<1>12. Volcables
  BY <1>1, <1>4, <1>8, <1>10, <1>11 DEF Volcables, Cargando
<1> QED
  BY <1>2, <1>5, <1>7, <1>12 DEF EscritoBien

\* A step of the Worker that has the query.
LEMMA TrabajaEscrito ==
  ASSUME EscritoBien, [Next]_vars, Anota, UNCHANGED <<actual, otras>>
  PROVE  EscritoBien'
<1>1. DesalojoBien /\ Volcables /\ Encargo /\ OtrasEscritas /\ MemoriaBien /\ Papel
  BY DEF EscritoBien, DesalojoBien
<1>2. DesalojoBien' /\ Volcables' /\ ArbolSigue /\ Encargo'
  BY <1>1, TrabajaDesalojo, VolcablesSigue, EncargoSigue
<1>3. guion' = guion
  BY Fijos
<1>4. OtrasEscritas'
  <2> SUFFICES ASSUME NEW w \in Workers
               PROVE  /\ AceptanDe(arbol', otras[w].tablas, {}, SoloEscritos)
                      /\ \A ft \in DeUnaPagina : UnaPagina(otras[w].tablas, ft)
    BY <1>3, OtrasEscritasEs
  <2> QED
    BY <1>1, <1>2 DEF OtrasEscritas, AceptanDe, ArbolSigue, EnMarco
<1> QED
  BY <1>2, <1>4 DEF EscritoBien

\* The query goes to another Worker: nothing that is dirty stays behind or
\* comes up.
LEMMA PasaEscrito ==
  ASSUME EscritoBien, Pasa
  PROVE  EscritoBien'
<1>1. /\ DesalojoBien /\ Volcables /\ Encargo /\ OtrasEscritas /\ MemoriaBien /\ Papel
      /\ Persistidas /\ OtrasBien /\ actual \in Workers /\ TypeOK
  BY DEF EscritoBien, DesalojoBien, MemoriaBien
<1>2. DesalojoBien'
  BY <1>1, PasaDesalojo
<1>3. /\ guion' = guion /\ instr.pc = "desalojo" /\ instr' = Ociosa /\ arbol' = arbol
      /\ escrito' = escrito
  BY DEF Pasa, En
<1>4. PICK w \in Destinos[guion] \ {actual} :
       /\ actual' = w
       /\ otras' = [otras EXCEPT ![w] = Vacia, ![actual] =
            [tablas |-> tablas, global |-> global, bitmap |-> bitmap,
             marcos |-> marcos, puntero |-> puntero]]
       /\ tablas' = otras[w].tablas /\ marcos' = otras[w].marcos
  BY DEF Pasa
<1>5. w \in Workers /\ w # actual /\ actual \in Destinos[guion]
  BY <1>1, DesalojoAssumption DEF Papel, Volcables
<1>6. instr'.pc = "libre" /\ instr'.p = Fin
  BY <1>3, OciosaTipo
<1>7. Encargo'
  BY <1>6, EncargoEs
<1>8. PICK t : t = otras[w].tablas
  OBVIOUS
<1>9. /\ LimpiasDe(t, FileTags) /\ AceptanDe(arbol, t, {}, SoloEscritos)
      /\ \A ft \in DeUnaPagina : UnaPagina(t, ft)
  <2>1. OtraFiel(otras[w])
    BY <1>1, <1>5, OtraDe
  <2> QED
    BY <1>1, <1>5, <1>8, <2>1 DEF OtraFiel, OtrasEscritas
<1>10. LimpiasDe(tablas, FileTags)
  BY <1>1, <1>3 DEF Persistidas
<1>11. Escritas(arbol, tablas, marcos, {}, escrito, SoloEscritos, Iguales, DeUnaPagina)
  BY <1>1, <1>3, VolcablesDe DEF Cargando
<1>12. DeUnaPagina \subseteq FileTags /\ Iguales = {}
  <2>1. ~Unico
    BY <1>4, <1>5 DEF Unico
  <2> QED
    BY <1>3, <2>1, EscritosFijos DEF Iguales
<1>13. Volcables'
  <2>1. ASSUME NEW ft \in DeUnaPagina
        PROVE  /\ UnaPagina(t, ft) /\ Guardado(arbol, t, otras[w].marcos, {}, escrito, ft)
               /\ escrito[ft] # <<>> => Acepta(arbol, Primera(ft))
    <3>1. Primera(ft) \in Entradas /\ Primera(ft).ft = ft /\ ft \in FileTags
      BY <1>12, PrimeraTipo
    <3>2. ~Sucia(tablas, {}, ft) /\ ~Sucia(t, {}, ft)
      BY <1>9, <1>10, <3>1 DEF Sucia, EnMarco, LimpiasDe
    <3>3. /\ Guardado(arbol, tablas, marcos, {}, escrito, ft)
          /\ escrito[ft] # <<>> => Acepta(arbol, Primera(ft))
      BY <1>11 DEF Escritas
    <3> QED
      BY <1>9, <3>2, <3>3 DEF Guardado
  <2>2. Escritas(arbol, t, otras[w].marcos, {}, escrito, SoloEscritos, Iguales, DeUnaPagina)
    BY <1>9, <1>12, <2>1 DEF Escritas, LimpiasIguales
  <2>3. Escritas(arbol', tablas', marcos', {}, escrito', SoloEscritos, Iguales, DeUnaPagina)
    BY <1>3, <1>4, <1>8, <2>2
  <2>4. escrito' \in [FileTags -> Seq(Bytes)] /\ SinComitear(arbol')
    BY <1>1, <1>3 DEF Volcables
  <2> QED
    BY <1>3, <1>4, <1>6, <2>3, <2>4, VolcablesEs DEF Cargando
<1>14. OtrasEscritas'
  <2>1. PICK g : g = [tablas |-> tablas, global |-> global, bitmap |-> bitmap,
                      marcos |-> marcos, puntero |-> puntero]
    OBVIOUS
  <2>2. g.tablas = tablas
    BY <2>1
  <2>3. otras' = [otras EXCEPT ![w] = Vacia, ![actual] = g]
    BY <1>4, <2>1
  <2>4. otras = [v \in Workers |-> otras[v]]
    BY <1>1 DEF OtrasBien
  <2>5. /\ otras'[actual] = g /\ otras'[w] = Vacia
        /\ \A v \in Workers \ {w, actual} : otras'[v] = otras[v]
    BY <1>1, <1>5, <2>3, <2>4
  <2>6. ASSUME NEW v \in Workers
        PROVE  /\ AceptanDe(arbol', otras'[v].tablas, {}, SoloEscritos)
               /\ \A ft \in DeUnaPagina : UnaPagina(otras'[v].tablas, ft)
    <3>1. CASE v = actual
      BY <1>3, <1>11, <2>2, <2>5, <3>1 DEF Escritas
    <3>2. CASE v = w
      <4>1. \A e \in Entradas : ~Tiene(Vacia.tablas, e)
        BY EmptySeq DEF Tiene, Entradas, Vacia
      <4> QED
        BY <2>5, <3>2, <4>1 DEF AceptanDe, EnMarco, UnaPagina
    <3>3. CASE v \notin {w, actual}
      BY <1>1, <1>3, <2>5, <3>3 DEF OtrasEscritas
    <3> QED
      BY <3>1, <3>2, <3>3
  <2> QED
    BY <1>3, <2>6, OtrasEscritasEs
<1> QED
  BY <1>2, <1>7, <1>13, <1>14 DEF EscritoBien

\* Every step keeps the invariant.
LEMMA PasoEscrito ==
  ASSUME EscritoBien, [NextDesalojo]_varsDesalojo
  PROVE  EscritoBien'
<1>1. CASE Pasa
  BY <1>1, PasaEscrito
<1>2. CASE Trabaja
  BY <1>2, TrabajaEscrito DEF Trabaja, Anota
<1>3. CASE Queda \/ UNCHANGED varsDesalojo
  <2>1. [Next]_vars /\ UNCHANGED <<actual, otras, escrito>>
    BY <1>3 DEF Queda, varsDesalojo, Next, Sigue
  <2>2. ~EscribioPagina
    BY <1>3, OciosaTipo DEF EscribioPagina, Queda, ConfirmaDesalojo, varsDesalojo, vars
  <2> QED
    BY <2>1, <2>2, TrabajaEscrito DEF Anota
<1> QED
  BY <1>1, <1>2, <1>3 DEF NextDesalojo

\* With no dirty page in the tables, what was written is in the Storage.
LEMMA PersisteEnStorage ==
  ASSUME EscritoBien
  PROVE  EscritoPersiste
<1> SUFFICES ASSUME instr.pc = "desalojo", NEW ft \in DeUnaPagina, escrito[ft] # <<>>
             PROVE  Bytes1(ft) = escrito[ft]
  BY DEF EscritoPersiste
<1>1. LimpiasDe(tablas, FileTags) /\ Volcables
  BY DEF EscritoBien, DesalojoBien, Persistidas
<1>2. Guardado(arbol, tablas, marcos, {}, escrito, ft)
  BY <1>1, VolcablesDe DEF Cargando, Escritas
<1>3. Primera(ft) \in Entradas /\ Primera(ft).ft = ft /\ ft \in FileTags
  BY PrimeraTipo DEF DeUnaPagina, SoloEscritos
<1>4. ~Sucia(tablas, {}, ft)
  BY <1>1, <1>3 DEF Sucia, EnMarco, LimpiasDe
<1> QED
  BY <1>2, <1>4 DEF Guardado, Texto, Bytes1

\* Only TerminaPersistir goes from the flush to what comes after it.
LEMMA FlushTermina ==
  ASSUME Papel, TypeOK, [NextDesalojo]_varsDesalojo, NEW ft, TerminaFlush(ft)
  PROVE  instr.tabs = <<>>
<1>1. /\ instr.pc = "persistir" /\ instr'.pc = instr.luego
      /\ instr.luego \in {"commit", "interrupcion", "desalojo"}
  BY DEF TerminaFlush, Papel
<1>2. instr' # instr
  BY <1>1
<1>3. Trabaja
  BY <1>1, <1>2 DEF NextDesalojo, Queda, Pasa, ConfirmaDesalojo, En, varsDesalojo, vars
<1>4. Sigue
  BY <1>1, <1>3 DEF Trabaja, Next, Recibe, Directa, ComienzaAcceso, ComienzaPersistir, En
<1>5. PersistePagina \/ TerminaTabla \/ TerminaPersistir
  BY <1>1, <1>4 DEF Sigue, AccedePresente, AsignaLibre, LiberaYCarga, LeeBloque, EligeLRU, EligeClockM,
       RelojMira, FallaTablaLiberada, PaginaInicialSinValor, EnviaCommit, Interrumpe,
       ConfirmaDesalojo, En
<1>6. ~PersistePagina
  BY <1>1, <1>2, ErrorTipo DEF PersistePagina
<1>7. ~TerminaTabla
  BY <1>1, TurnoTipo DEF TerminaTabla, Turno
<1> QED
  BY <1>5, <1>6, <1>7 DEF TerminaPersistir

\* A table that was gone through has the Storage's blocks in its frames.
LEMMA FlushIguala ==
  ASSUME FlushEnUno, EscritoBien, [NextDesalojo]_varsDesalojo,
         NEW ft \in SoloEscritos, TerminaFlush(ft)
  PROVE  IgualQueStorage(ft)
<1>1. /\ MemoriaBien /\ TypeOK /\ Papel /\ Volcables /\ Encargo /\ guion \in Guiones
      /\ instr.pc = "persistir" /\ instr.p.ft = ft /\ instr.p.op = "FLUSH"
  <2>1. MemoriaBien /\ Papel /\ Volcables /\ Encargo
    BY DEF EscritoBien, DesalojoBien
  <2>2. TypeOK
    BY <2>1 DEF MemoriaBien
  <2>3. guion \in Guiones
    BY <2>1 DEF Papel
  <2> QED
    BY <2>1, <2>2, <2>3 DEF TerminaFlush
<1>2. instr.tabs = <<>>
  BY <1>1, FlushTermina
<1>3. instr.p \in guion
  BY <1>1 DEF Papel, Fin
<1>4. Unico
  BY <1>1, <1>3 DEF FlushEnUno, Unico
<1>5. LimpiasDe(tablas, {ft})
  <2>1. ToSet(instr.tabs) = {}
    BY <1>2, EmptySeq DEF ToSet
  <2> QED
    BY <1>1, <2>1 DEF Encargo
<1>6. /\ AceptanDe(arbol, tablas, {}, SoloEscritos)
      /\ LimpiasIguales(arbol, tablas, marcos, {}, SoloEscritos)
  BY <1>1, <1>4, VolcablesDe DEF Cargando, Escritas, Iguales
<1> SUFFICES ASSUME NEW e \in Presentes, e.ft = ft
             PROVE  HayBloque(ft, e.n) /\ marcos[Marco(e)] = arbol[ft].datos[e.n + 1]
  BY DEF IgualQueStorage
<1>7. e \in EnMarco(tablas, {}) /\ Marco(e) = Pag(tablas, e).marco
  BY <1>1, PresentesEs
<1>8. ~Pag(tablas, e).modificada
  BY <1>5, <1>7 DEF LimpiasDe, EnMarco
<1> QED
  BY <1>6, <1>7, <1>8 DEF AceptanDe, LimpiasIguales, Acepta, Hay, HayBloque

\* The invariant of what is written, for every script of the constants whose
\* written file:tags are not committed from before.
THEOREM EscritoBienSiempre ==
  ASSUME SinComiteados
  PROVE  SpecDesalojo => []EscritoBien
<1>1. InitDesalojo => EscritoBien
  BY InicioEscrito
<1>2. EscritoBien /\ [NextDesalojo]_varsDesalojo => EscritoBien'
  BY PasoEscrito
<1> QED
  BY <1>1, <1>2, PTL DEF SpecDesalojo

\* What a query wrote before an eviction is in the Storage when the Worker
\* confirms it, whatever Workers it went through and whatever pages they kept
\* (huboInterrupcion, persistirMemoriaCompleta, liberarVictima).
THEOREM EscritoPersisteSiempre ==
  ASSUME SinComiteados
  PROVE  FairDesalojo => []EscritoPersiste
<1>1. EscritoBien => EscritoPersiste
  BY PersisteEnStorage
<1> QED
  BY <1>1, EscritoBienSiempre, PTL DEF FairDesalojo

\* When a FLUSH ends, the pages of its file:tag, if it is only written, hold
\* what the Storage holds, when one Worker runs the script (persistirMemoria).
THEOREM FlushPersisteSiempre ==
  ASSUME SinComiteados, FlushEnUno
  PROVE  FairDesalojo => FlushPersiste
<1>1. EscritoBien /\ [NextDesalojo]_varsDesalojo
        => [\A ft \in SoloEscritos : TerminaFlush(ft) => IgualQueStorage(ft)]_vars
  BY FlushIguala
<1> QED
  BY <1>1, EscritoBienSiempre, PTL DEF FairDesalojo, SpecDesalojo, FlushPersiste

-----------------------------------------------------------------------------
(* What a READ has read.                                                   *)

Octeto(archivos, ft, d) == archivos[ft].datos[d \div SizeBlock + 1][d % SizeBlock]

\* The first n bytes that an instruction asks for, and how many it reaches.
Tramo(archivos, p, n) == [k \in 1 .. n |-> Octeto(archivos, p.ft, p.dir + k - 1)]
Alcance(p) ==
  LET cubre == MarcosNecesarios(p.tam) * SizeBlock - (p.dir % SizeBlock) IN
  IF p.tam <= cubre THEN p.tam ELSE cubre

SinCeros(archivos, p) ==
  \A k \in 1 .. Alcance(p) : Octeto(archivos, p.ft, p.dir + k - 1) # ByteCero

\* The loop of leerMemoria: what was read is what comes before the address at
\* hand; tam and quedan count the rest of it.
Leidos(i) == i.pag * SizeBlock + i.desp - i.p.dir
EnCurso(archivos, i) ==
  /\ i.pag >= i.p.dir \div SizeBlock
  /\ i.quedan = MarcosNecesarios(i.p.tam) - (i.pag - i.p.dir \div SizeBlock)
  /\ i.quedan = 0 => i.pag = i.p.dir \div SizeBlock
  /\ i.desp = IF i.pag = i.p.dir \div SizeBlock THEN i.p.dir % SizeBlock ELSE 0
  /\ i.tam = i.p.tam - Leidos(i)
  /\ \/ Leidos(i) = 0 /\ i.lectura = <<>>
     \/ archivos[i.p.ft] # NoHay
        /\ (SinCeros(archivos, i.p) => i.lectura = Tramo(archivos, i.p, Leidos(i)))

\* The answer of a READ whose loop ended.
Completa(archivos, i) ==
  SinCeros(archivos, i.p) => i.lectura = Tramo(archivos, i.p, Alcance(i.p))

Lectura ==
  instr.p.op = "READ" /\ instr.p.ft \in SoloLeidos =>
    /\ instr.pc \in {"interrupcion", "sinPagina"} => Completa(arbol, instr)
    /\ instr.pc \in {"pagina"} \cup Cargando => EnCurso(arbol, instr)

-----------------------------------------------------------------------------
(* Addresses.                                                              *)

\* Page and offset of an address.
LEMMA DivideResto ==
  ASSUME NEW s \in Nat \ {0}, NEW d \in Nat
  PROVE  d \div s \in Nat /\ d % s \in 0 .. s - 1 /\ d = (d \div s) * s + (d % s)
OBVIOUS

\* The address of an offset in a page.
LEMMA DireccionDe ==
  ASSUME NEW s \in Nat \ {0}, NEW q \in Nat, NEW r \in 0 .. s - 1
  PROVE  (q * s + r) \div s = q /\ (q * s + r) % s = r
<1>1. q * s \in Nat
  OBVIOUS
<1>2. PICK d \in Nat : d = q * s + r
  BY <1>1
<1>3. PICK a \in Nat, b \in 0 .. s - 1 : a = d \div s /\ b = d % s /\ d = a * s + b
  BY DivideResto
<1>4. ~(a < q)
  <2> SUFFICES ASSUME a < q PROVE FALSE
    OBVIOUS
  <2>1. PICK k \in Nat : q = a + 1 + k
    <3>1. q - a - 1 \in Nat /\ q = a + 1 + (q - a - 1)
      OBVIOUS
    <3> QED
      BY <3>1
  <2>2. q * s = a * s + s + k * s /\ k * s \in Nat /\ a * s \in Nat
    BY <2>1
  <2> QED
    BY <1>2, <1>3, <2>2
<1>5. ~(q < a)
  <2> SUFFICES ASSUME q < a PROVE FALSE
    OBVIOUS
  <2>1. PICK k \in Nat : a = q + 1 + k
    <3>1. a - q - 1 \in Nat /\ a = q + 1 + (a - q - 1)
      OBVIOUS
    <3> QED
      BY <3>1
  <2>2. a * s = q * s + s + k * s /\ k * s \in Nat
    BY <2>1
  <2> QED
    BY <1>1, <1>2, <1>3, <2>2
<1>6. a = q
  BY <1>4, <1>5
<1> QED
  BY <1>1, <1>2, <1>3, <1>6

\* marcosNecesarios rounds up.
LEMMA NecesariosDe ==
  ASSUME NEW t \in Nat
  PROVE  /\ MarcosNecesarios(t) \in Nat /\ t <= MarcosNecesarios(t) * SizeBlock
         /\ MarcosNecesarios(t) * SizeBlock <= t + SizeBlock - 1
         /\ t = 0 => MarcosNecesarios(t) = 0
<1>1. PICK s \in Nat \ {0} : s = SizeBlock
  BY MemoriaAssumption
<1>2. t + s - 1 \in Nat
  OBVIOUS
<1>3. PICK n \in Nat, r \in 0 .. s - 1 :
        n = (t + s - 1) \div s /\ t + s - 1 = n * s + r
  BY <1>2, DivideResto
<1>4. n * s \in Nat
  OBVIOUS
<1>5. t <= n * s /\ n * s <= t + s - 1
  BY <1>3, <1>4
<1>6. ASSUME t = 0 PROVE n = 0
  <2>1. s - 1 \in 0 .. s - 1 /\ s - 1 = 0 * s + (s - 1)
    OBVIOUS
  <2>2. (s - 1) \div s = 0
    BY <2>1, DireccionDe
  <2> QED
    BY <1>3, <1>6, <2>2
<1>7. MarcosNecesarios(t) = n
  BY <1>1, <1>3 DEF MarcosNecesarios
<1> QED
  BY <1>1, <1>5, <1>6, <1>7

\* The bytes of the pages that are counted, from the first address.
LEMMA CubreTipo ==
  ASSUME NEW p, p.tam \in Nat, p.dir \in Nat
  PROVE  MarcosNecesarios(p.tam) * SizeBlock - (p.dir % SizeBlock) \in Int
<1>1. PICK m \in Nat, r \in Nat, t \in Nat : m = MarcosNecesarios(p.tam) /\ r = p.dir % SizeBlock /\ t = SizeBlock
  <2>1. MarcosNecesarios(p.tam) \in Nat
    BY NecesariosDe
  <2>2. p.dir % SizeBlock \in 0 .. SizeBlock - 1 /\ SizeBlock \in Nat
    BY PaginaTipo, MemoriaAssumption
  <2>3. p.dir % SizeBlock \in Nat
    BY <2>2
  <2> QED
    BY <2>1, <2>2, <2>3
<1>2. m * t - r \in Int
  OBVIOUS
<1> QED
  BY <1>1, <1>2

\* The bytes that a READ reaches.
LEMMA AlcanzaEs ==
  ASSUME NEW p, p.tam \in Nat, p.dir \in Nat
  PROVE  Alcanza(p) = Tramo(arbol, p, Alcance(p)) /\ Alcance(p) \in Int
<1>1. PICK cubre \in Int : cubre = MarcosNecesarios(p.tam) * SizeBlock - (p.dir % SizeBlock)
  BY CubreTipo
<1>2. PICK a \in Int : a = IF p.tam <= cubre THEN p.tam ELSE cubre
  OBVIOUS
<1>3. Min({p.tam, cubre}) = a
  BY <1>2 DEF Min
<1>4. Alcance(p) = a
  BY <1>1, <1>2 DEF Alcance
<1>5. p.dir + a - 1 - p.dir + 1 = a
  OBVIOUS
<1>6. Alcanza(p) = [k \in 1 .. a |-> arbol[p.ft].datos[(p.dir + k - 1) \div SizeBlock + 1]
                                                      [(p.dir + k - 1) % SizeBlock]]
  BY <1>1, <1>3, <1>5 DEF Alcanza
<1> QED
  BY <1>4, <1>6 DEF Tramo, Octeto

\* No byte is asked for.
LEMMA AlcanceVacio ==
  ASSUME NEW p, p.tam \in Nat, p.dir \in Nat, p.tam = 0
  PROVE  Alcance(p) \in Int /\ Alcance(p) <= 0
<1>1. PICK a \in Int : a = Alcance(p)
  BY AlcanzaEs
<1>2. PICK cubre \in Int : cubre = MarcosNecesarios(p.tam) * SizeBlock - (p.dir % SizeBlock)
  BY CubreTipo
<1> QED
  BY <1>1, <1>2 DEF Alcance

LEMMA TramoVacio ==
  ASSUME NEW archivos, NEW p, p.tam \in Nat, p.dir \in Nat, p.tam = 0
  PROVE  Tramo(archivos, p, Alcance(p)) = <<>>
<1>1. PICK a \in Int : a = Alcance(p) /\ a <= 0
  BY AlcanceVacio
<1>2. 1 .. a = {}
  BY <1>1
<1> QED
  BY <1>1, <1>2 DEF Tramo

\* The n bytes of a page from an offset, as a text, with no byte 0; the n
\* bytes of a file:tag that follow the first m that an instruction asks for.
Trozo(u, c, desp, n) ==
  u \in Seq(Bytes) /\ Len(u) = n /\ \A k \in 1 .. n : u[k] = c[desp + k - 1]
Llena(c, desp, n) == \A k \in 1 .. n : c[desp + k - 1] # ByteCero
Lleva(l, archivos, p, m) == l \in Seq(Bytes) /\ l = Tramo(archivos, p, m)
Prosigue(u, archivos, p, m, n) ==
  u \in Seq(Bytes) /\ Len(u) = n
  /\ \A k \in 1 .. n : u[k] = Octeto(archivos, p.ft, p.dir + m + k - 1)

\* With no byte 0 in it, leerContenidoParaMaster gives the whole stretch.
LEMMA LeidoEntero ==
  ASSUME NEW c \in Contenidos, NEW desp \in 0 .. SizeBlock - 1, NEW tam \in Nat,
         NEW n, n = IF tam < SizeBlock - desp THEN tam ELSE SizeBlock - desp,
         Llena(c, desp, n)
  PROVE  Trozo(Leido(c, desp, tam), c, desp, n)
<1>1. SizeBlock \in Nat \ {0} /\ n \in Nat /\ n <= SizeBlock - desp
  BY MemoriaAssumption
<1>2. (IF tam < SizeBlock - desp THEN desp + tam ELSE SizeBlock) - desp = n
  BY <1>1
<1>3. PICK bytes : bytes = [k \in 1 .. n |-> c[desp + k - 1]]
  OBVIOUS
<1>4. \A k \in 1 .. n : desp + k - 1 \in 0 .. SizeBlock - 1 /\ c[desp + k - 1] \in Bytes
  BY <1>1 DEF Contenidos
<1>5. bytes \in Seq(Bytes) /\ Len(bytes) = n /\ DOMAIN bytes = 1 .. n
  <2>1. bytes \in [1 .. n -> Bytes]
    BY <1>3, <1>4
  <2>2. bytes \in Seq(Bytes)
    BY <1>1, <2>1, SeqDef
  <2> QED
    BY <1>1, <1>3, <2>2, LenProperties
<1>6. {k \in DOMAIN bytes : bytes[k] = ByteCero} = {}
  BY <1>3, <1>5 DEF Llena
<1>7. SubSeq(bytes, 1, n) = bytes
  BY <1>1, <1>5
<1>8. Leido(c, desp, tam) = SubSeq(bytes, 1, n)
  BY <1>2, <1>3, <1>5, <1>6 DEF Leido
<1> QED
  BY <1>3, <1>5, <1>7, <1>8 DEF Trozo

\* A page more.
LEMMA TramoSigue ==
  ASSUME NEW archivos, NEW p, NEW m \in Nat, NEW n \in Nat, NEW l, NEW u,
         Lleva(l, archivos, p, m), Prosigue(u, archivos, p, m, n), p.dir \in Nat
  PROVE  Lleva(l \o u, archivos, p, m + n)
<1>0. /\ u \in Seq(Bytes) /\ Len(u) = n
      /\ \A k \in 1 .. n : u[k] = Octeto(archivos, p.ft, p.dir + m + k - 1)
      /\ l \in Seq(Bytes) /\ l = Tramo(archivos, p, m)
  BY DEF Prosigue, Lleva
<1>1. Len(l) = m /\ \A k \in 1 .. m : l[k] = Octeto(archivos, p.ft, p.dir + k - 1)
  BY <1>0, LenProperties DEF Tramo
<1>2. /\ l \o u \in Seq(Bytes) /\ Len(l \o u) = m + n
      /\ \A k \in 1 .. m + n : (l \o u)[k] = IF k <= m THEN l[k] ELSE u[k - m]
  <2>1. /\ l \o u \in Seq(Bytes) /\ Len(l \o u) = Len(l) + Len(u)
        /\ \A k \in 1 .. Len(l) + Len(u) : (l \o u)[k] = IF k <= Len(l) THEN l[k] ELSE u[k - Len(l)]
    BY <1>0, ConcatProperties
  <2> QED
    BY <1>0, <1>1, <2>1
<1>3. ASSUME NEW k \in 1 .. m + n
      PROVE  (l \o u)[k] = Octeto(archivos, p.ft, p.dir + k - 1)
  <2>1. CASE k <= m
    BY <1>1, <1>2, <2>1
  <2>2. CASE ~(k <= m)
    <3>1. k - m \in 1 .. n /\ p.dir + m + (k - m) - 1 = p.dir + k - 1
      BY <2>2
    <3> QED
      BY <1>0, <1>2, <2>2, <3>1
  <2> QED
    BY <2>1, <2>2
<1>4. l \o u = [k \in 1 .. m + n |-> (l \o u)[k]]
  BY <1>2, LenProperties
<1> QED
  BY <1>2, <1>3, <1>4 DEF Tramo, Lleva

\* The bytes at hand, in their page.
LEMMA OctetoDe ==
  ASSUME NEW archivos, NEW i \in Turno, i.p.dir \in Nat, NEW k \in 1 .. SizeBlock - i.desp
  PROVE  Octeto(archivos, i.p.ft, i.p.dir + Leidos(i) + k - 1)
           = archivos[i.p.ft].datos[i.pag + 1][i.desp + k - 1]
<1>0. PICK s \in Nat \ {0} : s = SizeBlock
  BY MemoriaAssumption
<1>1. PICK pag \in Nat, desp \in 0 .. s - 1, dir \in Nat :
        s = SizeBlock /\ pag = i.pag /\ desp = i.desp /\ dir = i.p.dir
  BY <1>0 DEF Turno
<1>2. PICK r \in 0 .. s - 1 : r = desp + k - 1
  BY <1>1
<1>3. pag * s \in Nat
  OBVIOUS
<1>4. dir + (pag * s + desp - dir) + k - 1 = pag * s + r
  BY <1>2, <1>3
<1>5. (pag * s + r) \div s = pag /\ (pag * s + r) % s = r
  BY DireccionDe
<1> QED
  BY <1>1, <1>2, <1>4, <1>5 DEF Octeto, Leidos

\* The pages and the bytes still to read, on integers.
LEMMA Cuentas ==
  ASSUME NEW s \in Nat \ {0}, NEW tam \in Nat, NEW n \in Nat, NEW q \in Nat, NEW r \in 0 .. s - 1,
         NEW pag \in Nat, NEW desp \in Nat, NEW quedan \in Nat,
         tam <= n * s, n * s <= tam + s - 1, pag >= q, quedan = n - (pag - q),
         desp = IF pag = q THEN r ELSE 0, quedan > 0,
         NEW leidos, leidos = pag * s + desp - (q * s + r),
         NEW b, b = IF tam - leidos < s - desp THEN tam - leidos ELSE s - desp
  PROVE  /\ leidos \in Nat /\ b \in Nat /\ (leidos = 0 \/ pag # q)
         /\ leidos + b <= tam /\ leidos + b <= n * s - r
         /\ quedan = 1 => leidos + b = IF tam <= n * s - r THEN tam ELSE n * s - r
         /\ quedan > 1 => /\ b = s - desp /\ ~(tam - leidos < s - desp)
                          /\ leidos + b = (pag + 1) * s - (q * s + r)
<1>1. PICK g \in Nat : pag = q + g
  <2>1. pag - q \in Nat /\ pag = q + (pag - q)
    OBVIOUS
  <2> QED
    BY <2>1
<1>2. PICK a \in Nat, c \in Nat, d \in Nat : a = g * s /\ c = n * s /\ d = q * s
  OBVIOUS
<1>3. pag * s = d + a /\ (pag + 1) * s = d + a + s
  BY <1>1, <1>2
<1>4. leidos = a + desp - r
  BY <1>2, <1>3
<1>5. g = 0 => a = 0
  BY <1>2
<1>6. g # 0 => a >= s
  <2> SUFFICES ASSUME g # 0 PROVE a >= s
    OBVIOUS
  <2>1. PICK h \in Nat : g = h + 1
    <3>1. g - 1 \in Nat /\ g = (g - 1) + 1
      OBVIOUS
    <3> QED
      BY <3>1
  <2>2. a = h * s + s /\ h * s \in Nat
    BY <1>2, <2>1
  <2> QED
    BY <2>2
<1>7. PICK k \in Nat : n = g + 1 + k /\ quedan = k + 1
  <2>1. n - g - 1 \in Nat /\ n = g + 1 + (n - g - 1)
    BY <1>1
  <2> QED
    BY <1>1, <2>1
<1>8. PICK e \in Nat : e = k * s /\ c = a + s + e
  BY <1>2, <1>7
<1>9. (k = 0 => e = 0) /\ (k # 0 => e >= s)
  <2>1. k = 0 => e = 0
    BY <1>8
  <2>2. ASSUME k # 0 PROVE e >= s
    <3>1. PICK h \in Nat : k = h + 1
      <4>1. k - 1 \in Nat /\ k = (k - 1) + 1
        BY <2>2
      <4> QED
        BY <4>1
    <3>2. e = h * s + s /\ h * s \in Nat
      BY <1>8, <3>1
    <3> QED
      BY <3>2
  <2> QED
    BY <2>1, <2>2
<1>10. tam <= c /\ c <= tam + s - 1
  BY <1>2
<1>11. desp = IF g = 0 THEN r ELSE 0
  BY <1>1
<1>12. leidos \in Nat /\ tam - leidos > 0 /\ (leidos = 0 \/ g # 0)
  BY <1>4, <1>5, <1>6, <1>8, <1>10, <1>11
<1>13. b \in Nat /\ leidos + b <= tam /\ leidos + b <= c - r
  BY <1>4, <1>5, <1>6, <1>8, <1>10, <1>11, <1>12
<1>14. quedan = 1 => leidos + b = IF tam <= c - r THEN tam ELSE c - r
  BY <1>4, <1>5, <1>7, <1>8, <1>9, <1>10, <1>11, <1>12
<1>15. quedan > 1 => /\ b = s - desp /\ ~(tam - leidos < s - desp)
                     /\ leidos + b = d + a + s - (d + r)
  BY <1>4, <1>5, <1>7, <1>8, <1>9, <1>10, <1>11, <1>12
<1> QED
  BY <1>1, <1>2, <1>3, <1>12, <1>13, <1>14, <1>15

\* What the loop of leerMemoria counts, in the middle of it.
LEMMA EnCursoCuentas ==
  ASSUME NEW archivos, NEW i \in Turno, i.p.dir \in Nat, i.p.tam \in Nat, EnCurso(archivos, i),
         i.quedan > 0,
         NEW b, b = IF i.tam < SizeBlock - i.desp THEN i.tam ELSE SizeBlock - i.desp
  PROVE  /\ Leidos(i) \in Nat /\ b \in Nat /\ Leidos(i) + b <= Alcance(i.p)
         /\ i.quedan = 1 => Leidos(i) + b = Alcance(i.p)
         /\ i.quedan > 1 => /\ b = SizeBlock - i.desp /\ Resto(i.tam, i.desp) = i.tam - b
                            /\ Leidos(i) + b = (i.pag + 1) * SizeBlock - i.p.dir
<1>1. PICK s \in Nat \ {0} : s = SizeBlock
  BY MemoriaAssumption
<1>2. PICK tam \in Nat, n \in Nat : tam = i.p.tam /\ n = MarcosNecesarios(tam)
  BY NecesariosDe
<1>3. PICK q \in Nat, r \in 0 .. s - 1 :
        q = i.p.dir \div s /\ r = i.p.dir % s /\ i.p.dir = q * s + r
  <2>1. PICK d \in Nat : d = i.p.dir
    OBVIOUS
  <2>2. d \div s \in Nat /\ d % s \in 0 .. s - 1 /\ d = (d \div s) * s + (d % s)
    BY DivideResto
  <2> QED
    BY <2>1, <2>2
<1>4. PICK pag \in Nat, desp \in Nat, quedan \in Nat :
        pag = i.pag /\ desp = i.desp /\ quedan = i.quedan
  BY <1>1 DEF Turno
<1>5. tam <= n * s /\ n * s <= tam + s - 1
  BY <1>1, <1>2, NecesariosDe
<1>6. /\ pag >= q /\ quedan = n - (pag - q) /\ desp = IF pag = q THEN r ELSE 0
      /\ quedan > 0 /\ i.tam = tam - Leidos(i)
  BY <1>1, <1>2, <1>3, <1>4 DEF EnCurso
<1>7. PICK leidos : leidos = Leidos(i)
  OBVIOUS
<1>8. leidos = pag * s + desp - (q * s + r)
  BY <1>1, <1>3, <1>4, <1>7 DEF Leidos
<1>9. b = IF tam - leidos < s - desp THEN tam - leidos ELSE s - desp
  BY <1>1, <1>4, <1>6, <1>7
<1>10. /\ leidos \in Nat /\ b \in Nat /\ leidos + b <= tam /\ leidos + b <= n * s - r
       /\ quedan = 1 => leidos + b = IF tam <= n * s - r THEN tam ELSE n * s - r
       /\ quedan > 1 => /\ b = s - desp /\ ~(tam - leidos < s - desp)
                        /\ leidos + b = (pag + 1) * s - (q * s + r)
  BY <1>5, <1>6, <1>8, <1>9, Cuentas
<1>11. Alcance(i.p) = IF tam <= n * s - r THEN tam ELSE n * s - r
  BY <1>1, <1>2, <1>3 DEF Alcance
<1>12. quedan > 1 => Resto(i.tam, i.desp) = i.tam - b
  BY <1>1, <1>4, <1>6, <1>7, <1>10 DEF Resto
<1>13. leidos + b <= Alcance(i.p)
  BY <1>10, <1>11
<1> QED
  BY <1>1, <1>3, <1>4, <1>7, <1>10, <1>11, <1>12, <1>13

\* One page of the loop of leerMemoria.
LEMMA LecturaAvanza ==
  ASSUME NEW archivos, NEW i \in Turno, i.p.dir \in Nat, i.p.tam \in Nat, EnCurso(archivos, i),
         i.quedan > 0, archivos[i.p.ft] # NoHay,
         NEW c \in Contenidos, c = archivos[i.p.ft].datos[i.pag + 1],
         NEW j, j.p = i.p, j.pag = i.pag + 1, j.quedan = i.quedan - 1, j.desp = 0,
         j.tam = Resto(i.tam, i.desp), j.lectura = i.lectura \o Leido(c, i.desp, i.tam)
  PROVE  /\ i.quedan = 1 => Completa(archivos, j)
         /\ i.quedan > 1 => EnCurso(archivos, j)
<1>1. PICK b : b = IF i.tam < SizeBlock - i.desp THEN i.tam ELSE SizeBlock - i.desp
  OBVIOUS
<1>2. /\ Leidos(i) \in Nat /\ b \in Nat /\ Leidos(i) + b <= Alcance(i.p)
      /\ i.quedan = 1 => Leidos(i) + b = Alcance(i.p)
      /\ i.quedan > 1 => /\ b = SizeBlock - i.desp /\ Resto(i.tam, i.desp) = i.tam - b
                         /\ Leidos(i) + b = (i.pag + 1) * SizeBlock - i.p.dir
  BY <1>1, EnCursoCuentas
<1>3. /\ i.tam \in Nat /\ i.desp \in 0 .. SizeBlock - 1 /\ i.lectura \in Seq(Bytes) /\ i.pag \in Nat
      /\ SizeBlock \in Nat \ {0} /\ b <= SizeBlock - i.desp /\ i.quedan \in Nat
  BY <1>1, MemoriaAssumption DEF Turno
<1>4. ASSUME SinCeros(archivos, i.p)
      PROVE  j.lectura = Tramo(archivos, i.p, Leidos(i) + b)
  <2>1. PICK m \in Nat, dir \in Nat, n \in Nat : m = Leidos(i) /\ dir = i.p.dir /\ n = b
    BY <1>2
  <2>2. i.lectura = Tramo(archivos, i.p, m)
    <3>1. CASE m = 0 /\ i.lectura = <<>>
      BY <3>1 DEF Tramo
    <3>2. CASE ~(m = 0 /\ i.lectura = <<>>)
      BY <1>4, <2>1, <3>2 DEF EnCurso
    <3> QED
      BY <3>1, <3>2
  <2>3. ASSUME NEW k \in 1 .. n
        PROVE  /\ c[i.desp + k - 1] = Octeto(archivos, i.p.ft, dir + m + k - 1)
               /\ c[i.desp + k - 1] # ByteCero
    <3>1. k \in 1 .. SizeBlock - i.desp
      BY <1>3, <2>1
    <3>2. c[i.desp + k - 1] = Octeto(archivos, i.p.ft, dir + m + k - 1)
      BY <2>1, <3>1, OctetoDe
    <3>3. m + k \in 1 .. Alcance(i.p)
      <4>1. Alcance(i.p) \in Int
        BY AlcanzaEs
      <4> QED
        BY <1>2, <2>1, <4>1
    <3>4. dir + (m + k) - 1 = dir + m + k - 1
      OBVIOUS
    <3>5. Octeto(archivos, i.p.ft, dir + (m + k) - 1) # ByteCero
      BY <1>4, <2>1, <3>3 DEF SinCeros
    <3> QED
      BY <3>2, <3>4, <3>5
  <2>4. PICK u : u = Leido(c, i.desp, i.tam)
    OBVIOUS
  <2>5. Trozo(u, c, i.desp, n)
    <3>1. PICK desp \in 0 .. SizeBlock - 1, tam \in Nat : desp = i.desp /\ tam = i.tam
      BY <1>3
    <3>2. n = IF tam < SizeBlock - desp THEN tam ELSE SizeBlock - desp
      BY <1>1, <2>1, <3>1
    <3>3. Llena(c, desp, n)
      BY <2>3, <3>1 DEF Llena
    <3>4. Trozo(Leido(c, desp, tam), c, desp, n)
      BY <3>2, <3>3, LeidoEntero
    <3> QED
      BY <2>4, <3>1, <3>4
  <2>6. Prosigue(u, archivos, i.p, m, n)
    <3>1. u \in Seq(Bytes) /\ Len(u) = n /\ \A k \in 1 .. n : u[k] = c[i.desp + k - 1]
      BY <2>5 DEF Trozo
    <3>2. \A k \in 1 .. n : u[k] = Octeto(archivos, i.p.ft, i.p.dir + m + k - 1)
      BY <2>1, <2>3, <3>1
    <3> QED
      BY <3>1, <3>2 DEF Prosigue
  <2>7. i.lectura \o u = Tramo(archivos, i.p, m + n)
    <3>1. PICK p : p = i.p
      OBVIOUS
    <3>2. p.dir \in Nat /\ Prosigue(u, archivos, p, m, n) /\ Lleva(i.lectura, archivos, p, m)
      BY <1>3, <2>2, <2>6, <3>1 DEF Lleva
    <3>3. Lleva(i.lectura \o u, archivos, p, m + n)
      BY <3>2, TramoSigue
    <3> QED
      BY <3>1, <3>3 DEF Lleva
  <2> QED
    BY <2>1, <2>4, <2>7
<1>5. ASSUME i.quedan > 1
      PROVE  EnCurso(archivos, j)
  <2>1. PICK q \in Nat, n \in Nat : q = i.p.dir \div SizeBlock /\ n = MarcosNecesarios(i.p.tam)
    BY PaginaTipo, NecesariosDe
  <2>2. i.pag >= q /\ i.quedan = n - (i.pag - q) /\ i.tam = i.p.tam - Leidos(i)
    BY <2>1 DEF EnCurso
  <2>3. Leidos(j) = Leidos(i) + b
    <3>1. PICK x \in Int : x = (i.pag + 1) * SizeBlock
      BY <1>3
    <3>2. Leidos(j) = x + 0 - i.p.dir
      BY <3>1 DEF Leidos
    <3> QED
      BY <1>2, <1>5, <3>1, <3>2
  <2>4. j.pag >= q /\ j.quedan = n - (j.pag - q) /\ j.pag # q /\ j.quedan # 0
    <3>1. PICK pag \in Nat, quedan \in Nat : pag = i.pag /\ quedan = i.quedan
      BY <1>3
    <3>2. j.pag = pag + 1 /\ j.quedan = quedan - 1 /\ pag >= q /\ quedan = n - (pag - q)
          /\ quedan > 1
      BY <1>5, <2>2, <3>1
    <3>3. pag + 1 >= q /\ quedan - 1 = n - (pag + 1 - q) /\ pag + 1 # q
      BY <3>2
    <3>4. quedan - 1 # 0
      BY <3>2
    <3> QED
      BY <3>2, <3>3, <3>4
  <2>5. j.tam = i.p.tam - Leidos(j)
    <3>1. PICK m \in Nat, n1 \in Nat, tam \in Nat, t \in Nat :
            m = Leidos(i) /\ n1 = b /\ tam = i.p.tam /\ t = i.tam
      BY <1>2, <1>3
    <3>2. t = tam - m /\ j.tam = t - n1 /\ Leidos(j) = m + n1
      BY <1>2, <1>5, <2>2, <2>3, <3>1
    <3>3. t - n1 = tam - (m + n1)
      BY <3>2
    <3> QED
      BY <3>1, <3>2, <3>3
  <2> QED
    BY <1>4, <2>1, <2>3, <2>4, <2>5 DEF EnCurso
<1> QED
  BY <1>2, <1>4, <1>5 DEF Completa

-----------------------------------------------------------------------------
(* The READ at hand.                                                       *)

\* The account depends on the Storage only through what was read of it.
LEMMA EnCursoIgual ==
  ASSUME NEW antes, NEW despues, NEW i, NEW j, EnCurso(antes, i),
         antes[i.p.ft] # NoHay => despues[i.p.ft] = antes[i.p.ft],
         j.p = i.p, j.pag = i.pag, j.desp = i.desp, j.quedan = i.quedan, j.tam = i.tam,
         j.lectura = i.lectura
  PROVE  EnCurso(despues, j)
<1>1. Leidos(j) = Leidos(i)
  BY DEF Leidos
<1>2. CASE antes[i.p.ft] # NoHay
  <2>1. \A d : Octeto(despues, i.p.ft, d) = Octeto(antes, i.p.ft, d)
    BY <1>2 DEF Octeto
  <2>2. SinCeros(despues, i.p) <=> SinCeros(antes, i.p)
    BY <2>1 DEF SinCeros
  <2>3. \A n : Tramo(despues, i.p, n) = Tramo(antes, i.p, n)
    BY <2>1 DEF Tramo
  <2> QED
    BY <1>1, <1>2, <2>2, <2>3 DEF EnCurso
<1>3. CASE antes[i.p.ft] = NoHay
  BY <1>1, <1>3 DEF EnCurso
<1> QED
  BY <1>2, <1>3

\* A READ has an address and a length.
LEMMA LecturaTipo ==
  ASSUME TypeOK
  PROVE  instr.p.dir \in Nat /\ instr.p.tam \in Nat /\ instr.p.ft \in FileTags
BY TurnoTipo DEF Instruccion, Fin

\* What the invariant says of the next state.
LEMMA LecturaEs ==
  ASSUME guion' = guion,
         instr'.p.op = "READ" /\ instr'.p.ft \in SoloLeidos =>
           /\ instr'.pc \in {"interrupcion", "sinPagina"} => Completa(arbol', instr')
           /\ instr'.pc \in {"pagina"} \cup Cargando => EnCurso(arbol', instr')
  PROVE  Lectura'
<1>1. SoloLeidos' = SoloLeidos
  BY LeidosFijos
<1>2. EnCurso(arbol, instr)' <=> EnCurso(arbol', instr')
  BY DEF EnCurso, Leidos, SinCeros, Tramo, Octeto
<1>3. Completa(arbol, instr)' <=> Completa(arbol', instr')
  BY DEF Completa, SinCeros, Tramo, Octeto
<1> QED
  BY <1>1, <1>2, <1>3 DEF Lectura, Cargando

\* No READ is under way.
LEMMA LecturaOtra ==
  ASSUME guion' = guion,
         \/ instr'.p.op # "READ"
         \/ instr'.pc \notin {"interrupcion", "sinPagina", "pagina"} \cup Cargando
  PROVE  Lectura'
BY LecturaEs

\* The page of the READ is still being loaded.
LEMMA LecturaCargando ==
  ASSUME Lectura, guion' = guion, instr.pc \in {"pagina"} \cup Cargando, instr'.pc \in Cargando,
         Conserva(arbol, arbol', SoloLeidos),
         instr'.p = instr.p, instr'.pag = instr.pag, instr'.desp = instr.desp,
         instr'.quedan = instr.quedan, instr'.tam = instr.tam, instr'.lectura = instr.lectura
  PROVE  Lectura'
<1>1. instr.p.op = "READ" /\ instr.p.ft \in SoloLeidos => EnCurso(arbol', instr')
  <2> SUFFICES ASSUME instr.p.op = "READ", instr.p.ft \in SoloLeidos
               PROVE  EnCurso(arbol', instr')
    OBVIOUS
  <2>1. EnCurso(arbol, instr)
    BY DEF Lectura
  <2>2. arbol[instr.p.ft] # NoHay => arbol'[instr.p.ft] = arbol[instr.p.ft]
    BY DEF Conserva
  <2> QED
    BY <2>1, <2>2, EnCursoIgual
<1>2. instr'.pc \notin {"interrupcion", "sinPagina"}
  BY DEF Cargando
<1> QED
  BY <1>1, <1>2, LecturaEs

\* A READ begins with nothing read.
LEMMA LecturaComienza ==
  ASSUME TypeOK, guion \in Guiones, ComienzaAcceso
  PROVE  Lectura'
<1>1. PICK p \in guion :
        /\ p.op \in {"WRITE", "READ"}
        /\ instr' = [Ociosa EXCEPT !.p = p,
                       !.pc = IF Largo(p) = 0 /\ tablas[p.ft] # <<>> THEN "sinPagina" ELSE "pagina",
                       !.pag = p.dir \div SizeBlock, !.desp = p.dir % SizeBlock,
                       !.quedan = MarcosNecesarios(Largo(p)), !.datos = p.datos, !.tam = p.tam]
  BY DEF ComienzaAcceso
<1>2. guion' = guion /\ arbol' = arbol
  BY DEF ComienzaAcceso, En
<1>3. PICK pc, pag, desp, quedan :
        /\ pc = IF Largo(p) = 0 /\ tablas[p.ft] # <<>> THEN "sinPagina" ELSE "pagina"
        /\ pag = p.dir \div SizeBlock /\ desp = p.dir % SizeBlock
        /\ quedan = MarcosNecesarios(Largo(p))
  OBVIOUS
<1>4. instr' = [Ociosa EXCEPT !.p = p, !.pc = pc, !.pag = pag, !.desp = desp,
                  !.quedan = quedan, !.datos = p.datos, !.tam = p.tam]
  BY <1>1, <1>3
<1>5. /\ instr'.p = p /\ instr'.pc = pc /\ instr'.pag = pag /\ instr'.desp = desp
      /\ instr'.quedan = quedan /\ instr'.tam = p.tam
  BY <1>4, OciosaTipo DEF Turno
<1>6. instr'.lectura = <<>>
  <2>1. Ociosa.lectura = <<>>
    BY DEF Ociosa
  <2> QED
    BY <1>4, <2>1, OciosaTipo DEF Turno
<1>7. p.dir \in Nat /\ p.tam \in Nat
  BY GuionTipo, InstruccionTipo
<1> SUFFICES ASSUME p.op = "READ"
             PROVE  /\ pc = "sinPagina" => Completa(arbol', instr')
                    /\ pc = "pagina" => EnCurso(arbol', instr')
  <2>1. pc \in {"sinPagina", "pagina"}
    BY <1>3
  <2> QED
    BY <1>2, <1>5, <2>1, LecturaEs DEF Cargando
<1>8. Largo(p) = p.tam
  BY DEF Largo
<1>9. ASSUME pc = "sinPagina" PROVE Completa(arbol', instr')
  <2>1. p.tam = 0
    BY <1>3, <1>8, <1>9
  <2> QED
    BY <1>5, <1>6, <1>7, <2>1, TramoVacio DEF Completa
<1>10. EnCurso(arbol', instr')
  <2>1. PICK s \in Nat \ {0}, d \in Nat : s = SizeBlock /\ d = p.dir
    BY <1>7, MemoriaAssumption
  <2>2. pag \in Nat /\ desp \in Nat /\ d = pag * s + desp
    <3>1. d \div s \in Nat /\ d % s \in 0 .. s - 1 /\ d = (d \div s) * s + (d % s)
      BY DivideResto
    <3>2. pag = d \div s /\ desp = d % s
      BY <1>3, <2>1
    <3> QED
      BY <3>1, <3>2
  <2>3. pag * s + desp - d = 0
    BY <2>2
  <2>4. Leidos(instr') = 0
    BY <1>5, <2>1, <2>3 DEF Leidos
  <2>5. quedan \in Nat /\ pag - pag = 0 /\ pag >= pag /\ quedan - 0 = quedan /\ p.tam - 0 = p.tam
    <3>1. MarcosNecesarios(p.tam) \in Nat
      BY <1>7, NecesariosDe
    <3> QED
      BY <1>3, <1>7, <1>8, <2>2, <3>1
  <2> QED
    BY <1>3, <1>5, <1>6, <1>8, <2>4, <2>5 DEF EnCurso
<1> QED
  BY <1>9, <1>10

\* What is read of a frame is the block the Storage holds.
LEMMA FielesPrima ==
  ASSUME Fieles', guion' = guion, instr'.pc \notin Cargando
  PROVE  IgualesDe(arbol', tablas', marcos', {}, SoloLeidos)
<1>1. AlAire' = {} /\ SoloLeidos' = SoloLeidos
  BY LeidosFijos DEF AlAire, Cargando
<1>2. IgualesDe(arbol, tablas, marcos, AlAire, SoloLeidos)'
  BY DEF Fieles
<1> QED
  BY <1>1, <1>2 DEF IgualesDe, EnMarco, Tiene, Pag, Hay

\* What AccedeA leaves of a READ.
LEMMA LeeDe ==
  ASSUME NEW t, NEW mem, AccedeA(t, mem), instr.p.op = "READ", TypeOK
  PROVE  /\ instr.quedan > 0
         /\ instr'.pc = IF instr.quedan = 1 THEN "interrupcion" ELSE "pagina"
         /\ instr'.p = instr.p /\ instr'.pag = instr.pag + 1 /\ instr'.quedan = instr.quedan - 1
         /\ instr'.desp = 0 /\ instr'.tam = Resto(instr.tam, instr.desp)
         /\ instr'.lectura = instr.lectura \o Leido(mem[Pag(t, Nueva).marco], instr.desp, instr.tam)
         /\ marcos' = mem
<1>1. ~EsEscritura
  BY DEF EsEscritura
<1>2. Nueva.ft = instr.p.ft /\ Nueva.n = instr.pag
  BY TurnoTipo
<1>3. PICK pc, pag, quedan, datos, tam, lectura :
        /\ pc = IF instr.quedan = 1 THEN "interrupcion" ELSE "pagina"
        /\ pag = instr.pag + 1 /\ quedan = instr.quedan - 1 /\ datos = Sobrante(instr.desp, instr.datos)
        /\ tam = Resto(instr.tam, instr.desp)
        /\ lectura = instr.lectura \o Leido(mem[Pag(t, Nueva).marco], instr.desp, instr.tam)
  OBVIOUS
<1>4. instr' = [Ociosa EXCEPT !.pc = pc, !.p = instr.p, !.pag = pag, !.quedan = quedan,
                              !.datos = datos, !.tam = tam, !.lectura = lectura]
  BY <1>1, <1>2, <1>3 DEF AccedeA, Pag
<1>5. /\ instr'.pc = pc /\ instr'.p = instr.p /\ instr'.pag = pag /\ instr'.quedan = quedan
      /\ instr'.tam = tam /\ instr'.lectura = lectura /\ instr'.desp = Ociosa.desp
  BY <1>4, OciosaTipo DEF Turno
<1>6. Ociosa.desp = 0
  BY DEF Ociosa
<1> QED
  BY <1>1, <1>3, <1>5, <1>6 DEF AccedeA

\* One turn of the loop, or none at all.
LEMMA LecturaAccede ==
  ASSUME TypeOK, Lectura, guion' = guion, Fieles', Conserva(arbol, arbol', SoloLeidos),
         instr.pc \in {"pagina"} \cup Cargando,
         NEW t \in Tablas, NEW mem \in [Marcos -> Contenidos], Accede(t, mem),
         Tiene(t, Nueva), Pag(t, Nueva).precencia
  PROVE  Lectura'
<1>1. EfectoAcceso(t, mem)
  BY AccedeEfecto
<1>2. instr'.p = instr.p /\ instr'.pc \in {"interrupcion", "pagina", "sinPagina"}
      /\ Retocadas(t, tablas') /\ instr'.pc \notin Cargando
  BY <1>1 DEF EfectoAcceso, Cargando
<1> SUFFICES ASSUME instr.p.op = "READ", instr.p.ft \in SoloLeidos
             PROVE  /\ instr'.pc \in {"interrupcion", "sinPagina"} => Completa(arbol', instr')
                    /\ instr'.pc = "pagina" => EnCurso(arbol', instr')
  BY <1>2, LecturaEs
<1>3. EnCurso(arbol, instr)
  BY DEF Lectura
<1>4. instr.p.dir \in Nat /\ instr.p.tam \in Nat /\ instr.p.ft \in FileTags /\ instr \in Turno
  BY LecturaTipo, TurnoTipo
<1>5. CASE AccedeA(t, mem)
  <2>1. /\ instr.quedan > 0
        /\ instr'.pc = IF instr.quedan = 1 THEN "interrupcion" ELSE "pagina"
        /\ instr'.p = instr.p /\ instr'.pag = instr.pag + 1 /\ instr'.quedan = instr.quedan - 1
        /\ instr'.desp = 0 /\ instr'.tam = Resto(instr.tam, instr.desp)
        /\ instr'.lectura = instr.lectura \o Leido(mem[Pag(t, Nueva).marco], instr.desp, instr.tam)
        /\ marcos' = mem
    BY <1>5, LeeDe
  <2>2. PICK a \in Entradas : a = Nueva /\ a.ft = instr.p.ft /\ a.n = instr.pag
    BY TurnoTipo
  <2>3. a \in EnMarco(tablas', {}) /\ Pag(tablas', a).marco = Pag(t, a).marco
    BY <1>2, <2>2 DEF Retocadas, EnMarco
  <2>4. IgualesDe(arbol', tablas', marcos', {}, SoloLeidos)
    BY <1>2, FielesPrima
  <2>5. /\ arbol'[instr.p.ft] # NoHay
        /\ mem[Pag(t, Nueva).marco] = arbol'[instr.p.ft].datos[instr.pag + 1]
    BY <2>1, <2>2, <2>3, <2>4 DEF IgualesDe, Hay
  <2>6. PICK c \in Contenidos : c = mem[Pag(t, Nueva).marco]
    BY <2>2, PagTipo DEF Pagina
  <2>7. PICK despues, j : despues = arbol' /\ j = instr'
    OBVIOUS
  <2>8. EnCurso(despues, instr)
    <3>1. arbol[instr.p.ft] # NoHay => despues[instr.p.ft] = arbol[instr.p.ft]
      BY <2>7 DEF Conserva
    <3> QED
      BY <1>3, <3>1, EnCursoIgual
  <2>9. /\ j.p = instr.p /\ j.pag = instr.pag + 1 /\ j.quedan = instr.quedan - 1 /\ j.desp = 0
        /\ j.tam = Resto(instr.tam, instr.desp)
        /\ j.lectura = instr.lectura \o Leido(c, instr.desp, instr.tam)
        /\ c = despues[instr.p.ft].datos[instr.pag + 1] /\ despues[instr.p.ft] # NoHay
    BY <2>1, <2>5, <2>6, <2>7
  <2>10. /\ instr.quedan = 1 => Completa(despues, j)
         /\ instr.quedan > 1 => EnCurso(despues, j)
    BY <1>4, <2>1, <2>8, <2>9, LecturaAvanza
  <2>11. instr.quedan = 1 \/ instr.quedan > 1
    BY <2>1, TurnoTipo
  <2> QED
    BY <2>1, <2>7, <2>10, <2>11
<1>6. CASE SinAcceso(t, mem)
  <2>1. /\ instr.quedan = 0 /\ instr'.pc = "sinPagina" /\ instr'.p = instr.p
        /\ instr'.lectura = instr.lectura
    <3>1. instr.quedan = 0 /\ instr' = [instr EXCEPT !.pc = "sinPagina"]
      BY <1>6 DEF SinAcceso, Va
    <3> QED
      BY <3>1, TurnoTipo DEF Turno
  <2>2. MarcosNecesarios(instr.p.tam) = 0 /\ Leidos(instr) = 0
    <3>1. PICK s \in Nat \ {0}, d \in Nat : s = SizeBlock /\ d = instr.p.dir
      BY <1>4, MemoriaAssumption
    <3>2. d \div s \in Nat /\ d % s \in 0 .. s - 1 /\ d = (d \div s) * s + (d % s)
      BY DivideResto
    <3>3. instr.pag = d \div s /\ instr.desp = d % s
          /\ 0 = MarcosNecesarios(instr.p.tam) - (instr.pag - d \div s)
      BY <1>3, <2>1, <3>1 DEF EnCurso
    <3>4. Leidos(instr) = (d \div s) * s + (d % s) - d
      BY <3>1, <3>3 DEF Leidos
    <3>5. MarcosNecesarios(instr.p.tam) \in Nat
      BY <1>4, NecesariosDe
    <3> QED
      BY <3>2, <3>3, <3>4, <3>5
  <2>3. instr.p.tam = 0
    <3>1. PICK n \in Nat, tam \in Nat, s \in Nat :
            n = MarcosNecesarios(instr.p.tam) /\ tam = instr.p.tam /\ s = SizeBlock
      BY <1>4, NecesariosDe, MemoriaAssumption
    <3>2. tam <= n * s
      BY <3>1, NecesariosDe
    <3>3. n * s = 0
      BY <2>2, <3>1
    <3> QED
      BY <3>1, <3>2, <3>3
  <2>4. \A archivos : Tramo(archivos, instr.p, Alcance(instr.p)) = <<>>
    BY <1>4, <2>3, TramoVacio
  <2>5. instr.lectura = <<>>
    <3>1. SinCeros(arbol, instr.p)
      <4>1. PICK a \in Int : a = Alcance(instr.p)
        BY <1>4, AlcanzaEs
      <4>2. a <= 0
        BY <1>4, <2>3, <4>1, AlcanceVacio
      <4> QED
        BY <4>1, <4>2 DEF SinCeros
    <3>2. Tramo(arbol, instr.p, 0) = <<>>
      BY DEF Tramo
    <3> QED
      BY <1>3, <2>2, <3>1, <3>2 DEF EnCurso
  <2> QED
    BY <2>1, <2>4, <2>5 DEF Completa
<1> QED
  BY <1>5, <1>6 DEF Accede

\* A page that gets its frame is present when it is read.
LEMMA CargaPresente ==
  ASSUME TypeOK, NEW t \in Tablas, NEW m \in Marcos, Carga(t, global, m),
         Tiene(t, Nueva) => Pag(t, Nueva).precencia
  PROVE  \E u \in Tablas, mem \in [Marcos -> Contenidos] :
           Accede(u, mem) /\ Tiene(u, Nueva) /\ Pag(u, Nueva).precencia
<1>1. /\ Nueva \in Entradas /\ Nueva.ft = instr.p.ft /\ Nueva.n = instr.pag
      /\ EsEscritura \in BOOLEAN /\ instr.leido \in Contenidos
  BY TurnoTipo
<1>2. marcos \in [Marcos -> Contenidos]
  BY TipoDe
<1>3. PICK u : u = ConMarco(t, Nueva, m, EsEscritura)
  OBVIOUS
<1>4. PICK mem \in [Marcos -> Contenidos] :
        mem = IF EsEscritura THEN marcos ELSE [marcos EXCEPT ![m] = instr.leido]
  BY <1>1, <1>2
<1>5. Accede(u, mem)
  BY <1>1, <1>3, <1>4 DEF Carga, ConMarco, Nueva
<1>6. PICK e \in Entradas : e = Nueva
  BY <1>1
<1>7. EfectoMarco(t, e, m, u)
  BY <1>1, <1>3, <1>6, ConMarcoEfecto
<1>8. u \in Tablas /\ Tiene(u, Nueva) /\ Pag(u, Nueva).precencia
  BY <1>6, <1>7 DEF EfectoMarco
<1> QED
  BY <1>5, <1>8

\* A page that was in memory.
LEMMA LecturaPresente ==
  ASSUME MemoriaBien, Lectura, guion' = guion, Fieles', Conserva(arbol, arbol', SoloLeidos),
         AccedePresente
  PROVE  Lectura'
<1>1. /\ instr.pc = "pagina" /\ TypeOK /\ tablas \in Tablas /\ marcos \in [Marcos -> Contenidos]
      /\ Tiene(tablas, Nueva) /\ Pag(tablas, Nueva).precencia /\ AccedeA(tablas, marcos)
  BY TipoDe, PresenteDe DEF AccedePresente, En, MemoriaBien
<1>2. PICK t \in Tablas, mem \in [Marcos -> Contenidos] : t = tablas /\ mem = marcos
  BY <1>1
<1>3. Accede(t, mem) /\ Tiene(t, Nueva) /\ Pag(t, Nueva).precencia
  BY <1>1, <1>2 DEF Accede
<1> QED
  BY <1>1, <1>3, LecturaAccede

\* A page that gets a free frame, or the frame of a victim.
LEMMA LecturaCarga ==
  ASSUME MemoriaBien, Lectura, guion' = guion, Fieles', Conserva(arbol, arbol', SoloLeidos),
         AsignaLibre \/ LiberaYCarga
  PROVE  Lectura'
<1>1. TypeOK /\ instr.pc \in Cargando /\ tablas \in Tablas
  BY TipoDe DEF AsignaLibre, LiberaYCarga, En, MemoriaBien, Cargando
<1> SUFFICES \E t \in Tablas, m \in Marcos :
               Carga(t, global, m) /\ (Tiene(t, Nueva) => Pag(t, Nueva).precencia)
  <2>1. PICK t \in Tablas, m \in Marcos :
          Carga(t, global, m) /\ (Tiene(t, Nueva) => Pag(t, Nueva).precencia)
    OBVIOUS
  <2>2. PICK u \in Tablas, mem \in [Marcos -> Contenidos] :
          Accede(u, mem) /\ Tiene(u, Nueva) /\ Pag(u, Nueva).precencia
    BY <1>1, <2>1, CargaPresente
  <2> QED
    BY <1>1, <2>2, LecturaAccede
<1>2. CASE AsignaLibre
  <2>1. instr.pc = "asignar" /\ \E m \in Marcos : Carga(tablas, global, m)
    BY <1>2 DEF AsignaLibre, En
  <2>2. Tiene(tablas, Nueva) => Pag(tablas, Nueva).precencia
    BY <2>1, CargandoDe DEF MemoriaBien
  <2> QED
    BY <1>1, <2>1, <2>2
<1>3. CASE LiberaYCarga
  <2>1. PICK e \in Entradas : e = instr.victima
    BY <1>1, TurnoTipo
  <2>2. instr.pc = "liberar" /\ Carga(TrasLiberar(e), global, Pag(tablas, e).marco)
    BY <1>3, <2>1 DEF LiberaYCarga, En, LaPagina, Pag
  <2>3. e \in EnMarco(tablas, {Nueva}) /\ (Tiene(tablas, Nueva) => Pag(tablas, Nueva).precencia)
    BY <2>1, <2>2, LiberarDe DEF MemoriaBien
  <2>4. Tiene(tablas, e) /\ e # Nueva
    BY <2>3 DEF EnMarco
  <2>u. PICK u : u = TrasLiberar(e)
    OBVIOUS
  <2>5. PICK t \in Tablas : t = tablas /\ u = TrasLiberar(e)
    BY <1>1, <2>u
  <2>6. EfectoLiberar(t, e, u)
    BY <1>1, <2>4, <2>5, LiberaEfecto
  <2>7. PICK m \in Marcos : m = Pag(t, e).marco
    BY <2>4, <2>5, PagTipo DEF Pagina
  <2>8. u \in Tablas /\ (Tiene(u, Nueva) => Pag(u, Nueva).precencia)
    BY <1>1, <2>3, <2>4, <2>5, <2>6, TurnoTipo DEF EfectoLiberar
  <2>9. Carga(u, global, m)
    BY <2>2, <2>5, <2>7
  <2> QED
    BY <2>8, <2>9
<1> QED
  BY <1>2, <1>3

\* READ_BLOCK of the page at hand, and the choice of a victim for it.
LEMMA LecturaEspera ==
  ASSUME MemoriaBien, Lectura, guion' = guion, Conserva(arbol, arbol', SoloLeidos),
         LeeBloque \/ EligeLRU \/ EligeClockM \/ RelojMira
  PROVE  Lectura'
<1>1. TypeOK
  BY DEF MemoriaBien
<1>2. CASE LeeBloque /\ Error
  BY <1>2, ErrorTipo, LecturaOtra DEF Cargando
<1>3. CASE ~(LeeBloque /\ Error)
  <2>1. /\ instr'.pc \in Cargando /\ instr'.p = instr.p /\ instr'.pag = instr.pag
        /\ instr'.desp = instr.desp /\ instr'.quedan = instr.quedan /\ instr'.tam = instr.tam
        /\ instr'.lectura = instr.lectura
    <3>1. CASE LeeBloque
      <4>1. PICK leido : instr' = [instr EXCEPT !.pc = "asignar", !.leido = leido]
        BY <1>3, <3>1 DEF LeeBloque
      <4> QED
        BY <1>1, <4>1, TurnoTipo DEF Cargando, Turno
    <3>2. CASE EligeLRU
      <4>1. PICK v : instr' = [instr EXCEPT !.pc = "liberar", !.victima = v]
        BY <3>2 DEF EligeLRU
      <4> QED
        BY <1>1, <4>1, TurnoTipo DEF Cargando, Turno
    <3>3. CASE EligeClockM
      <4>1. instr' = [instr EXCEPT !.pc = "reloj"]
        BY <3>3 DEF EligeClockM, Va
      <4> QED
        BY <1>1, <4>1, TurnoTipo DEF Cargando, Turno
    <3>4. CASE RelojMira
      <4>1. \/ \E v : instr' = [instr EXCEPT !.pc = "liberar", !.victima = v, !.vueltas = 1, !.i = 0]
            \/ \E i, vueltas : instr' = [instr EXCEPT !.i = i, !.vueltas = vueltas]
        BY <3>4 DEF RelojMira
      <4>2. instr.pc = "reloj"
        BY <3>4 DEF RelojMira, En
      <4> QED
        BY <1>1, <4>1, <4>2, TurnoTipo DEF Cargando, Turno
    <3> QED
      BY <3>1, <3>2, <3>3, <3>4
  <2>2. instr.pc \in {"pagina"} \cup Cargando
    BY DEF LeeBloque, EligeLRU, EligeClockM, RelojMira, En, Cargando
  <2> QED
    BY <2>1, <2>2, LecturaCargando
<1> QED
  BY <1>2, <1>3

\* What ends leaves no READ under way, or the READ that was.
LEMMA LecturaSale ==
  ASSUME MemoriaBien, Papel, Encargo, guion' = guion,
         \/ Directa \/ EnviaCommit \/ ComienzaPersistir \/ Interrumpe \/ ConfirmaDesalojo
         \/ PersistePagina \/ TerminaTabla \/ TerminaPersistir
  PROVE  Lectura'
<1>1. TypeOK
  BY DEF MemoriaBien
<1>2. CASE Directa
  <2>1. instr.pc = "libre"
    BY <1>2 DEF Directa, En
  <2>2. instr.p.op = "END"
    BY <2>1 DEF Encargo, Fin
  <2>3. instr'.p = instr.p \/ instr'.pc = "libre"
    BY <1>1, <1>2, VaTipo, ErrorTipo DEF Directa, Bien, Etiquetas
  <2> QED
    BY <2>2, <2>3, LecturaOtra DEF Cargando
<1>3. CASE EnviaCommit
  <2>1. instr.pc = "commit"
    BY <1>3 DEF EnviaCommit, En
  <2>2. instr.p.op = "COMMIT"
    BY <2>1 DEF Papel
  <2>3. instr'.p = instr.p \/ instr'.pc = "libre"
    BY <1>1, <1>3, VaTipo, ErrorTipo DEF EnviaCommit, Bien, Etiquetas
  <2> QED
    BY <2>2, <2>3, LecturaOtra DEF Cargando
<1>4. CASE ComienzaPersistir \/ Interrumpe
  <2>1. instr'.pc \in {"libre", "persistir"}
    <3>1. CASE ComienzaPersistir
      BY <3>1 DEF ComienzaPersistir, Ociosa
    <3>2. CASE instr' = Ociosa
      BY <3>2, OciosaTipo
    <3>3. ASSUME NEW orden,
                 instr' = [Ociosa EXCEPT !.pc = "persistir", !.tabs = orden, !.luego = "desalojo"]
          PROVE  instr'.pc = "persistir"
      BY <3>3 DEF Ociosa
    <3> QED
      BY <1>4, <3>1, <3>2, <3>3 DEF Interrumpe
  <2> QED
    BY <2>1, LecturaOtra DEF Cargando
<1>5. CASE ConfirmaDesalojo
  BY <1>5, OciosaTipo, LecturaOtra DEF ConfirmaDesalojo, Cargando
<1>6. CASE PersistePagina \/ TerminaTabla \/ TerminaPersistir
  <2>1. instr.pc = "persistir"
    BY <1>6 DEF PersistePagina, TerminaTabla, TerminaPersistir, En
  <2>2. instr.p.op # "READ"
    BY <2>1 DEF Encargo
  <2>3. instr'.p = instr.p \/ instr'.pc = "libre"
    <3>1. CASE PersistePagina
      BY <3>1, ErrorTipo DEF PersistePagina
    <3>2. CASE TerminaTabla
      BY <1>1, <3>2, TurnoTipo DEF TerminaTabla, Turno
    <3>3. CASE TerminaPersistir
      <4>1. instr.luego \in {"commit", "interrupcion", "desalojo"}
        BY <2>1 DEF Papel
      <4> QED
        BY <1>1, <3>3, <4>1, VaTipo DEF TerminaPersistir, Etiquetas
    <3> QED
      BY <1>6, <3>1, <3>2, <3>3
  <2> QED
    BY <2>2, <2>3, LecturaOtra DEF Cargando
<1> QED
  BY <1>2, <1>3, <1>4, <1>5, <1>6

\* Nothing is read of the Storage meanwhile, and nothing changes in it.
LEMMA LecturaQueda ==
  ASSUME TypeOK, Lectura, guion' = guion, arbol' = arbol,
         \/ instr' = instr
         \/ instr.pc = "sinPagina" /\ instr' = [instr EXCEPT !.pc = "interrupcion"]
  PROVE  Lectura'
<1>1. /\ instr'.p = instr.p /\ instr'.lectura = instr.lectura
      /\ instr'.pc \in {"interrupcion", "sinPagina"} => instr.pc \in {"interrupcion", "sinPagina"}
      /\ instr'.pc \in {"pagina"} \cup Cargando => instr' = instr
  BY TurnoTipo DEF Turno, Cargando
<1>2. Completa(arbol, instr) => Completa(arbol', instr')
  BY <1>1 DEF Completa
<1>3. EnCurso(arbol, instr) /\ instr' = instr => EnCurso(arbol', instr')
  BY EnCursoIgual
<1> QED
  BY <1>1, <1>2, <1>3, LecturaEs DEF Lectura

\* A step of the Worker keeps the account of its READ.
LEMMA LecturaSigue ==
  ASSUME MemoriaBien, Papel, Fieles, Encargo, Lectura, [Next]_vars
  PROVE  Lectura'
<1>1. Fieles' /\ Conserva(arbol, arbol', SoloLeidos)
  BY FielesSigue
<1>2. TypeOK /\ guion \in Guiones /\ guion' = guion
  BY Fijos DEF MemoriaBien, Papel
<1>3. CASE UNCHANGED vars
  BY <1>2, <1>3, LecturaQueda DEF vars
<1>4. CASE \/ Directa \/ EnviaCommit \/ ComienzaPersistir \/ Interrumpe \/ ConfirmaDesalojo
           \/ PersistePagina \/ TerminaTabla \/ TerminaPersistir
  BY <1>2, <1>4, LecturaSale
<1>5. CASE ComienzaAcceso
  BY <1>2, <1>5, LecturaComienza
<1>6. CASE AccedePresente
  BY <1>1, <1>2, <1>6, LecturaPresente
<1>7. CASE AsignaLibre \/ LiberaYCarga
  BY <1>1, <1>2, <1>7, LecturaCarga
<1>8. CASE LeeBloque \/ EligeLRU \/ EligeClockM \/ RelojMira
  BY <1>1, <1>2, <1>8, LecturaEspera
<1>9. CASE FallaTablaLiberada
  <2>1. instr.pc = "liberar" /\ instr' = instr
    BY <1>9 DEF FallaTablaLiberada
  <2> QED
    BY <1>1, <1>2, <2>1, LecturaCargando DEF Cargando
<1>10. CASE PaginaInicialSinValor
  <2>1. /\ arbol' = arbol
        /\ instr' = instr \/ (instr.pc = "sinPagina" /\ instr' = [instr EXCEPT !.pc = "interrupcion"])
    BY <1>10 DEF PaginaInicialSinValor, Bien, Va
  <2> QED
    BY <1>2, <2>1, LecturaQueda
<1> QED
  BY <1>3, <1>4, <1>5, <1>6, <1>7, <1>8, <1>9, <1>10 DEF Next, Recibe, Sigue

\* The READ at hand has read what the Storage holds, in every Worker.
LecturaBien == DesalojoBien /\ Encargo /\ Lectura

LEMMA InicioLectura ==
  ASSUME InitDesalojo
  PROVE  LecturaBien
<1>1. DesalojoBien
  BY InicioDesalojo
<1>2. instr.pc = "libre" /\ instr.p = Fin
  BY OciosaTipo DEF InitDesalojo, Init
<1> QED
  BY <1>1, <1>2 DEF LecturaBien, Encargo, Lectura, Cargando, Fin

\* Every step keeps the account, the eviction of the query too.
LEMMA PasoLectura ==
  ASSUME LecturaBien, [NextDesalojo]_varsDesalojo
  PROVE  LecturaBien'
<1>1. DesalojoBien' /\ MemoriaBien /\ Papel /\ Fieles /\ Encargo /\ Lectura
  BY PasoDesalojo DEF LecturaBien, DesalojoBien
<1>2. CASE Pasa
  <2>1. instr'.pc = "libre" /\ instr'.p = Fin /\ guion' = guion
    BY <1>2, OciosaTipo DEF Pasa, En
  <2> QED
    BY <1>1, <2>1, EncargoEs, LecturaOtra DEF LecturaBien, Cargando
<1>3. CASE Trabaja \/ Queda \/ UNCHANGED varsDesalojo
  <2>1. [Next]_vars
    BY <1>3 DEF Trabaja, Queda, varsDesalojo, Next, Sigue
  <2> QED
    BY <1>1, <2>1, EncargoSigue, LecturaSigue DEF LecturaBien
<1> QED
  BY <1>2, <1>3 DEF NextDesalojo

\* A READ that ended answers the bytes at its addresses.
LEMMA LecturaEsFiel ==
  ASSUME LecturaBien
  PROVE  LecturaFiel
<1> SUFFICES ASSUME instr.pc = "interrupcion", instr.p.op = "READ", instr.p.ft \in SoloLeidos,
                    ByteCero \notin Range(Alcanza(instr.p))
             PROVE  instr.lectura = Alcanza(instr.p)
  BY DEF LecturaFiel
<1>1. Completa(arbol, instr) /\ TypeOK
  BY DEF LecturaBien, Lectura, DesalojoBien, MemoriaBien
<1>2. instr.p.dir \in Nat /\ instr.p.tam \in Nat
  BY <1>1, LecturaTipo
<1>3. PICK p : p = instr.p /\ p.dir \in Nat /\ p.tam \in Nat
  BY <1>2
<1>4. Alcanza(p) = Tramo(arbol, p, Alcance(p))
  BY <1>3, AlcanzaEs
<1>5. SinCeros(arbol, p)
  <2> SUFFICES ASSUME NEW k \in 1 .. Alcance(p)
               PROVE  Octeto(arbol, p.ft, p.dir + k - 1) # ByteCero
    BY DEF SinCeros
  <2>1. k \in DOMAIN Alcanza(p) /\ Alcanza(p)[k] = Octeto(arbol, p.ft, p.dir + k - 1)
    BY <1>4 DEF Tramo
  <2> QED
    BY <1>3, <2>1 DEF Range
<1> QED
  BY <1>1, <1>3, <1>4, <1>5 DEF Completa

\* What a READ answers to the Query Control is what the Storage holds at its
\* addresses, page after page, whatever was replaced between two of them and
\* whichever Worker runs it: leerMemoria, leerContenidoParaMaster, asignarMarco.
\* Nothing is asked of the scripts.
THEOREM LecturaFielSiempre == FairDesalojo => []LecturaFiel
<1>1. InitDesalojo => LecturaBien
  BY InicioLectura
<1>2. LecturaBien /\ [NextDesalojo]_varsDesalojo => LecturaBien'
  BY PasoLectura
<1>3. LecturaBien => LecturaFiel
  BY LecturaEsFiel
<1> QED
  BY <1>1, <1>2, <1>3, PTL DEF FairDesalojo, SpecDesalojo

=============================================================================
