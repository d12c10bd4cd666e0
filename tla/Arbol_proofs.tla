---------------------------- MODULE Arbol_proofs ----------------------------
(***************************************************************************)
(* One Worker that deletes no committed file:tag: the bitmap is exact, the *)
(* hash index tells the truth and what was committed never changes.  As    *)
(* long as no operation was cut short, it implements ArbolDeArchivos: each *)
(* step of the Storage is a step of the tree on the file:tag the Worker    *)
(* builds, or none.                                                        *)
(***************************************************************************)
EXTENDS Enlaces_proofs

\* Two Workers may take the same free block, which buscarBloqueLibre finds
\* and marcarBloqueOcupado reserves in two steps; one alone cannot.
UnWorker == \E w \in Workers : Workers = {w}

\* When a committed file:tag is deleted, a block it shares keeps its entry in
\* blocks_hash_index and may be rewritten in place.
ComiteadosQuedan ==
  \A w \in Workers : \A p, q \in Pedidos[w] :
    q.op = "DELETE" => q.ft # Base /\ (p.op = "COMMIT" => p.ft # q.ft)

Usados == {e.b : e \in enlaces}

Comiteado(ft) == meta[ft] # SinMeta /\ meta[ft].estado = "COMMITED"

-----------------------------------------------------------------------------
(* The inductive invariant.                                                *)

\* A block whose link is gone and which may have to be freed.
Dejado(h) == IF h.pc \in {"stat", "libera", "enlazaDuplicado"} THEN {h.b} ELSE {}

\* A copy that is linked and not yet marked.
Copiado(h) ==
  IF h.pc \in {"copiaMeta", "guardaBloques", "marca"} /\ h.p.op = "WRITE" THEN {h.nuevo} ELSE {}

\* A copy that is not linked yet.
PorEnlazar(h) ==
  /\ h.pc \in {"escribe", "desenlaza", "stat", "libera", "hashLiberado", "quitaHash", "enlaza"}
  /\ h.p.op = "WRITE"

CuentaBien(h) ==
  /\ ocupado \cup Copiado(h) = Usados \cup Dejado(h)
  /\ h.pc = "libera" => h.b \notin Usados
  /\ PorEnlazar(h) => h.nuevo \notin ocupado

\* b is still the block of the list at the place i.
EnMano(h) ==
  \/ h.p.op = "WRITE" /\ h.pc \notin {"copiaMeta", "guardaBloques", "marca"}
  \/ h.p.op = "DELETE" /\ h.pc # "borra"
  \/ h.p.op = "COMMIT"
     /\ h.pc \notin {"commitea", "relee", "copiaMeta", "guardaBloques", "stat", "libera"}

\* The copy holds what the WRITE brought.
Copiada(h) == h.p.op = "WRITE" /\ h.pc \in {"desenlaza", "stat", "libera", "hashLiberado",
                                           "quitaHash", "enlaza", "copiaMeta", "guardaBloques"}

LocalesBien(h) ==
  /\ EnMano(h) => h.b = h.bloques[h.i + 1]
  /\ h.p.op \in {"TRUNCATE", "WRITE"} => ~Comiteado(h.p.ft)
  /\ h.p.op = "TAG" => ~Comiteado(h.p.dst)
  /\ h.p.op = "COMMIT" /\ h.pc # "commitea" => Comiteado(h.p.ft)
  /\ h.p.op # "READ" /\ h.pc # "commitea" => Destino(h.p) # Base
  /\ h.pc \in {"buscaHash", "guardaHash", "reasigna"} => h.hash = contenido[h.b]
  /\ h.pc = "reasigna" => indice[h.hash] = h.nuevo /\ h.nuevo # h.b
  /\ h.pc = "enlazaDuplicado" => h.nuevo \in Usados /\ contenido[h.nuevo] = contenido[h.b]
  /\ h.pc = "escribeEnSitio" => \A e \in enlaces : e.b = h.b => e.ft = h.p.ft /\ e.i = h.i
  /\ Copiada(h) => contenido[h.nuevo] = h.p.c
  /\ h.p.op = "WRITE" /\ h.pc \in {"copiaMeta", "guardaBloques"} =>
       h.bloques = [meta[h.p.ft].bloques EXCEPT ![h.i + 1] = h.nuevo]
  /\ h.pc \in {"commitea", "guardaBloques"} => h.estado = meta[Destino(h.p)].estado
  /\ h.pc = "guardaMeta" => meta[Destino(h.p)] = Vacio

\* The blocks a COMMIT has put in its list hold what those of the metadata do.
MismosDatos(h) ==
  h.p.op = "COMMIT" =>
    LET s == meta[h.p.ft].bloques IN
    /\ Len(s) = Len(h.bloques)
    /\ \A k \in 1 .. Len(s) : contenido[s[k]] = contenido[h.bloques[k]]

\* What is committed stays: initial_file:BASE with block 0, and the rest only
\* by a COMMIT.
ComiteadosBien ==
  /\ Comiteado(Base) /\ Base \in dirs /\ Enlace(Base, 0, 0) \in enlaces
  /\ contenido[0] = Cero
  /\ \A ft \in FileTags : Comiteado(ft) =>
       ft = Base \/ \E w \in Workers : \E p \in Pedidos[w] : p.op = "COMMIT" /\ p.ft = ft

\* The index names blocks by what they hold, and a committed file:tag uses them.
IndiceBien == \A c \in Contenidos : indice[c] # -1 =>
  /\ contenido[indice[c]] = c
  /\ \E e \in enlaces : e.b = indice[c] /\ Comiteado(e.ft)

Exacto ==
  /\ Enlazado
  /\ IsFiniteSet(enlaces)
  /\ aMedias = {} =>
       /\ ComiteadosBien /\ IndiceBien
       /\ \A w \in Workers : LET h == hebra[w] IN
            /\ CuentaBien(h)
            /\ EnObra(w) => LocalesBien(h) /\ MismosDatos(h)

-----------------------------------------------------------------------------
(* One Worker, and the links counted by st_nlink.                          *)

\* With one Worker nobody else holds anything, and no TAG meets another operation.
LEMMA Solo ==
  ASSUME UnWorker
  PROVE  DestinosAjenos /\ \A v, w \in Workers : v = w
BY DEF UnWorker, DestinosAjenos

\* Each step makes or removes the links of one place.
LEMMA EnlacesFinitos ==
  ASSUME IsFiniteSet(enlaces), [Next]_vars
  PROVE  IsFiniteSet(enlaces')
<1>1. (\E e : enlaces' = enlaces \cup {e}) \/ enlaces' \in SUBSET enlaces
  <2>1. ASSUME NEW ft, NEW i, NEW b, enlaces' = ConEnlace(ft, i, b)
        PROVE  (\E e : enlaces' = enlaces \cup {e}) \/ enlaces' \in SUBSET enlaces
    BY <2>1 DEF ConEnlace
  <2>2. ASSUME NEW ft, NEW i, enlaces' = SinEnlace(ft, i) PROVE enlaces' \in SUBSET enlaces
    BY <2>2 DEF SinEnlace
  <2>3. ASSUME NEW w \in Workers, Atiende(w) PROVE enlaces' \in SUBSET enlaces
    BY <2>3 DEF Atiende, Recibe, Toma, Rechaza, Acepta, AbortaAlLeer, AbortaAlGuardar, disco
  <2>4. ASSUME NEW w \in Workers, Operacion(w)
        PROVE  (\E e : enlaces' = enlaces \cup {e}) \/ enlaces' \in SUBSET enlaces
    <3>1. CASE MkdirFile(w) \/ MkdirTag(w) \/ CrearMeta(w) \/ GuardaMeta(w) \/ Stat(w)
               \/ Libera(w) \/ CalculaHash(w) \/ QuitaHash(w) \/ CopiaMeta(w)
               \/ GuardaBloques(w) \/ Commitea(w) \/ Relee(w)
      BY <3>1 DEF MkdirFile, MkdirTag, CrearMeta, GuardaMeta, Stat, Libera, CalculaHash,
         QuitaHash, CopiaMeta, GuardaBloques, Commitea, Relee, disco
    <3>2. CASE BuscaHash(w) \/ GuardaHash(w) \/ VeNLink(w) \/ EscribeEnSitio(w) \/ BuscaLibre(w)
               \/ Escribe(w) \/ MarcaOcupado(w) \/ Lee(w) \/ Borra(w)
      BY <3>2 DEF BuscaHash, GuardaHash, VeNLink, EscribeEnSitio, BuscaLibre, Escribe,
         MarcaOcupado, Lee, Borra, disco
    <3>3. CASE Enlaza(w) \/ EnlazaDuplicado(w)
      BY <2>1, <3>3 DEF Enlaza, EnlazaDuplicado
    <3>4. CASE Desenlaza(w) \/ Reasigna(w)
      BY <2>2, <3>4 DEF Desenlaza, Reasigna
    <3> QED
      BY <2>4, <3>1, <3>2, <3>3, <3>4 DEF Operacion
  <2>5. Reinicia \/ UNCHANGED vars => enlaces' \in SUBSET enlaces
    BY DEF Reinicia, DiscoAlReiniciar, vars, disco
  <2> QED
    BY <2>3, <2>4, <2>5 DEF Next
<1> QED
  BY <1>1, FS_AddElement, FS_Subset

\* st_nlink is 1 when no logical block is left, 2 when there is only one.
LEMMA CuentaDeEnlaces ==
  ASSUME IsFiniteSet(enlaces), NEW b
  PROVE  /\ NLink(b) = 1 <=> b \notin Usados
         /\ NLink(b) = 2 => \A e, f \in enlaces : e.b = b /\ f.b = b => e = f
<1> DEFINE S == {e \in enlaces : e.b = b}
<1>1. IsFiniteSet(S) /\ Cardinality(S) \in Nat
  BY FS_Subset, FS_CardinalityType
<1>2. Cardinality(S) = 0 <=> S = {}
  BY <1>1, FS_EmptySet
<1>3. Cardinality(S) = 1 => \E e : S = {e}
  BY <1>1, FS_Singleton
<1>4. b \notin Usados <=> S = {}
  BY DEF Usados
<1>5. NLink(b) = 1 + Cardinality(S)
  BY DEF NLink
<1>6. \A e \in enlaces : e.b = b => e \in S
  OBVIOUS
<1> HIDE DEF S
<1> QED
  BY <1>1, <1>2, <1>3, <1>4, <1>5, <1>6

-----------------------------------------------------------------------------
(* What the invariant says of the Worker, and when a step keeps it.        *)

\* What the invariant says of the one Worker there is, and of its operation.
LEMMA Contexto ==
  ASSUME Exacto, UnWorker, NEW w \in Workers, aMedias = {}
  PROVE  LET h == hebra[w]  d == Destino(h.p) IN
         /\ Tipos /\ ComiteadosBien /\ IndiceBien /\ CuentaBien(h) /\ IsFiniteSet(enlaces)
         /\ EnObra(w) =>
              /\ LocalesBien(h) /\ MismosDatos(h) /\ Ubicada(h)
              /\ Enlazados(d, ListaEnObra(h), Puestos(h))
              /\ d \in dirs <=> ~SinDir(h)
              /\ MismaLista(h) => meta[h.p.ft].bloques = h.bloques
              /\ SinConf(h) => meta[d] = SinMeta
              /\ ConEstado(h, meta[d]) /\ Labrada(h, d)
BY DEF SinDir, Exacto, Enlazado, ObraBien

\* The thread goes on, with the locals k.
LEMMA PasoExacto ==
  ASSUME Exacto, UnWorker, Enlazado', IsFiniteSet(enlaces)', NEW w \in Workers, NEW k,
         hebra'[w] = k, aMedias' = aMedias,
         aMedias = {} => /\ ComiteadosBien' /\ IndiceBien' /\ CuentaBien(k)'
                         /\ LocalesBien(k)' /\ MismosDatos(k)'
  PROVE  Exacto'
BY Solo DEF Exacto

\* The thread replies, or has not begun.
LEMMA FinExacto ==
  ASSUME Exacto, UnWorker, Enlazado', IsFiniteSet(enlaces)', NEW w \in Workers,
         hebra'[w].pc \in {"espera", "candado", "verifica"}, aMedias' = aMedias,
         aMedias = {} => ComiteadosBien' /\ IndiceBien' /\ ocupado' = Usados'
  PROVE  Exacto'
<1>1. ~EnObra(w)'
  BY DEF EnObra
<1>2. ocupado' = Usados' => CuentaBien(hebra[w])'
  BY DEF CuentaBien, Copiado, Dejado, PorEnlazar
<1> QED
  BY <1>1, <1>2, Solo DEF Exacto

\* What a step without effect on directories, metadata, links, contents and
\* index leaves as it was.
LEMMA DiscoBien ==
  ASSUME ComiteadosBien, IndiceBien, UNCHANGED <<dirs, meta, enlaces, contenido, indice>>
  PROVE  ComiteadosBien' /\ IndiceBien' /\ Usados' = Usados
BY DEF ComiteadosBien, IndiceBien, Comiteado, Usados

\* The locals after a step that changes those of c.
LEMMA Siguiente ==
  ASSUME Tipos, NEW w \in Workers, NEW c, Sigue(w, c)
  PROVE  LET h == hebra[w] IN \E k : hebra'[w] = k /\ 
         /\ "pc" \in DOMAIN c => k.pc = c["pc"]
         /\ "p" \notin DOMAIN c => k.p = h.p
         /\ "bloques" \in DOMAIN c => k.bloques = c["bloques"]
         /\ "bloques" \notin DOMAIN c => k.bloques = h.bloques
         /\ "estado" \in DOMAIN c => k.estado = c["estado"]
         /\ "i" \in DOMAIN c => k.i = c["i"]
         /\ "i" \notin DOMAIN c => k.i = h.i
         /\ "b" \in DOMAIN c => k.b = c["b"]
         /\ "b" \notin DOMAIN c => k.b = h.b
         /\ "nuevo" \in DOMAIN c => k.nuevo = c["nuevo"]
         /\ "nuevo" \notin DOMAIN c => k.nuevo = h.nuevo
         /\ "hash" \in DOMAIN c => k.hash = c["hash"]
         /\ "hash" \notin DOMAIN c => k.hash = h.hash
<1>1. hebra'[w] = Con(hebra[w], c)
  BY Hechos DEF Sigue
<1> QED
  BY <1>1, Hechos, ConCampos

\* The same, when only the label changes.
LEMMA SoloEtiqueta ==
  ASSUME Tipos, NEW w \in Workers, NEW pc, Sigue(w, A(pc))
  PROVE  LET h == hebra[w] IN \E k : hebra'[w] = k /\
           k.pc = pc /\ k.p = h.p /\ k.bloques = h.bloques /\ k.i = h.i /\ k.b = h.b
           /\ k.nuevo = h.nuevo /\ k.hash = h.hash
<1>1. DOMAIN A(pc) = {"pc"} /\ A(pc)["pc"] = pc
  BY DEF A
<1> HIDE DEF A
<1> QED
  BY <1>1, Siguiente

\* The locals k after h left a block behind.
Dejo(h, k) ==
  /\ k.p = h.p /\ k.nuevo = h.nuevo /\ k.hash = h.hash
  /\ \/ /\ h.p.op = "TRUNCATE" /\ k.pc \in {"desenlaza", "copiaMeta"}
        /\ k.bloques = h.bloques \/ (Len(h.bloques) > 0 /\ k.bloques = Front(h.bloques))
     \/ /\ h.p.op = "DELETE" /\ k.bloques = h.bloques
        /\ k.pc = "borra" \/ (k.pc = "desenlaza" /\ k.b = k.bloques[k.i + 1])
     \/ h.p.op = "WRITE" /\ k.pc = "enlaza" /\ k.bloques = h.bloques /\ k.i = h.i /\ k.b = h.b
     \/ /\ h.p.op = "COMMIT" /\ k.bloques = h.bloques
        /\ k.pc = "copiaMeta" \/ (k.pc = "hash" /\ k.b = k.bloques[k.i + 1])

\* TrasDejar takes the locals as Dejo says.
LEMMA TrasDejarDejo ==
  ASSUME Tipos, NEW w \in Workers, Sigue(w, TrasDejar(hebra[w])),
         hebra[w].p.op \in {"TRUNCATE", "COMMIT", "WRITE", "DELETE"}, hebra[w].pc # "espera"
  PROVE  \E k : hebra'[w] = k /\ Dejo(hebra[w], k)
<1> DEFINE h == hebra[w]
<1>0. h.i \in Nat /\ h.p.n \in Nat /\ Len(h.bloques) \in Nat
  BY Hechos, LenProperties
<1>1. CASE h.p.op = "TRUNCATE"
  <2>1. CASE Len(h.bloques) > h.p.n
    <3>1. Sigue(w, QuitaUltimo(h.bloques))
      BY <1>1, <2>1 DEF TrasDejar
    <3>2. Len(h.bloques) > 0
      BY <1>0, <2>1
    <3> QED
      BY <1>1, <3>1, <3>2, Siguiente DEF QuitaUltimo, Dejo
  <2>2. CASE ~(Len(h.bloques) > h.p.n)
    <3>1. Sigue(w, A("copiaMeta"))
      BY <1>1, <2>2 DEF TrasDejar
    <3> QED
      BY <1>1, <3>1, SoloEtiqueta DEF Dejo
  <2> QED
    BY <2>1, <2>2
<1>2. CASE h.p.op = "DELETE"
  <2>1. CASE h.i + 1 < Len(h.bloques)
    <3>1. Sigue(w, [pc |-> "desenlaza", i |-> h.i + 1, b |-> h.bloques[(h.i + 1) + 1]])
      BY <1>2, <2>1 DEF TrasDejar, QuitaDesde
    <3>2. \E k : hebra'[w] = k /\ k.p = h.p /\ k.nuevo = h.nuevo /\ k.hash = h.hash
             /\ k.bloques = h.bloques /\ k.pc = "desenlaza" /\ k.i = h.i + 1
             /\ k.b = h.bloques[(h.i + 1) + 1]
      BY <3>1, Siguiente
    <3> HIDE DEF h
    <3> QED
      BY <1>2, <3>2 DEF Dejo, h
  <2>2. CASE ~(h.i + 1 < Len(h.bloques))
    <3>1. Sigue(w, A("borra"))
      BY <1>2, <2>2 DEF TrasDejar, QuitaDesde
    <3> QED
      BY <1>2, <3>1, SoloEtiqueta DEF Dejo
  <2> QED
    BY <2>1, <2>2
<1>3. CASE h.p.op = "WRITE"
  <2>1. Sigue(w, A("enlaza"))
    BY <1>3 DEF TrasDejar
  <2> QED
    BY <1>3, <2>1, SoloEtiqueta DEF Dejo
<1>4. CASE h.p.op = "COMMIT"
  <2>1. CASE h.i + 1 < Len(h.bloques)
    <3>1. Sigue(w, [pc |-> "hash", i |-> h.i + 1, b |-> h.bloques[(h.i + 1) + 1]])
      BY <1>4, <2>1 DEF TrasDejar, Revisa
    <3>2. \E k : hebra'[w] = k /\ k.p = h.p /\ k.nuevo = h.nuevo /\ k.hash = h.hash
             /\ k.bloques = h.bloques /\ k.pc = "hash" /\ k.i = h.i + 1
             /\ k.b = h.bloques[(h.i + 1) + 1]
      BY <3>1, Siguiente
    <3> HIDE DEF h
    <3> QED
      BY <1>4, <3>2 DEF Dejo, h
  <2>2. CASE ~(h.i + 1 < Len(h.bloques))
    <3>1. Sigue(w, A("copiaMeta"))
      BY <1>4, <2>2 DEF TrasDejar, Revisa
    <3> QED
      BY <1>4, <3>1, SoloEtiqueta DEF Dejo
  <2> QED
    BY <2>1, <2>2
<1> QED
  BY <1>1, <1>2, <1>3, <1>4

\* The Worker goes on after a block, and the account of blocks is square.
LEMMA DejaExacto ==
  ASSUME Exacto, UnWorker, Enlazado', NEW w \in Workers, EnObra(w),
         hebra[w].pc \in {"stat", "libera", "quitaHash", "buscaHash", "guardaHash"},
         hebra[w].p.op \in {"TRUNCATE", "COMMIT", "WRITE", "DELETE"},
         Sigue(w, TrasDejar(hebra[w])),
         UNCHANGED <<dirs, meta, enlaces, contenido, aMedias>>,
         aMedias = {} => /\ IndiceBien' /\ ocupado' = Usados
                         /\ hebra[w].p.op = "WRITE" => hebra[w].nuevo \notin ocupado'
  PROVE  Exacto'
<1> DEFINE h == hebra[w]
<1>1. Tipos
  BY DEF Exacto, Enlazado
<1>2. PICK k : hebra'[w] = k /\ Dejo(h, k)
  BY <1>1, TrasDejarDejo
<1>3. IsFiniteSet(enlaces)'
  BY DEF Exacto
<1>4. ASSUME aMedias = {}
      PROVE  /\ ComiteadosBien' /\ IndiceBien' /\ CuentaBien(k)'
             /\ LocalesBien(k)' /\ MismosDatos(k)'
  <2>1. ComiteadosBien /\ LocalesBien(h) /\ MismosDatos(h)
    BY <1>4, Contexto
  <2>2. ComiteadosBien'
    BY <2>1 DEF ComiteadosBien, Comiteado
  <2>3. CuentaBien(k)'
    BY <1>2, <1>4 DEF CuentaBien, Copiado, Dejado, PorEnlazar, Dejo, Usados
  <2>4. LocalesBien(k)'
    <3>1. EnMano(k) => k.b = k.bloques[k.i + 1]
      BY <1>2, <2>1 DEF EnMano, LocalesBien, Dejo
    <3>2. /\ k.p.op \in {"TRUNCATE", "WRITE"} => ~Comiteado(k.p.ft)'
          /\ k.p.op = "TAG" => ~Comiteado(k.p.dst)'
          /\ k.p.op = "COMMIT" /\ k.pc # "commitea" => Comiteado(k.p.ft)'
          /\ k.p.op # "READ" /\ k.pc # "commitea" => Destino(k.p) # Base
      BY <1>2, <2>1 DEF LocalesBien, Dejo, Comiteado
    <3>3. k.pc \notin {"buscaHash", "guardaHash", "reasigna", "enlazaDuplicado", "escribeEnSitio"}
      BY <1>2 DEF Dejo
    <3>4. /\ Copiada(k) => contenido'[k.nuevo] = k.p.c
          /\ ~(k.p.op = "WRITE" /\ k.pc = "copiaMeta")
          /\ k.pc \notin {"commitea", "guardaBloques", "guardaMeta"}
      <4>1. hebra[w].pc \in {"buscaHash", "guardaHash"} => h.p.op = "COMMIT"
        BY <1>1, Labores
      <4> QED
        BY <1>2, <2>1, <4>1 DEF Dejo, Copiada, LocalesBien
    <3> QED
      BY <3>1, <3>2, <3>3, <3>4 DEF LocalesBien
  <2>5. MismosDatos(k)'
    BY <1>2, <2>1 DEF MismosDatos, Dejo
  <2> QED
    BY <1>4, <2>2, <2>3, <2>4, <2>5
<1> QED
  BY <1>2, <1>3, <1>4, PasoExacto

-----------------------------------------------------------------------------
(* Before an operation begins.                                             *)

\* Receiving, locking and rejecting touch nothing on the disk.
LEMMA AtiendeExacto ==
  ASSUME Exacto, UnWorker, Enlazado', NEW w \in Workers, aMedias' = aMedias,
         Recibe(w) \/ Toma(w) \/ Rechaza(w)
  PROVE  Exacto'
<1>1. UNCHANGED disco /\ hebra[w].pc \in {"espera", "candado", "verifica"} /\ Tipos
  BY DEF Recibe, Toma, Rechaza, En, Exacto, Enlazado
<1>2. hebra'[w].pc \in {"espera", "candado", "verifica"}
  <2>1. CASE Recibe(w)
    <3>1. PICK p \in Pedidos[w] : Sigue(w, [pc |-> "candado", p |-> p])
      BY <2>1 DEF Recibe
    <3> QED
      BY <1>1, <3>1, Siguiente
  <2>2. CASE Toma(w)
    BY <1>1, <2>2, SoloEtiqueta DEF Toma
  <2>3. CASE Rechaza(w)
    BY <1>1, <2>3, Hechos DEF Rechaza, Responde, Ociosa
  <2> QED
    BY <2>1, <2>2, <2>3
<1>3. aMedias = {} => ComiteadosBien' /\ IndiceBien' /\ ocupado' = Usados'
  <2> SUFFICES ASSUME aMedias = {} PROVE ComiteadosBien' /\ IndiceBien' /\ ocupado' = Usados'
    OBVIOUS
  <2>1. ComiteadosBien /\ IndiceBien /\ CuentaBien(hebra[w])
    BY Contexto
  <2>2. ComiteadosBien' /\ IndiceBien' /\ Usados' = Usados /\ ocupado' = ocupado
    BY <1>1, <2>1, DiscoBien DEF disco
  <2>3. ocupado = Usados
    BY <1>1, <2>1 DEF CuentaBien, Copiado, Dejado
  <2> QED
    BY <2>2, <2>3
<1>4. IsFiniteSet(enlaces)'
  BY <1>1 DEF disco, Exacto
<1> QED
  BY <1>2, <1>3, <1>4, FinExacto

\* An abort changes nothing but vivo.
LEMMA AbortaExacto ==
  ASSUME Exacto, Enlazado', UNCHANGED <<disco, hebra, aMedias>>
  PROVE  Exacto'
<1>1. ComiteadosBien => ComiteadosBien'
  BY DEF ComiteadosBien, Comiteado, disco
<1>2. IndiceBien => IndiceBien'
  BY DEF IndiceBien, Comiteado, disco
<1>3. \A h : /\ CuentaBien(h) => CuentaBien(h)'
             /\ LocalesBien(h) => LocalesBien(h)'
             /\ MismosDatos(h) => MismosDatos(h)'
  BY DEF CuentaBien, LocalesBien, MismosDatos, Comiteado, Usados, disco
<1>4. \A w \in Workers : /\ hebra'[w] = hebra[w]
                         /\ EnObra(w)' <=> EnObra(w)
  BY DEF EnObra
<1> QED
  BY <1>1, <1>2, <1>3, <1>4 DEF Exacto, disco

\* The locals k of an operation that passed its checks, and s the list in the
\* metadata of its file:tag.
Aceptada(p, s, k) ==
  /\ k.p = p
  /\ p.op # "CREATE" => k.estado = meta[p.ft].estado
  /\ p.op = "CREATE" => k.pc = "mkdirFile"
  /\ p.op \notin {"CREATE", "TRUNCATE"} => k.bloques = s
  /\ p.op = "TRUNCATE" =>
       /\ k.pc \in {"enlaza", "desenlaza", "copiaMeta"}
       /\ k.bloques = s \/ (Len(s) > 0 /\ k.bloques = Front(s))
  /\ p.op = "TAG" => k.pc = "mkdirTag"
  /\ p.op = "COMMIT" => k.pc = "commitea"
  /\ p.op = "WRITE" => k.pc = "nlink" /\ k.b = s[p.n + 1] /\ k.i = p.n
  /\ p.op = "READ" => k.pc = "lee"
  /\ p.op = "DELETE" => k.pc = "borra" \/ (k.pc = "desenlaza" /\ k.b = s[0 + 1] /\ k.i = 0)

\* Where each operation goes once its checks passed, and with which list.
LEMMA AceptaSigue ==
  ASSUME Enlazado, NEW w \in Workers, Acepta(w)
  PROVE  LET p == hebra[w].p  s == meta[p.ft].bloques IN
         /\ p.op # "CREATE" => MetaBien(p) /\ Legible(p) /\ meta[p.ft] # SinMeta
         /\ \E k : hebra'[w] = k /\ Aceptada(p, s, k)
<1> DEFINE h == hebra[w]
           p == h.p
           s == meta[p.ft].bloques
<1>1. UNCHANGED disco /\ h.pc = "verifica" /\ Tipos /\ DirsBien(p) /\ p \in Pedidos[w]
      /\ h \in Hebra /\ hebra \in [Workers -> Hebra] /\ p.op \in Operaciones
      /\ p.ft \in FileTags /\ \A ft \in dirs : ft[1] \in archivos
  BY Hechos DEF Acepta, En, Enlazado
<1>2. CASE p.op = "CREATE"
  <2>1. Sigue(w, A("mkdirFile"))
    BY <1>1, <1>2 DEF Acepta, LeeMeta
  <2>2. \E k : hebra'[w] = k /\ Aceptada(p, s, k)
    BY <1>1, <1>2, <2>1, SoloEtiqueta DEF Aceptada
  <2> QED
    BY <1>2, <2>2
<1>3. CASE p.op # "CREATE"
  <2> DEFINE e == meta[p.ft].estado
             g == [h EXCEPT !.bloques = s, !.estado = e]
  <2>1. MetaBien(p) /\ Legible(p) /\ meta[p.ft] # SinMeta /\ hebra'[w] = Con(g, Comienza(p, s))
    BY <1>1, <1>3 DEF Acepta, Legible
  <2>2. /\ g \in Hebra /\ g.p = p /\ g.bloques = s /\ g.estado = e
        /\ s \in Seq(Bloques) /\ p.n \in Nat
    <3>1. s \in Seq(Bloques) /\ e \in Estados
      BY <1>1, <2>1 DEF Tipos, TypeOK, Metadatos
    <3>2. p.n \in Nat
      BY <1>1, StorageAssumption DEF Pedido
    <3> QED
      BY <1>1, <3>1, <3>2 DEF Hebra
  <2> DEFINE c == Comienza(p, s)
             j == Con(g, c)
  <2>3. /\ "pc" \in DOMAIN c => j.pc = c["pc"]
        /\ "p" \notin DOMAIN c => j.p = p
        /\ "bloques" \in DOMAIN c => j.bloques = c["bloques"]
        /\ "bloques" \notin DOMAIN c => j.bloques = s
        /\ "estado" \notin DOMAIN c => j.estado = e
        /\ "i" \in DOMAIN c => j.i = c["i"]
        /\ "b" \in DOMAIN c => j.b = c["b"]
    <3> HIDE DEF g, c
    <3> QED
      BY <2>2, ConCampos
  <2> HIDE DEF g, s, j
  <2>4. Aceptada(p, s, j)
    <3>1. CASE p.op = "TRUNCATE"
      <4>1. c = ComienzaTruncate(s, p.n)
        BY <3>1 DEF Comienza
      <4>2. CASE Len(s) < p.n
        BY <2>3, <3>1, <4>1, <4>2 DEF Aceptada, ComienzaTruncate
      <4>3. CASE ~(Len(s) < p.n) /\ Len(s) > p.n
        <5>1. Len(s) > 0
          BY <2>2, <4>3, LenProperties
        <5> QED
          BY <2>3, <3>1, <4>1, <4>3, <5>1 DEF Aceptada, ComienzaTruncate, QuitaUltimo
      <4>4. CASE ~(Len(s) < p.n) /\ ~(Len(s) > p.n)
        BY <2>3, <3>1, <4>1, <4>4 DEF Aceptada, ComienzaTruncate, A
      <4> QED
        BY <4>2, <4>3, <4>4
    <3>2. CASE p.op = "TAG"
      BY <2>3, <3>2 DEF Aceptada, Comienza, A
    <3>3. CASE p.op = "COMMIT"
      BY <2>3, <3>3 DEF Aceptada, Comienza, A
    <3>4. CASE p.op = "WRITE"
      BY <2>3, <3>4 DEF Aceptada, Comienza
    <3>5. CASE p.op = "READ"
      BY <2>3, <3>5 DEF Aceptada, Comienza
    <3>6. CASE p.op = "DELETE"
      <4>1. CASE 0 < Len(s)
        BY <2>3, <3>6, <4>1 DEF Aceptada, Comienza, QuitaDesde
      <4>2. CASE ~(0 < Len(s))
        BY <2>3, <3>6, <4>2 DEF Aceptada, Comienza, QuitaDesde, A
      <4> QED
        BY <4>1, <4>2
    <3> QED
      BY <1>1, <1>3, <3>1, <3>2, <3>3, <3>4, <3>5, <3>6 DEF Operaciones
  <2> QED
    BY <2>1, <2>4 DEF s, j
<1> QED
  BY <1>2, <1>3

\* verificarOperacionesBase lets no TRUNCATE or WRITE of a committed file:tag
\* pass, and makes none that exists.
LEMMA AceptaExacto ==
  ASSUME Exacto, UnWorker, ComiteadosQuedan, Enlazado', NEW w \in Workers, aMedias' = aMedias,
         Acepta(w)
  PROVE  Exacto'
<1> DEFINE h == hebra[w]
           p == h.p
           s == meta[p.ft].bloques
<1>1. UNCHANGED disco /\ h.pc = "verifica" /\ Tipos /\ DirsBien(p) /\ p \in Pedidos[w]
      /\ h \in Hebra /\ hebra \in [Workers -> Hebra] /\ p.op \in Operaciones
      /\ p.ft \in FileTags /\ \A ft \in dirs : ft[1] \in archivos
  BY Hechos DEF Acepta, En, Exacto, Enlazado
<1>2. /\ p.op # "CREATE" => MetaBien(p) /\ meta[p.ft] # SinMeta
      /\ \E k : hebra'[w] = k /\ Aceptada(p, s, k)
  BY AceptaSigue DEF Exacto
<1>3. PICK k : hebra'[w] = k /\ Aceptada(p, s, k)
  BY <1>2
<1>4. ASSUME aMedias = {}
      PROVE  /\ ComiteadosBien' /\ IndiceBien' /\ CuentaBien(k)'
             /\ LocalesBien(k)' /\ MismosDatos(k)'
  <2>1. ComiteadosBien /\ IndiceBien /\ ocupado = Usados
    <3>1. ComiteadosBien /\ IndiceBien /\ CuentaBien(h)
      BY <1>4, Contexto
    <3> QED
      BY <1>1, <3>1 DEF CuentaBien, Copiado, Dejado
  <2>2. ComiteadosBien' /\ IndiceBien' /\ Usados' = Usados /\ ocupado' = ocupado
    BY <1>1, <2>1, DiscoBien DEF disco
  <2>3. CuentaBien(k)'
    <3>1. /\ ~(k.pc \in {"copiaMeta", "guardaBloques", "marca"} /\ p.op = "WRITE")
          /\ k.pc \notin {"stat", "libera", "enlazaDuplicado"}
          /\ ~(PorEnlazar(k))
      BY <1>1, <1>2, <1>3 DEF Aceptada, PorEnlazar, Operaciones
    <3> QED
      BY <1>2, <1>3, <2>1, <2>2, <3>1 DEF Aceptada, CuentaBien, Copiado, Dejado
  <2>4. LocalesBien(k)'
    <3>1. EnMano(k) => k.b = k.bloques[k.i + 1]
      BY <1>2, <1>3 DEF Aceptada, EnMano
    <3>2. k.p.op \in {"TRUNCATE", "WRITE"} => ~Comiteado(k.p.ft)'
      BY <1>1, <1>2, <1>3 DEF Aceptada, MetaBien, Comiteado, disco
    <3>3. p.op = "COMMIT" => k.pc = "commitea"
      BY <1>1, <1>3 DEF Aceptada
    <3>4. p.op # "READ" /\ k.pc # "commitea" => Destino(p) # Base
      <4>1. Base \in dirs /\ Comiteado(Base) /\ Comiteado(Base)'
        BY <2>1, <2>2 DEF ComiteadosBien
      <4>2. CASE p.op = "CREATE"
        BY <1>1, <4>1, <4>2 DEF DirsBien, Destino
      <4>3. CASE p.op = "TAG"
        BY <1>1, <4>1, <4>3 DEF DirsBien, Destino
      <4>4. CASE p.op = "DELETE"
        BY <1>1, <4>4 DEF ComiteadosQuedan, Destino
      <4>5. CASE p.op \in {"TRUNCATE", "WRITE"}
        BY <1>2, <1>3, <3>2, <4>1, <4>5 DEF Aceptada, Destino
      <4> QED
        BY <1>1, <1>2, <1>3, <4>2, <4>3, <4>4, <4>5 DEF Aceptada, Operaciones
    <3>5. /\ k.pc \notin {"buscaHash", "guardaHash", "reasigna", "enlazaDuplicado", "escribeEnSitio"}
          /\ ~Copiada(k) /\ ~(p.op = "WRITE" /\ k.pc = "copiaMeta") 
          /\ k.pc \notin {"guardaMeta", "guardaBloques"}
          /\ k.pc = "commitea" => k.estado = meta'[Destino(p)].estado
      BY <1>1, <1>2, <1>3 DEF Aceptada, Operaciones, Copiada, Destino, disco
    <3>6. k.p.op = "TAG" => ~Comiteado(k.p.dst)'
      <4> SUFFICES ASSUME p.op = "TAG" PROVE meta[p.dst] = SinMeta
        BY <1>1, <1>2, <1>3 DEF Aceptada, Comiteado, disco
      <4>1. Reposa(p.dst) /\ p.dst \notin dirs
        BY <1>1, <1>4, Solo, Hechos DEF DirsBien, Reposa, EnObra
      <4> QED
        BY <4>1 DEF Exacto, Enlazado, EnReposo, Reposa
    <3> QED
      BY <1>2, <1>3, <3>1, <3>2, <3>3, <3>4, <3>5, <3>6 DEF Aceptada, LocalesBien
  <2>5. MismosDatos(k)'
    BY <1>1, <1>2, <1>3 DEF Aceptada, MismosDatos, disco
  <2> QED
    BY <2>2, <2>3, <2>4, <2>5
<1>5. IsFiniteSet(enlaces)'
  BY <1>1 DEF disco, Exacto
<1> QED
  BY <1>4, <1>5, <1>3, PasoExacto

-----------------------------------------------------------------------------
(* Directories and metadata.                                               *)

\* No committed file:tag ceases to be so, and a new one is asked for.
LEMMA MetaBienTras ==
  ASSUME Tipos, ComiteadosBien, IndiceBien, UNCHANGED <<enlaces, contenido, indice>>,
         Base \in dirs', \A ft \in FileTags : Comiteado(ft) => Comiteado(ft)',
         \A ft \in FileTags : Comiteado(ft)' =>
           Comiteado(ft) \/ \E w \in Workers : \E p \in Pedidos[w] : p.op = "COMMIT" /\ p.ft = ft
  PROVE  ComiteadosBien' /\ IndiceBien' /\ Usados' = Usados
<1>1. Base \in FileTags /\ \A e \in enlaces : e.ft \in FileTags
  BY EnlacesDeNat, StorageAssumption
<1>2. ComiteadosBien'
  BY <1>1 DEF ComiteadosBien
<1>3. IndiceBien'
  BY <1>1 DEF IndiceBien
<1> QED
  BY <1>2, <1>3 DEF Usados

\* A new directory has no metadata yet, so nothing there is committed.
LEMMA MkdirExacto ==
  ASSUME Exacto, UnWorker, Enlazado', NEW w \in Workers, aMedias' = aMedias,
         MkdirFile(w) \/ MkdirTag(w)
  PROVE  Exacto'
<1> DEFINE h == hebra[w]
<1>1. EnObra(w) /\ Tipos /\ h.p.op \in {"CREATE", "TAG"} /\ h.pc \in {"mkdirFile", "mkdirTag"}
      /\ UNCHANGED <<meta, enlaces, ocupado, contenido, indice>> /\ dirs \subseteq dirs'
  BY Labores DEF MkdirFile, MkdirTag, En, EnObra, Exacto, Enlazado
<1>2. PICK k : hebra'[w] = k /\ k.p = h.p /\ k.pc \in {"mkdirTag", "crearMeta"}
  BY <1>1, SoloEtiqueta DEF MkdirFile, MkdirTag
<1>3. ASSUME aMedias = {}
      PROVE  /\ ComiteadosBien' /\ IndiceBien' /\ CuentaBien(k)'
             /\ LocalesBien(k)' /\ MismosDatos(k)'
  <2>1. ComiteadosBien /\ IndiceBien /\ CuentaBien(h) /\ LocalesBien(h)
    BY <1>1, <1>3, Contexto
  <2>2. ComiteadosBien' /\ IndiceBien' /\ Usados' = Usados
    BY <1>1, <2>1 DEF ComiteadosBien, IndiceBien, Comiteado, Usados
  <2>3. CuentaBien(k)'
    BY <1>1, <1>2, <2>1, <2>2 DEF CuentaBien, Copiado, Dejado, PorEnlazar
  <2>4. Destino(k.p) # Base /\ (k.p.op = "TAG" => ~Comiteado(k.p.dst)')
    BY <1>1, <1>2, <2>1 DEF LocalesBien, Comiteado
  <2> QED
    BY <1>1, <1>2, <2>2, <2>3, <2>4 DEF LocalesBien, EnMano, Copiada, MismosDatos
<1>4. IsFiniteSet(enlaces)'
  BY <1>1 DEF Exacto
<1> QED
  BY <1>2, <1>3, <1>4, PasoExacto

\* The metadata of the file:tag an operation makes is not that of the base and
\* is not committed before crear_meta or after it.
LEMMA NuevoSinComitear ==
  ASSUME Exacto, UnWorker, NEW w \in Workers, aMedias = {}, EnObra(w),
         hebra[w].p.op \in {"CREATE", "TAG"}, hebra[w].pc \in {"crearMeta", "guardaMeta"},
         UNCHANGED <<dirs, enlaces, ocupado, contenido, indice>>,
         NEW m, m.estado # "COMMITED", meta' = ConMeta(Destino(hebra[w].p), m),
         ~Comiteado(Destino(hebra[w].p))
  PROVE  /\ ComiteadosBien' /\ IndiceBien' /\ ocupado' = Usados' /\ Destino(hebra[w].p) # Base
         /\ \A ft : ft = Destino(hebra[w].p) => ~Comiteado(ft)'
<1> DEFINE h == hebra[w]
           d == Destino(h.p)
<1>1. /\ Tipos /\ ComiteadosBien /\ IndiceBien /\ CuentaBien(h) /\ LocalesBien(h)
      /\ meta \in [FileTags -> Metadatos \cup {SinMeta}] /\ d \in FileTags
  BY Contexto, Hechos DEF EnObra, Tipos, TypeOK
<1>2. d # Base /\ ocupado = Usados
  BY <1>1 DEF LocalesBien, CuentaBien, Copiado, Dejado
<1>3. \A ft \in FileTags : ft # d => meta'[ft] = meta[ft]
  BY <1>1 DEF ConMeta
<1>4. meta'[d] = m \/ meta'[d] = meta[d]
  BY <1>1 DEF ConMeta
<1>5. \A ft \in FileTags : Comiteado(ft)' <=> Comiteado(ft)
  BY <1>3, <1>4 DEF Comiteado
<1>6. Base \in dirs'
  BY <1>1 DEF ComiteadosBien
<1>7. \A ft : ft = d => ~Comiteado(ft)'
  BY <1>1, <1>5
<1> QED
  BY <1>1, <1>2, <1>5, <1>6, <1>7, MetaBienTras

\* The fopen of crear_meta empties a file that did not exist.
LEMMA CrearMetaExacto ==
  ASSUME Exacto, UnWorker, Enlazado', NEW w \in Workers, aMedias' = aMedias, CrearMeta(w)
  PROVE  Exacto'
<1> DEFINE h == hebra[w]
           d == Destino(h.p)
<1>1. EnObra(w) /\ Tipos /\ h.p.op \in {"CREATE", "TAG"} /\ h.pc = "crearMeta"
      /\ UNCHANGED <<dirs, enlaces, ocupado, contenido, indice>> /\ meta' = ConMeta(d, Vacio)
      /\ meta \in [FileTags -> Metadatos \cup {SinMeta}] /\ d \in FileTags
  BY Labores, Hechos DEF CrearMeta, En, EnObra, Exacto, Enlazado, Tipos, TypeOK
<1>2. d \in dirs
  BY <1>1 DEF Exacto, Enlazado, ObraBien, Labrada, SinDir
<1>3. ASSUME aMedias = {}
      PROVE  /\ ComiteadosBien' /\ IndiceBien' /\ ocupado' = Usados' /\ d # Base
             /\ \A ft : ft = d => ~Comiteado(ft)'
  <2>1. ~Comiteado(d)
    BY <1>1, <1>3, Contexto DEF SinConf, Comiteado
  <2>2. Vacio.estado # "COMMITED"
    BY DEF Vacio, Meta
  <2> QED
    BY <1>1, <1>3, <2>1, <2>2, NuevoSinComitear
<1>4. IsFiniteSet(enlaces)'
  BY <1>1 DEF Exacto
<1>5. Sigue(w, A("guardaMeta"))
  BY <1>2 DEF CrearMeta
<1>6. PICK k : hebra'[w] = k /\ k.p = h.p /\ k.pc = "guardaMeta"
  BY <1>1, <1>5, SoloEtiqueta
<1>7. ASSUME aMedias = {}
      PROVE  CuentaBien(k)' /\ LocalesBien(k)' /\ MismosDatos(k)'
  <2>1. CuentaBien(k)' /\ MismosDatos(k)'
    BY <1>1, <1>3, <1>6, <1>7 DEF CuentaBien, Copiado, Dejado, PorEnlazar, MismosDatos
  <2>2. Destino(k.p) # Base /\ (h.p.op = "TAG" => ~Comiteado(k.p.dst)')
    BY <1>3, <1>6, <1>7 DEF Destino
  <2>3. \A ft : ft = d => meta'[ft] = Vacio
    BY <1>1, <1>2 DEF ConMeta
  <2> QED
    BY <1>1, <1>6, <2>1, <2>2, <2>3 DEF LocalesBien, EnMano, Copiada
<1> QED
  BY <1>3, <1>4, <1>6, <1>7, PasoExacto

\* Its config_save writes WORK_IN_PROGRESS.
LEMMA GuardaMetaExacto ==
  ASSUME Exacto, UnWorker, Enlazado', NEW w \in Workers, aMedias' = aMedias, GuardaMeta(w)
  PROVE  Exacto'
<1> DEFINE h == hebra[w]
           d == Destino(h.p)
           m == Meta("WORK_IN_PROGRESS", <<>>)
<1>1. EnObra(w) /\ Tipos /\ h.p.op \in {"CREATE", "TAG"} /\ h.pc = "guardaMeta"
      /\ UNCHANGED <<dirs, enlaces, ocupado, contenido, indice>> /\ meta' = ConMeta(d, m)
      /\ TrasCrear(w) /\ d \in FileTags
  BY Labores, Hechos DEF GuardaMeta, En, EnObra, Exacto, Enlazado
<1>2. ASSUME aMedias = {}
      PROVE  /\ ComiteadosBien' /\ IndiceBien' /\ ocupado' = Usados' /\ d # Base
             /\ \A ft : ft = d => ~Comiteado(ft)'
  <2>1. ~Comiteado(d)
    <3>1. LocalesBien(h)
      BY <1>1, <1>2, Contexto
    <3>2. meta[d] = Vacio
      BY <1>1, <3>1 DEF LocalesBien
    <3>3. Vacio.estado # "COMMITED"
      BY DEF Vacio, Meta
    <3> QED
      BY <3>2, <3>3 DEF Comiteado
  <2>2. m.estado # "COMMITED"
    BY DEF Meta
  <2> QED
    BY <1>1, <1>2, <2>1, <2>2, NuevoSinComitear
<1>3. IsFiniteSet(enlaces)'
  BY <1>1 DEF Exacto
<1>4. CASE h.p.op = "CREATE"
  <2>1. hebra'[w].pc = "espera"
    BY <1>1, <1>4, Hechos DEF TrasCrear, Responde, Ociosa
  <2> QED
    BY <1>2, <1>3, <2>1, FinExacto
<1>5. CASE h.p.op = "TAG"
  <2>1. PICK k : hebra'[w] = k /\ k.p = h.p /\ k.pc \in {"copiaMeta", "enlaza"}
    <3>1. CASE h.bloques = <<>>
      <4>1. Sigue(w, A("copiaMeta"))
        BY <1>1, <1>5, <3>1 DEF TrasCrear
      <4> QED
        BY <1>1, <4>1, SoloEtiqueta
    <3>2. CASE h.bloques # <<>>
      <4>1. Sigue(w, [pc |-> "enlaza", i |-> 0, nuevo |-> h.bloques[1]])
        BY <1>1, <1>5, <3>2 DEF TrasCrear
      <4> QED
        BY <1>1, <4>1, Siguiente
    <3> QED
      BY <3>1, <3>2
  <2>2. ASSUME aMedias = {}
        PROVE  CuentaBien(k)' /\ LocalesBien(k)' /\ MismosDatos(k)'
    <3>1. CuentaBien(k)' /\ MismosDatos(k)'
      BY <1>2, <1>5, <2>1, <2>2 DEF CuentaBien, Copiado, Dejado, PorEnlazar, MismosDatos
    <3>2. d = k.p.dst /\ Destino(k.p) # Base
      BY <1>2, <1>5, <2>1, <2>2 DEF Destino
    <3>3. ~Comiteado(k.p.dst)'
      BY <1>2, <2>2, <3>2
    <3>4. LocalesBien(k)'
      BY <1>5, <2>1, <3>2, <3>3 DEF LocalesBien, EnMano, Copiada
    <3> QED
      BY <3>1, <3>4
  <2> QED
    BY <1>2, <1>3, <2>1, <2>2, PasoExacto
<1> QED
  BY <1>1, <1>4, <1>5

\* The ESTADO that modificar_bloques_meta will write back is the one there is.
LEMMA CopiaMetaExacto ==
  ASSUME Exacto, UnWorker, Enlazado', NEW w \in Workers, aMedias' = aMedias, CopiaMeta(w)
  PROVE  Exacto'
<1> DEFINE h == hebra[w]
           e == meta[Destino(h.p)].estado
<1>1. EnObra(w) /\ Tipos /\ UNCHANGED disco /\ h.pc = "copiaMeta"
      /\ Sigue(w, [pc |-> "guardaBloques", estado |-> e])
      /\ h.p.op \in {"TRUNCATE", "TAG", "COMMIT", "WRITE"}
  BY Labores DEF CopiaMeta, En, EnObra, Exacto, Enlazado
<1>2. PICK k : /\ hebra'[w] = k /\ k.p = h.p /\ k.pc = "guardaBloques" /\ k.estado = e
               /\ k.bloques = h.bloques /\ k.i = h.i /\ k.b = h.b /\ k.nuevo = h.nuevo
  BY <1>1, Siguiente
<1>3. ASSUME aMedias = {}
      PROVE  /\ ComiteadosBien' /\ IndiceBien' /\ CuentaBien(k)'
             /\ LocalesBien(k)' /\ MismosDatos(k)'
  <2>1. ComiteadosBien /\ IndiceBien /\ CuentaBien(h) /\ LocalesBien(h) /\ MismosDatos(h)
    BY <1>1, <1>3, Contexto
  <2>2. ComiteadosBien' /\ IndiceBien' /\ Usados' = Usados
    BY <1>1, <2>1, DiscoBien DEF disco
  <2>3. CuentaBien(k)'
    BY <1>1, <1>2, <2>1, <2>2 DEF CuentaBien, Copiado, Dejado, PorEnlazar, disco
  <2>4. LocalesBien(k)'
    BY <1>1, <1>2, <2>1 DEF LocalesBien, EnMano, Copiada, Comiteado, disco
  <2>5. MismosDatos(k)'
    BY <1>1, <1>2, <2>1 DEF MismosDatos, disco
  <2> QED
    BY <2>2, <2>3, <2>4, <2>5
<1>4. IsFiniteSet(enlaces)'
  BY <1>1 DEF disco, Exacto
<1> QED
  BY <1>2, <1>3, <1>4, PasoExacto

\* The list is saved: COMMIT changes no datum, WRITE is about to mark its copy.
LEMMA GuardaBloquesExacto ==
  ASSUME Exacto, UnWorker, Enlazado', NEW w \in Workers, aMedias' = aMedias, GuardaBloques(w)
  PROVE  Exacto'
<1> DEFINE h == hebra[w]
           d == Destino(h.p)
           m == Meta(h.estado, h.bloques)
<1>1. EnObra(w) /\ Tipos /\ h.pc = "guardaBloques"
      /\ UNCHANGED <<dirs, enlaces, ocupado, contenido, indice>> /\ meta' = ConMeta(d, m)
      /\ meta \in [FileTags -> Metadatos \cup {SinMeta}] /\ d \in FileTags
      /\ h.bloques \in Seq(Bloques) /\ h.estado \in Estados
  BY Labores, Hechos DEF GuardaBloques, En, EnObra, Exacto, Enlazado, Tipos, TypeOK
<1>2. ASSUME aMedias = {} PROVE \A ft \in FileTags : Comiteado(ft)' <=> Comiteado(ft)
  <2>1. meta[d] # SinMeta /\ h.estado = meta[d].estado /\ d \in dirs
    <3>1. LocalesBien(h) /\ Labrada(h, d)
      BY <1>1, <1>2, Contexto
    <3>2. meta[d] # SinMeta
      <4>1. h.p.op \in {"TRUNCATE", "TAG", "COMMIT", "WRITE"} /\ ObraBien(w)
        BY <1>1, Labores DEF Exacto, Enlazado
      <4> QED
        BY <1>1, <4>1, EnObraHechos DEF ObraBien, Destino
    <3> QED
      BY <1>1, <3>1, <3>2 DEF LocalesBien, Labrada, SinDir
  <2>2. m \in Metadatos /\ m.estado = meta[d].estado
    BY <1>1, <2>1 DEF Meta, Metadatos
  <2>3. \A ft \in FileTags : meta'[ft] = IF ft = d THEN m ELSE meta[ft]
    BY <1>1, <2>1 DEF ConMeta
  <2> QED
    BY <2>1, <2>2, <2>3, StorageAssumption DEF Comiteado
<1>3. ASSUME aMedias = {}
      PROVE  /\ ComiteadosBien' /\ IndiceBien' /\ CuentaBien(h) /\ LocalesBien(h)
             /\ Usados' = Usados
  <2>1. ComiteadosBien /\ IndiceBien /\ CuentaBien(h) /\ LocalesBien(h)
    BY <1>1, <1>3, Contexto
  <2>2. Base \in dirs'
    BY <1>1, <2>1 DEF ComiteadosBien
  <2> QED
    BY <1>1, <1>2, <1>3, <2>1, <2>2, MetaBienTras
<1>4. IsFiniteSet(enlaces)'
  BY <1>1 DEF Exacto
<1>5. CASE h.p.op # "WRITE"
  <2>1. hebra'[w].pc = "espera"
    BY <1>1, <1>5, Hechos DEF GuardaBloques, Responde, Ociosa
  <2>2. aMedias = {} => ocupado' = Usados'
    BY <1>1, <1>3, <1>5 DEF CuentaBien, Copiado, Dejado
  <2> QED
    BY <1>3, <1>4, <2>1, <2>2, FinExacto
<1>6. CASE h.p.op = "WRITE"
  <2>1. PICK k : hebra'[w] = k /\ k.p = h.p /\ k.pc = "marca" /\ k.nuevo = h.nuevo
    BY <1>1, <1>6, SoloEtiqueta DEF GuardaBloques
  <2>2. ASSUME aMedias = {} PROVE CuentaBien(k)' /\ LocalesBien(k)' /\ MismosDatos(k)'
    <3>1. CuentaBien(k)'
      BY <1>1, <1>3, <1>6, <2>1, <2>2 DEF CuentaBien, Copiado, Dejado, PorEnlazar
    <3>2. ~Comiteado(h.p.ft) /\ d # Base /\ h.p.ft = d
      BY <1>1, <1>3, <1>6, <2>2 DEF LocalesBien, Destino
    <3>3. \A ft : ft = h.p.ft => ~Comiteado(ft)'
      BY <1>1, <1>2, <2>2, <3>2
    <3>4. LocalesBien(k)'
      BY <1>6, <2>1, <3>2, <3>3 DEF LocalesBien, EnMano, Copiada
    <3> QED
      BY <1>6, <2>1, <3>1, <3>4 DEF MismosDatos
  <2> QED
    BY <1>3, <1>4, <2>1, <2>2, PasoExacto
<1> QED
  BY <1>5, <1>6

\* The state changes before any hash is looked up, so whatever the index will
\* name belongs to a committed file:tag.
LEMMA CommiteaExacto ==
  ASSUME Exacto, UnWorker, Enlazado', NEW w \in Workers, aMedias' = aMedias, Commitea(w)
  PROVE  Exacto'
<1> DEFINE h == hebra[w]
           d == h.p.ft
<1>1. EnObra(w) /\ Tipos /\ h.pc = "commitea" /\ h.p.op = "COMMIT"
      /\ UNCHANGED <<dirs, enlaces, ocupado, contenido, indice>>
      /\ meta \in [FileTags -> Metadatos \cup {SinMeta}] /\ d \in FileTags
      /\ h.p \in Pedidos[w] /\ meta[d] # SinMeta /\ meta[d].bloques = h.bloques
      /\ h.bloques \in Seq(Bloques) /\ d \in dirs
  <2>1. EnObra(w) /\ h.pc = "commitea" /\ h.p.op = "COMMIT" /\ Tipos /\ ObraBien(w)
    BY Labores DEF Commitea, En, EnObra, Exacto, Enlazado
  <2>2. meta[d].bloques = h.bloques /\ d \in dirs
    BY <2>1 DEF ObraBien, MismaLista, Labrada, SinDir, Destino
  <2> QED
    BY <2>1, <2>2, Hechos, EnObraHechos DEF Commitea, EnObra, Tipos, TypeOK
<1>2. IsFiniteSet(enlaces)'
  BY <1>1 DEF Exacto
<1>3. ASSUME aMedias = {}
      PROVE  /\ ComiteadosBien /\ IndiceBien /\ ocupado = Usados /\ MismosDatos(h)
             /\ h.estado = meta[d].estado
  <2>1. ComiteadosBien /\ IndiceBien /\ CuentaBien(h) /\ LocalesBien(h) /\ MismosDatos(h)
    BY <1>1, <1>3, Contexto
  <2>2. ocupado = Usados
    BY <1>1, <2>1 DEF CuentaBien, Copiado, Dejado
  <2>3. h.estado = meta[d].estado
    BY <1>1, <2>1 DEF LocalesBien, Destino
  <2> QED
    BY <2>1, <2>2, <2>3
<1>4. CASE h.estado # "WORK_IN_PROGRESS"
  <2>1. hebra'[w].pc = "espera" /\ UNCHANGED meta
    BY <1>1, <1>4, Hechos DEF Commitea, Responde, Ociosa
  <2>2. aMedias = {} => ComiteadosBien' /\ IndiceBien' /\ ocupado' = Usados'
    BY <1>1, <1>3, <2>1, DiscoBien
  <2> QED
    BY <1>2, <2>1, <2>2, FinExacto
<1>5. CASE h.estado = "WORK_IN_PROGRESS"
  <2> DEFINE m == Meta("COMMITED", h.bloques)
  <2>1. meta' = ConMeta(d, m) /\ Sigue(w, A("relee"))
    BY <1>5 DEF Commitea
  <2>2. PICK k : hebra'[w] = k /\ k.p = h.p /\ k.bloques = h.bloques /\ k.pc = "relee"
    BY <1>1, <2>1, SoloEtiqueta
  <2>3. /\ \A ft \in FileTags : ft # d => meta'[ft] = meta[ft]
        /\ \A ft : ft = d => Comiteado(ft)' /\ meta'[ft].bloques = meta[ft].bloques
    <3>1. m \in Metadatos /\ m.estado = "COMMITED" /\ m.bloques = meta[d].bloques
      BY <1>1 DEF Meta, Metadatos, Estados
    <3>2. \A ft \in FileTags : meta'[ft] = IF ft = d THEN m ELSE meta[ft]
      BY <1>1, <2>1 DEF ConMeta
    <3> QED
      BY <1>1, <3>1, <3>2, StorageAssumption DEF Comiteado
  <2>4. ASSUME aMedias = {}
        PROVE  /\ ComiteadosBien' /\ IndiceBien' /\ CuentaBien(k)'
               /\ LocalesBien(k)' /\ MismosDatos(k)'
    <3>1. ComiteadosBien' /\ IndiceBien' /\ Usados' = Usados
      <4>1. Base \in dirs'
        BY <1>1, <1>3, <2>4 DEF ComiteadosBien
      <4>2. \A ft \in FileTags : Comiteado(ft) => Comiteado(ft)'
        BY <2>3 DEF Comiteado
      <4>3. \A ft \in FileTags : Comiteado(ft)' =>
              Comiteado(ft) \/ \E v \in Workers : \E p \in Pedidos[v] : p.op = "COMMIT" /\ p.ft = ft
        BY <1>1, <2>3 DEF Comiteado
      <4> QED
        BY <1>1, <1>3, <2>4, <4>1, <4>2, <4>3, MetaBienTras
    <3>2. CuentaBien(k)'
      BY <1>1, <1>3, <2>2, <2>4, <3>1 DEF CuentaBien, Copiado, Dejado, PorEnlazar
    <3>3. d # Base
      BY <1>3, <1>5, <2>4 DEF ComiteadosBien, Comiteado
    <3>4. LocalesBien(k)'
      <4>1. Comiteado(k.p.ft)' /\ Destino(k.p) # Base /\ k.p.op = "COMMIT"
        BY <1>1, <2>2, <2>3, <3>3 DEF Destino
      <4> QED
        BY <2>2, <4>1 DEF LocalesBien, EnMano, Copiada
    <3>5. MismosDatos(k)'
      <4>1. meta'[k.p.ft].bloques = meta[h.p.ft].bloques
        BY <2>2, <2>3
      <4> QED
        BY <1>1, <1>3, <2>2, <2>4, <4>1 DEF MismosDatos
    <3> QED
      BY <3>1, <3>2, <3>4, <3>5
  <2> QED
    BY <1>2, <2>2, <2>4, PasoExacto
<1> QED
  BY <1>4, <1>5

\* obtener_bloques_meta finds the list that was just written.
LEMMA ReleeExacto ==
  ASSUME Exacto, UnWorker, Enlazado', NEW w \in Workers, aMedias' = aMedias, Relee(w)
  PROVE  Exacto'
<1> DEFINE h == hebra[w]
<1>1. EnObra(w) /\ Tipos /\ UNCHANGED disco /\ h.pc = "relee" /\ h.p.op = "COMMIT"
      /\ h \in Hebra /\ h.bloques \in Seq(Bloques) /\ hebra \in [Workers -> Hebra]
  BY Labores, Hechos DEF Relee, En, EnObra, Exacto, Enlazado
<1>2. hebra'[w] = Con(h, Revisa(h.bloques, 0))
  BY <1>1, ReleeSigue DEF Exacto, Enlazado
<1>3. PICK k : /\ hebra'[w] = k /\ k.p = h.p /\ k.bloques = h.bloques
               /\ k.pc = "copiaMeta" \/ (k.pc = "hash" /\ k.b = h.bloques[k.i + 1])
  <2>1. CASE 0 < Len(h.bloques)
    <3>1. Revisa(h.bloques, 0) = [pc |-> "hash", i |-> 0, b |-> h.bloques[0 + 1]]
      BY <2>1 DEF Revisa
    <3> QED
      BY <1>1, <1>2, <3>1, ConCampos
  <2>2. CASE ~(0 < Len(h.bloques))
    <3>1. Revisa(h.bloques, 0) = A("copiaMeta")
      BY <2>2 DEF Revisa
    <3> QED
      BY <1>1, <1>2, <3>1, ConCampos DEF A
  <2> QED
    BY <2>1, <2>2
<1>4. ASSUME aMedias = {}
      PROVE  /\ ComiteadosBien' /\ IndiceBien' /\ CuentaBien(k)'
             /\ LocalesBien(k)' /\ MismosDatos(k)'
  <2>1. ComiteadosBien /\ IndiceBien /\ CuentaBien(h) /\ LocalesBien(h) /\ MismosDatos(h)
    BY <1>1, <1>4, Contexto
  <2>2. ComiteadosBien' /\ IndiceBien' /\ Usados' = Usados
    BY <1>1, <2>1, DiscoBien DEF disco
  <2>3. CuentaBien(k)'
    BY <1>1, <1>3, <2>1, <2>2 DEF CuentaBien, Copiado, Dejado, PorEnlazar, disco
  <2>4. LocalesBien(k)'
    BY <1>1, <1>3, <2>1 DEF LocalesBien, EnMano, Copiada, Comiteado, disco
  <2>5. MismosDatos(k)'
    BY <1>1, <1>3, <2>1 DEF MismosDatos, disco
  <2> QED
    BY <2>2, <2>3, <2>4, <2>5
<1>5. IsFiniteSet(enlaces)'
  BY <1>1 DEF disco, Exacto
<1> QED
  BY <1>3, <1>4, <1>5, PasoExacto

\* What a DELETE removes was not committed.
LEMMA BorraExacto ==
  ASSUME Exacto, UnWorker, ComiteadosQuedan, Enlazado', NEW w \in Workers, aMedias' = aMedias,
         Borra(w)
  PROVE  Exacto'
<1> DEFINE h == hebra[w]
           d == h.p.ft
<1>1. EnObra(w) /\ Tipos /\ h.pc = "borra" /\ h.p.op = "DELETE" /\ Responde(w)
      /\ UNCHANGED <<enlaces, ocupado, contenido, indice>>
      /\ meta \in [FileTags -> Metadatos \cup {SinMeta}] /\ d \in FileTags
      /\ h.p \in Pedidos[w] /\ meta' = [meta EXCEPT ![d] = SinMeta] /\ dirs \ {d} \subseteq dirs'
  BY Labores, Hechos DEF Borra, En, EnObra, Exacto, Enlazado, Tipos, TypeOK
<1>2. IsFiniteSet(enlaces)'
  BY <1>1 DEF Exacto
<1>3. hebra'[w].pc = "espera"
  BY <1>1, Hechos DEF Responde, Ociosa
<1>4. ASSUME aMedias = {} PROVE ComiteadosBien' /\ IndiceBien' /\ ocupado' = Usados'
  <2>1. ComiteadosBien /\ IndiceBien /\ ocupado = Usados
    BY <1>1, <1>4, Contexto DEF CuentaBien, Copiado, Dejado
  <2>2. d # Base /\ ~Comiteado(d)
    BY <1>1, <2>1, Solo DEF ComiteadosQuedan, ComiteadosBien
  <2>3. \A ft \in FileTags : Comiteado(ft)' <=> Comiteado(ft)
    BY <1>1, <2>2 DEF Comiteado
  <2>4. Base \in dirs'
    BY <1>1, <2>1, <2>2 DEF ComiteadosBien
  <2> QED
    BY <1>1, <2>1, <2>3, <2>4, MetaBienTras
<1> QED
  BY <1>2, <1>3, <1>4, FinExacto

-----------------------------------------------------------------------------
(* Links.                                                                  *)

\* The block at hand is linked at its place, and nothing else is.
LEMMA EnlaceEnMano ==
  ASSUME Exacto, UnWorker, NEW w \in Workers, aMedias = {}, EnObra(w),
         \/ hebra[w].pc \in {"desenlaza", "nlink"}
         \/ hebra[w].pc \in {"hash", "buscaHash", "rehash", "guardaHash", "reasigna"}
  PROVE  LET h == hebra[w] IN
         /\ DeLogico(h.p.ft, h.i) = {Enlace(h.p.ft, h.i, h.b)}
         /\ Enlace(h.p.ft, h.i, h.b) \in enlaces
<1> DEFINE h == hebra[w]
           L == ListaEnObra(h)
<1>1. Tipos /\ LocalesBien(h) /\ Ubicada(h) /\ Enlazados(Destino(h.p), L, Puestos(h))
  BY Contexto
<1>2. /\ h.pc \in {"desenlaza", "nlink"} => h.p.op \in {"TRUNCATE", "WRITE", "DELETE"}
      /\ h.pc = "nlink" => h.p.op = "WRITE"
  BY <1>1, Labores
<1>3. h.pc \in {"hash", "buscaHash", "rehash", "guardaHash", "reasigna"} => h.p.op = "COMMIT"
  BY <1>1, Labores
<1>4. Destino(h.p) = h.p.ft
  BY <1>2, <1>3 DEF Destino
<1>5. h.i \in Nat /\ h.bloques \in Seq(Bloques) /\ Len(h.bloques) \in Nat /\ h.b \in Bloques
  BY <1>1, Hechos, LenProperties
<1>6. h.i \in Puestos(h)
  <2>1. CASE h.pc \in {"desenlaza", "nlink"}
    BY <1>2, <1>5, <2>1 DEF Puestos
  <2>2. CASE h.pc \in {"hash", "buscaHash", "rehash", "guardaHash", "reasigna"}
    BY <1>3, <1>5, <2>2 DEF Puestos
  <2> QED
    BY <2>1, <2>2
<1>7. h.i < Len(L) /\ L[h.i + 1] = h.b /\ Len(L) \in Nat
  <2>1. CASE h.p.op = "TRUNCATE"
    <3>1. L = Append(h.bloques, h.b) /\ h.i = Len(h.bloques)
      BY <1>1, <1>2, <1>3, <2>1, Labores DEF ListaEnObra, Ubicada
    <3> QED
      BY <1>5, <3>1, AppendProperties
  <2>2. CASE h.p.op # "TRUNCATE"
    BY <1>1, <1>2, <1>3, <1>5, <2>2 DEF ListaEnObra, Ubicada, LocalesBien, EnMano
  <2> QED
    BY <2>1, <2>2
<1>8. Enlace(h.p.ft, h.i, h.b) \in enlaces
  BY <1>1, <1>4, <1>5, <1>6, <1>7 DEF Enlazados
<1>9. ASSUME NEW e \in enlaces, e.ft = h.p.ft, e.i = h.i PROVE e = Enlace(h.p.ft, h.i, h.b)
  BY <1>1, <1>4, <1>7, <1>9, EnlacesDeNat DEF Enlazados
<1> HIDE DEF h
<1>10. DeLogico(h.p.ft, h.i) = {Enlace(h.p.ft, h.i, h.b)}
  BY <1>8, <1>9 DEF DeLogico, Enlace
<1> QED
  BY <1>8, <1>10 DEF h

\* unlink: the block may have no file:tag left.
LEMMA DesenlazaExacto ==
  ASSUME Exacto, UnWorker, ComiteadosQuedan, Enlazado', IsFiniteSet(enlaces)',
         NEW w \in Workers, aMedias' = aMedias,
         Desenlaza(w) \/ Reasigna(w)
  PROVE  Exacto'
<1> DEFINE h == hebra[w]
           d == h.p.ft
           x == Enlace(d, h.i, h.b)
<1>1. EnObra(w) /\ Tipos /\ UNCHANGED <<dirs, meta, ocupado, contenido, indice>>
      /\ enlaces' = SinEnlace(d, h.i) /\ h.p \in Pedidos[w] /\ h.nuevo \in Bloques
      /\ h.hash \in Contenidos
      /\ \/ h.pc = "desenlaza" /\ h.p.op \in {"TRUNCATE", "WRITE", "DELETE"}
         \/ h.pc = "reasigna" /\ h.p.op = "COMMIT"
  BY Labores, Hechos DEF Desenlaza, Reasigna, En, EnObra, Exacto, Enlazado
<1>2. PICK k : /\ hebra'[w] = k /\ k.p = h.p /\ k.bloques = h.bloques /\ k.i = h.i /\ k.b = h.b
               /\ k.nuevo = h.nuevo /\ k.hash = h.hash
               /\ h.pc = "desenlaza" => k.pc = "stat"
               /\ h.pc = "reasigna" => k.pc = "enlazaDuplicado"
  <2>1. CASE h.pc = "desenlaza"
    <3>1. Sigue(w, A("stat"))
      BY <2>1 DEF Desenlaza, Reasigna, En
    <3> QED
      BY <1>1, <2>1, <3>1, SoloEtiqueta
  <2>2. CASE h.pc = "reasigna"
    <3>1. Sigue(w, A("enlazaDuplicado"))
      BY <2>2 DEF Desenlaza, Reasigna, En
    <3> QED
      BY <1>1, <2>2, <3>1, SoloEtiqueta
  <2> QED
    BY <1>1, <2>1, <2>2
<1>3. ASSUME aMedias = {}
      PROVE  /\ ComiteadosBien' /\ IndiceBien' /\ CuentaBien(k)'
             /\ LocalesBien(k)' /\ MismosDatos(k)'
  <2>1. ComiteadosBien /\ IndiceBien /\ CuentaBien(h) /\ LocalesBien(h) /\ MismosDatos(h)
    BY <1>1, <1>3, Contexto
  <2>2. enlaces' = enlaces \ {x} /\ x \in enlaces
    BY <1>1, <1>3, EnlaceEnMano DEF SinEnlace
  <2>3. d = Destino(h.p) /\ d # Base
    BY <1>1, <2>1 DEF LocalesBien, Destino
  <2>4. \A ft : Comiteado(ft)' <=> Comiteado(ft)
    BY <1>1 DEF Comiteado
  <2>5. ComiteadosBien'
    BY <1>1, <2>1, <2>2, <2>3, <2>4 DEF ComiteadosBien, Enlace
  <2>6. ASSUME NEW c \in Contenidos, indice[c] # -1, NEW e \in enlaces, e.b = indice[c], Comiteado(e.ft)
        PROVE  e # x
    <3>1. CASE h.p.op = "COMMIT"
      <4>1. e.b # h.b
        BY <1>1, <2>1, <2>6, <3>1 DEF IndiceBien, LocalesBien
      <4> QED
        BY <4>1 DEF Enlace
    <3>2. CASE h.p.op = "DELETE"
      <4>1. ~Comiteado(d)
        BY <1>1, <2>1, <3>2, Solo, Hechos DEF ComiteadosQuedan, ComiteadosBien, EnObra
      <4> QED
        BY <2>6, <4>1 DEF Enlace
    <3>3. CASE h.p.op \in {"TRUNCATE", "WRITE"}
      BY <2>1, <2>6, <3>3 DEF LocalesBien, Enlace
    <3> QED
      BY <1>1, <3>1, <3>2, <3>3
  <2>7. IndiceBien'
    BY <1>1, <2>1, <2>2, <2>4, <2>6 DEF IndiceBien
  <2>8. Usados = Usados' \cup {h.b}
    BY <2>2 DEF Usados, Enlace
  <2>9. CuentaBien(k)'
    BY <1>1, <1>2, <2>1, <2>8 DEF CuentaBien, Copiado, Dejado, PorEnlazar
  <2>10. LocalesBien(k)'
    <3>1. EnMano(k) => k.b = k.bloques[k.i + 1]
      BY <1>1, <1>2, <2>1 DEF LocalesBien, EnMano
    <3>2. /\ k.p.op \in {"TRUNCATE", "WRITE"} => ~Comiteado(k.p.ft)'
          /\ k.p.op = "TAG" => ~Comiteado(k.p.dst)'
          /\ k.p.op = "COMMIT" /\ k.pc # "commitea" => Comiteado(k.p.ft)'
          /\ k.p.op # "READ" /\ k.pc # "commitea" => Destino(k.p) # Base
      BY <1>1, <1>2, <2>1, <2>4 DEF LocalesBien
    <3>3. k.pc = "enlazaDuplicado" => k.nuevo \in Usados' /\ contenido'[k.nuevo] = contenido'[k.b]
      <4> SUFFICES ASSUME h.pc = "reasigna"
                   PROVE  h.nuevo \in Usados' /\ contenido[h.nuevo] = contenido[h.b]
        BY <1>1, <1>2
      <4>1. indice[h.hash] = h.nuevo /\ h.nuevo # h.b /\ h.hash = contenido[h.b] /\ h.nuevo # -1
        BY <1>1, <2>1 DEF LocalesBien, Bloques
      <4>2. contenido[h.nuevo] = h.hash /\ \E e \in enlaces : e.b = h.nuevo
        BY <1>1, <2>1, <4>1 DEF IndiceBien
      <4> QED
        BY <2>8, <4>1, <4>2 DEF Usados
    <3>4. /\ k.pc \in {"stat", "enlazaDuplicado"}
          /\ Copiada(k) => contenido'[k.nuevo] = k.p.c
      BY <1>1, <1>2, <2>1 DEF LocalesBien, Copiada
    <3> QED
      BY <3>1, <3>2, <3>3, <3>4 DEF LocalesBien
  <2>11. MismosDatos(k)'
    BY <1>1, <1>2, <2>1 DEF MismosDatos
  <2> QED
    BY <2>5, <2>7, <2>9, <2>10, <2>11
<1> QED
  BY <1>2, <1>3, PasoExacto

\* link: nothing that held of the links there were stops holding.
LEMMA EnlazarBien ==
  ASSUME ComiteadosBien, IndiceBien, UNCHANGED <<dirs, meta, contenido, indice>>,
         NEW d, NEW i, NEW b, enlaces' = ConEnlace(d, i, b)
  PROVE  /\ ComiteadosBien' /\ IndiceBien'
         /\ Usados \subseteq Usados' /\ Usados' \subseteq Usados \cup {b}
         /\ \A ft : Comiteado(ft)' <=> Comiteado(ft)
<1>1. enlaces \subseteq enlaces' /\ enlaces' \subseteq enlaces \cup {Enlace(d, i, b)}
  BY DEF ConEnlace
<1>2. \A ft : Comiteado(ft)' <=> Comiteado(ft)
  BY DEF Comiteado
<1>3. Usados \subseteq Usados' /\ Usados' \subseteq Usados \cup {b}
  BY <1>1 DEF Usados, Enlace
<1>4. ComiteadosBien'
  BY <1>1, <1>2 DEF ComiteadosBien
<1>5. IndiceBien'
  BY <1>1, <1>2 DEF IndiceBien
<1> QED
  BY <1>2, <1>3, <1>4, <1>5

\* A TRUNCATE links block 0, which the base keeps; a TAG the blocks of its
\* source, which are linked there; a WRITE its copy.
LEMMA EnlazaExacto ==
  ASSUME Exacto, UnWorker, Enlazado', IsFiniteSet(enlaces)', NEW w \in Workers,
         aMedias' = aMedias, Enlaza(w)
  PROVE  Exacto'
<1> DEFINE h == hebra[w]
           d == Destino(h.p)
<1>1. EnObra(w) /\ Tipos /\ UNCHANGED <<dirs, meta, ocupado, contenido, indice>>
      /\ enlaces' = ConEnlace(d, h.i, h.nuevo) /\ h.pc = "enlaza"
      /\ h.p.op \in {"TRUNCATE", "TAG", "WRITE"} /\ Sigue(w, TrasEnlazar(h))
      /\ h.i \in Nat /\ h.bloques \in Seq(Bloques) /\ Len(h.bloques) \in Nat
      /\ h.p.ft \in FileTags
  BY Labores, Hechos, LenProperties DEF Enlaza, En, EnObra, Exacto, Enlazado
<1>2. PICK k : /\ hebra'[w] = k /\ k.p = h.p /\ k.pc \in {"enlaza", "copiaMeta"}
               /\ h.p.op = "WRITE" =>
                    /\ k.pc = "copiaMeta" /\ k.nuevo = h.nuevo /\ k.i = h.i
                    /\ k.bloques = [h.bloques EXCEPT ![h.i + 1] = h.nuevo]
  <2>1. CASE h.p.op = "TRUNCATE"
    <3>1. PICK pc \in {"enlaza", "copiaMeta"} :
            Sigue(w, [bloques |-> Append(h.bloques, 0), i |-> h.i + 1, pc |-> pc])
      BY <1>1, <2>1 DEF TrasEnlazar
    <3> QED
      BY <1>1, <2>1, <3>1, Siguiente
  <2>2. CASE h.p.op = "TAG" /\ h.i + 1 < Len(h.bloques)
    <3>1. Sigue(w, [pc |-> "enlaza", i |-> h.i + 1, nuevo |-> h.bloques[(h.i + 1) + 1]])
      BY <1>1, <2>2 DEF TrasEnlazar
    <3> QED
      BY <1>1, <2>2, <3>1, Siguiente
  <2>3. CASE h.p.op = "TAG" /\ ~(h.i + 1 < Len(h.bloques))
    <3>1. Sigue(w, A("copiaMeta"))
      BY <1>1, <2>3 DEF TrasEnlazar
    <3> QED
      BY <1>1, <2>3, <3>1, SoloEtiqueta
  <2>4. CASE h.p.op = "WRITE"
    <3>1. Sigue(w, [pc |-> "copiaMeta", bloques |-> [h.bloques EXCEPT ![h.i + 1] = h.nuevo]])
      BY <1>1, <2>4 DEF TrasEnlazar
    <3> QED
      BY <1>1, <2>4, <3>1, Siguiente
  <2> QED
    BY <1>1, <2>1, <2>2, <2>3, <2>4
<1>3. ASSUME aMedias = {}
      PROVE  /\ ComiteadosBien' /\ IndiceBien' /\ CuentaBien(k)'
             /\ LocalesBien(k)' /\ MismosDatos(k)'
  <2>1. ComiteadosBien /\ IndiceBien /\ CuentaBien(h) /\ LocalesBien(h) /\ Ubicada(h)
        /\ d \in dirs /\ Enlazados(d, ListaEnObra(h), Puestos(h))
        /\ (h.p.op \in {"TAG", "WRITE"} => meta[h.p.ft].bloques = h.bloques)
    BY <1>1, <1>3, Contexto DEF SinDir, MismaLista
  <2>2. ComiteadosBien' /\ IndiceBien' /\ Usados \subseteq Usados'
        /\ Usados' \subseteq Usados \cup {h.nuevo} /\ \A ft : Comiteado(ft)' <=> Comiteado(ft)
    BY <1>1, <2>1, EnlazarBien
  <2>3. CuentaBien(k)'
    <3>1. ocupado = Usados /\ ocupado' = ocupado
      BY <1>1, <2>1 DEF CuentaBien, Copiado, Dejado
    <3>2. CASE h.p.op = "TRUNCATE"
      <4>1. h.nuevo = 0 /\ 0 \in Usados
        BY <1>1, <2>1, <3>2 DEF Ubicada, ComiteadosBien, Usados, Enlace
      <4> QED
        BY <1>2, <2>2, <3>1, <3>2, <4>1 DEF CuentaBien, Copiado, Dejado, PorEnlazar
    <3>3. CASE h.p.op = "TAG"
      <4>1. h.p.ft # d /\ meta[h.p.ft] # SinMeta
        BY <1>1, <3>3, EnObraHechos DEF Exacto, Enlazado, ObraBien
      <4>2. Reposa(h.p.ft)
        BY <1>1, <1>3, <4>1, Solo DEF Reposa
      <4>3. Enlazados(h.p.ft, h.bloques, Nat)
        BY <1>1, <2>1, <3>3, <4>1, <4>2 DEF Exacto, Enlazado, EnReposo
      <4>4. h.i \in 0 .. Len(h.bloques) - 1 /\ h.nuevo = h.bloques[h.i + 1]
        BY <1>1, <2>1, <3>3 DEF Ubicada
      <4>5. Enlace(h.p.ft, h.i, h.nuevo) \in enlaces
        BY <4>3, <4>4 DEF Enlazados
      <4>6. h.nuevo \in Usados
        BY <4>5 DEF Usados, Enlace
      <4> QED
        BY <1>2, <2>2, <3>1, <3>3, <4>6 DEF CuentaBien, Copiado, Dejado, PorEnlazar
    <3>4. CASE h.p.op = "WRITE"
      <4>1. h.i \notin Puestos(h)
        BY <1>1, <3>4 DEF Puestos
      <4>2. enlaces' = enlaces \cup {Enlace(d, h.i, h.nuevo)}
        BY <1>1, <2>1, <4>1 DEF ConEnlace, DeLogico, Enlazados
      <4>3. h.nuevo \in Usados'
        <5>1. Enlace(d, h.i, h.nuevo) \in enlaces' /\ Enlace(d, h.i, h.nuevo).b = h.nuevo
          BY <4>2 DEF Enlace
        <5> HIDE DEF h, d
        <5> QED
          BY <5>1 DEF Usados
      <4> QED
        BY <1>2, <2>2, <3>1, <3>4, <4>3 DEF CuentaBien, Copiado, Dejado, PorEnlazar
    <3> QED
      BY <1>1, <3>2, <3>3, <3>4
  <2>4. LocalesBien(k)'
    BY <1>1, <1>2, <2>1, <2>2, SMTT(30) DEF LocalesBien, EnMano, Copiada
  <2> QED
    BY <1>1, <1>2, <2>2, <2>3, <2>4 DEF MismosDatos
<1> QED
  BY <1>2, <1>3, PasoExacto

\* The block of the index takes the place of one with the same content.
LEMMA EnlazaDuplicadoExacto ==
  ASSUME Exacto, UnWorker, Enlazado', IsFiniteSet(enlaces)', NEW w \in Workers,
         aMedias' = aMedias, EnlazaDuplicado(w)
  PROVE  Exacto'
<1> DEFINE h == hebra[w]
           s == h.bloques
           M == [s EXCEPT ![h.i + 1] = h.nuevo]
<1>1. EnObra(w) /\ Tipos /\ UNCHANGED <<dirs, meta, ocupado, contenido, indice>>
      /\ enlaces' = ConEnlace(h.p.ft, h.i, h.nuevo) /\ h.pc = "enlazaDuplicado"
      /\ h.p.op = "COMMIT" /\ Sigue(w, [pc |-> "stat", bloques |-> M])
      /\ h.i \in Nat /\ s \in Seq(Bloques) /\ Len(s) \in Nat /\ h.nuevo \in Bloques
  BY Labores, Hechos, LenProperties DEF EnlazaDuplicado, En, EnObra, Exacto, Enlazado
<1>2. PICK k : hebra'[w] = k /\ k.p = h.p /\ k.pc = "stat" /\ k.bloques = M /\ k.b = h.b
  BY <1>1, Siguiente
<1>3. ASSUME aMedias = {}
      PROVE  /\ ComiteadosBien' /\ IndiceBien' /\ CuentaBien(k)'
             /\ LocalesBien(k)' /\ MismosDatos(k)'
  <2>1. ComiteadosBien /\ IndiceBien /\ CuentaBien(h) /\ LocalesBien(h) /\ MismosDatos(h)
        /\ Ubicada(h)
    BY <1>1, <1>3, Contexto
  <2>2. ComiteadosBien' /\ IndiceBien' /\ Usados \subseteq Usados'
        /\ Usados' \subseteq Usados \cup {h.nuevo} /\ \A ft : Comiteado(ft)' <=> Comiteado(ft)
    BY <1>1, <2>1, EnlazarBien
  <2>3. h.nuevo \in Usados /\ contenido[h.nuevo] = contenido[h.b] /\ h.b = s[h.i + 1]
    BY <1>1, <2>1 DEF LocalesBien, EnMano
  <2>4. CuentaBien(k)'
    BY <1>1, <1>2, <2>1, <2>2, <2>3 DEF CuentaBien, Copiado, Dejado, PorEnlazar
  <2>5. LocalesBien(k)'
    BY <1>1, <1>2, <2>1, <2>2 DEF LocalesBien, EnMano, Copiada
  <2>6. h.i + 1 \in 1 .. Len(s) /\ Len(M) = Len(s)
        /\ \A j \in 1 .. Len(s) : M[j] = IF j = h.i + 1 THEN h.nuevo ELSE s[j]
    <3>1. h.i + 1 \in 1 .. Len(s)
      BY <1>1, <2>1 DEF Ubicada
    <3> HIDE DEF s, h
    <3> QED
      BY <1>1, <3>1, ExceptSeq
  <2>7. MismosDatos(k)'
    <3> HIDE DEF M
    <3>1. \A j \in 1 .. Len(s) : contenido[M[j]] = contenido[s[j]]
      BY <2>3, <2>6
    <3>2. /\ Len(meta[h.p.ft].bloques) = Len(M)
          /\ \A j \in 1 .. Len(meta[h.p.ft].bloques) :
               contenido[meta[h.p.ft].bloques[j]] = contenido[M[j]]
      BY <1>1, <2>1, <2>6, <3>1 DEF MismosDatos
    <3>3. k.p.ft = h.p.ft /\ k.bloques = M /\ UNCHANGED <<meta, contenido>>
      BY <1>1, <1>2
    <3> HIDE DEF s, h
    <3> QED
      BY <3>2, <3>3 DEF MismosDatos
  <2> QED
    BY <2>2, <2>4, <2>5, <2>7
<1> QED
  BY <1>2, <1>3, PasoExacto

-----------------------------------------------------------------------------
(* The bitmap.                                                             *)

\* The st_nlink decides: the block is freed when no link is left.
LEMMA StatExacto ==
  ASSUME Exacto, UnWorker, Enlazado', NEW w \in Workers, aMedias' = aMedias, Stat(w)
  PROVE  Exacto'
<1> DEFINE h == hebra[w]
<1>1. EnObra(w) /\ Tipos /\ UNCHANGED disco /\ h.pc = "stat"
      /\ h.p.op \in {"TRUNCATE", "COMMIT", "WRITE", "DELETE"}
  BY Labores DEF Stat, En, EnObra, Exacto, Enlazado
<1>2. aMedias = {} => /\ ComiteadosBien /\ IndiceBien /\ CuentaBien(h) /\ LocalesBien(h)
                      /\ MismosDatos(h) /\ (NLink(h.b) = 1 <=> h.b \notin Usados)
  BY <1>1, Contexto, CuentaDeEnlaces
<1>3. aMedias = {} => ComiteadosBien' /\ IndiceBien' /\ Usados' = Usados
  BY <1>1, <1>2, DiscoBien DEF disco
<1>4. CASE NLink(h.b) = 1
  <2>1. Sigue(w, A("libera"))
    BY <1>4 DEF Stat
  <2>2. PICK k : /\ hebra'[w] = k /\ k.p = h.p /\ k.pc = "libera" /\ k.bloques = h.bloques
                 /\ k.i = h.i /\ k.b = h.b /\ k.nuevo = h.nuevo
    BY <1>1, <2>1, SoloEtiqueta
  <2>3. ASSUME aMedias = {} PROVE CuentaBien(k)' /\ LocalesBien(k)' /\ MismosDatos(k)'
    <3>1. CuentaBien(k)'
      BY <1>1, <1>2, <1>3, <1>4, <2>2, <2>3 DEF CuentaBien, Copiado, Dejado, PorEnlazar, disco
    <3>2. LocalesBien(k)'
      BY <1>1, <1>2, <2>2, <2>3 DEF LocalesBien, EnMano, Copiada, Comiteado, disco
    <3>3. MismosDatos(k)'
      BY <1>1, <1>2, <2>2, <2>3 DEF MismosDatos, disco
    <3> QED
      BY <3>1, <3>2, <3>3
  <2>4. IsFiniteSet(enlaces)'
    BY <1>1 DEF disco, Exacto
  <2> QED
    BY <1>3, <2>2, <2>3, <2>4, PasoExacto
<1>5. CASE NLink(h.b) # 1
  <2>1. Sigue(w, TrasDejar(h))
    BY <1>5 DEF Stat
  <2>2. aMedias = {} => /\ IndiceBien' /\ ocupado' = Usados
                        /\ h.p.op = "WRITE" => h.nuevo \notin ocupado'
    BY <1>1, <1>2, <1>3, <1>5 DEF CuentaBien, Copiado, Dejado, PorEnlazar, disco
  <2> QED
    BY <1>1, <2>1, <2>2, DejaExacto DEF disco
<1> QED
  BY <1>4, <1>5

\* liberarBloque.
LEMMA LiberaExacto ==
  ASSUME Exacto, UnWorker, Enlazado', NEW w \in Workers, aMedias' = aMedias, Libera(w)
  PROVE  Exacto'
<1> DEFINE h == hebra[w]
<1>1. EnObra(w) /\ Tipos /\ UNCHANGED <<dirs, meta, enlaces, contenido, indice>>
      /\ h.pc = "libera" /\ ocupado' = ocupado \ {h.b}
      /\ h.p.op \in {"TRUNCATE", "COMMIT", "WRITE", "DELETE"}
  BY Labores DEF Libera, En, EnObra, Exacto, Enlazado
<1>2. aMedias = {} => /\ ComiteadosBien /\ IndiceBien /\ CuentaBien(h) /\ LocalesBien(h)
                      /\ MismosDatos(h)
  BY <1>1, Contexto
<1>3. aMedias = {} => ComiteadosBien' /\ IndiceBien' /\ Usados' = Usados
  BY <1>1, <1>2, DiscoBien
<1>4. aMedias = {} => ocupado' = Usados /\ (h.p.op = "WRITE" => h.nuevo \notin ocupado')
  BY <1>1, <1>2 DEF CuentaBien, Copiado, Dejado, PorEnlazar
<1>5. CASE h.p.op = "COMMIT"
  <2>1. Sigue(w, TrasDejar(h))
    BY <1>5 DEF Libera
  <2> QED
    BY <1>1, <1>3, <1>4, <2>1, DejaExacto
<1>6. CASE h.p.op # "COMMIT"
  <2>1. Sigue(w, A("hashLiberado"))
    BY <1>6 DEF Libera
  <2>2. PICK k : /\ hebra'[w] = k /\ k.p = h.p /\ k.pc = "hashLiberado" /\ k.bloques = h.bloques
                 /\ k.i = h.i /\ k.b = h.b /\ k.nuevo = h.nuevo
    BY <1>1, <2>1, SoloEtiqueta
  <2>3. ASSUME aMedias = {} PROVE CuentaBien(k)' /\ LocalesBien(k)' /\ MismosDatos(k)'
    <3>1. CuentaBien(k)'
      BY <1>3, <1>4, <2>2, <2>3 DEF CuentaBien, Copiado, Dejado, PorEnlazar
    <3>2. LocalesBien(k)'
      BY <1>1, <1>2, <1>6, <2>2, <2>3 DEF LocalesBien, EnMano, Copiada, Comiteado
    <3> QED
      BY <1>6, <2>2, <3>1, <3>2 DEF MismosDatos
  <2>4. IsFiniteSet(enlaces)'
    BY <1>1 DEF Exacto
  <2> QED
    BY <1>3, <2>2, <2>3, <2>4, PasoExacto
<1> QED
  BY <1>5, <1>6

\* marcarBloqueOcupado: the copy is linked, and now reserved too.
LEMMA MarcaOcupadoExacto ==
  ASSUME Exacto, UnWorker, Enlazado', NEW w \in Workers, aMedias' = aMedias, MarcaOcupado(w)
  PROVE  Exacto'
<1> DEFINE h == hebra[w]
<1>1. EnObra(w) /\ Tipos /\ UNCHANGED <<dirs, meta, enlaces, contenido, indice>>
      /\ h.pc = "marca" /\ ocupado' = ocupado \cup {h.nuevo} /\ h.p.op = "WRITE" /\ Responde(w)
  BY Labores DEF MarcaOcupado, En, EnObra, Exacto, Enlazado
<1>2. hebra'[w].pc = "espera" /\ IsFiniteSet(enlaces)'
  BY <1>1, Hechos DEF Responde, Ociosa, Exacto
<1>3. ASSUME aMedias = {} PROVE ComiteadosBien' /\ IndiceBien' /\ ocupado' = Usados'
  <2>1. ComiteadosBien /\ IndiceBien /\ CuentaBien(h)
    BY <1>1, <1>3, Contexto
  <2> QED
    BY <1>1, <2>1, DiscoBien DEF CuentaBien, Copiado, Dejado
<1> QED
  BY <1>2, <1>3, FinExacto

\* Lee, and the search that finds no free block.
LEMMA RespondeExacto ==
  ASSUME Exacto, UnWorker, Enlazado', NEW w \in Workers, aMedias' = aMedias,
         Lee(w) \/ (BuscaLibre(w) /\ Responde(w))
  PROVE  Exacto'
<1> DEFINE h == hebra[w]
<1>1. EnObra(w) /\ Tipos /\ UNCHANGED disco /\ h.pc \in {"lee", "buscaLibre"} /\ Responde(w)
  BY DEF Lee, BuscaLibre, En, EnObra, Exacto, Enlazado
<1>2. hebra'[w].pc = "espera" /\ IsFiniteSet(enlaces)'
  BY <1>1, Hechos DEF Responde, Ociosa, Exacto, disco
<1>3. ASSUME aMedias = {} PROVE ComiteadosBien' /\ IndiceBien' /\ ocupado' = Usados'
  <2>1. ComiteadosBien /\ IndiceBien /\ CuentaBien(h)
    BY <1>1, <1>3, Contexto
  <2> QED
    BY <1>1, <2>1, DiscoBien DEF CuentaBien, Copiado, Dejado, disco
<1> QED
  BY <1>2, <1>3, FinExacto

-----------------------------------------------------------------------------
(* The hash index.                                                         *)

\* calcularHash.
LEMMA CalculaHashExacto ==
  ASSUME Exacto, UnWorker, Enlazado', NEW w \in Workers, aMedias' = aMedias, CalculaHash(w)
  PROVE  Exacto'
<1> DEFINE h == hebra[w]
<1>1. PICK paso \in {<<"hash", "buscaHash">>, <<"rehash", "guardaHash">>,
                     <<"hashLiberado", "quitaHash">>} :
        En(w, paso[1]) /\ Sigue(w, [pc |-> paso[2], hash |-> contenido[h.b]])
  BY DEF CalculaHash
<1>2. EnObra(w) /\ Tipos /\ UNCHANGED disco /\ h.pc = paso[1]
  BY <1>1 DEF CalculaHash, En, EnObra, Exacto, Enlazado
<1>3. PICK k : /\ hebra'[w] = k /\ k.p = h.p /\ k.pc = paso[2] /\ k.bloques = h.bloques
               /\ k.i = h.i /\ k.b = h.b /\ k.nuevo = h.nuevo /\ k.hash = contenido[h.b]
  BY <1>1, <1>2, Siguiente
<1>4. \/ h.pc = "hash" /\ k.pc = "buscaHash" /\ h.p.op = "COMMIT"
      \/ h.pc = "rehash" /\ k.pc = "guardaHash" /\ h.p.op = "COMMIT"
      \/ h.pc = "hashLiberado" /\ k.pc = "quitaHash" /\ h.p.op \in {"TRUNCATE", "WRITE", "DELETE"}
  BY <1>2, <1>3, Labores
<1>5. ASSUME aMedias = {}
      PROVE  /\ ComiteadosBien' /\ IndiceBien' /\ CuentaBien(k)'
             /\ LocalesBien(k)' /\ MismosDatos(k)'
  <2>1. ComiteadosBien /\ IndiceBien /\ CuentaBien(h) /\ LocalesBien(h) /\ MismosDatos(h)
    BY <1>2, <1>5, Contexto
  <2>2. ComiteadosBien' /\ IndiceBien' /\ Usados' = Usados
    BY <1>2, <2>1, DiscoBien DEF disco
  <2>3. CuentaBien(k)'
    BY <1>2, <1>3, <1>4, <2>1, <2>2 DEF CuentaBien, Copiado, Dejado, PorEnlazar, disco
  <2>4. LocalesBien(k)'
    BY <1>2, <1>3, <1>4, <2>1 DEF LocalesBien, EnMano, Copiada, Comiteado, disco
  <2>5. MismosDatos(k)'
    BY <1>2, <1>3, <2>1 DEF MismosDatos, disco
  <2> QED
    BY <2>2, <2>3, <2>4, <2>5
<1>6. IsFiniteSet(enlaces)'
  BY <1>2 DEF disco, Exacto
<1> QED
  BY <1>3, <1>5, <1>6, PasoExacto

\* buscarBloquePorHash.
LEMMA BuscaHashExacto ==
  ASSUME Exacto, UnWorker, Enlazado', NEW w \in Workers, aMedias' = aMedias, BuscaHash(w)
  PROVE  Exacto'
<1> DEFINE h == hebra[w]
           otro == indice[h.hash]
<1>1. EnObra(w) /\ Tipos /\ UNCHANGED disco /\ h.pc = "buscaHash" /\ h.p.op = "COMMIT"
  BY Labores DEF BuscaHash, En, EnObra, Exacto, Enlazado
<1>2. aMedias = {} => /\ ComiteadosBien /\ IndiceBien /\ CuentaBien(h) /\ LocalesBien(h)
                      /\ MismosDatos(h)
  BY <1>1, Contexto
<1>3. aMedias = {} => ComiteadosBien' /\ IndiceBien' /\ Usados' = Usados
  BY <1>1, <1>2, DiscoBien DEF disco
<1>4. CASE otro # -1 /\ otro = h.b
  <2>1. Sigue(w, TrasDejar(h))
    BY <1>4 DEF BuscaHash
  <2>2. aMedias = {} => ocupado' = Usados
    BY <1>1, <1>2 DEF CuentaBien, Copiado, Dejado, disco
  <2> QED
    BY <1>1, <1>3, <2>1, <2>2, DejaExacto DEF disco
<1>5. CASE ~(otro # -1 /\ otro = h.b)
  <2>1. PICK k : /\ hebra'[w] = k /\ k.p = h.p /\ k.bloques = h.bloques
                 /\ k.i = h.i /\ k.b = h.b /\ k.hash = h.hash
                 /\ \/ k.pc = "rehash"
                    \/ k.pc = "reasigna" /\ k.nuevo = otro /\ otro # h.b
    <3>1. CASE otro = -1
      <4>1. Sigue(w, A("rehash"))
        BY <3>1 DEF BuscaHash
      <4> QED
        BY <1>1, <4>1, SoloEtiqueta
    <3>2. CASE otro # -1
      <4>1. Sigue(w, [pc |-> "reasigna", nuevo |-> otro])
        BY <1>5, <3>2 DEF BuscaHash
      <4> QED
        BY <1>1, <1>5, <3>2, <4>1, Siguiente
    <3> QED
      BY <3>1, <3>2
  <2>2. ASSUME aMedias = {} PROVE CuentaBien(k)' /\ LocalesBien(k)' /\ MismosDatos(k)'
    <3>1. CuentaBien(k)'
      BY <1>1, <1>2, <1>3, <2>1, <2>2 DEF CuentaBien, Copiado, Dejado, PorEnlazar, disco
    <3>2. LocalesBien(k)'
      BY <1>1, <1>2, <2>1, <2>2 DEF LocalesBien, EnMano, Copiada, Comiteado, disco
    <3>3. MismosDatos(k)'
      BY <1>1, <1>2, <2>1, <2>2 DEF MismosDatos, disco
    <3> QED
      BY <3>1, <3>2, <3>3
  <2>3. IsFiniteSet(enlaces)'
    BY <1>1 DEF disco, Exacto
  <2> QED
    BY <1>3, <2>1, <2>2, <2>3, PasoExacto
<1> QED
  BY <1>4, <1>5

\* eliminarHashBloque, and guardarHashBloque: the block belongs to the
\* file:tag that is being committed.
LEMMA IndiceExacto ==
  ASSUME Exacto, UnWorker, Enlazado', NEW w \in Workers, aMedias' = aMedias,
         QuitaHash(w) \/ GuardaHash(w)
  PROVE  Exacto'
<1> DEFINE h == hebra[w]
<1>1. EnObra(w) /\ Tipos /\ UNCHANGED <<dirs, meta, enlaces, ocupado, contenido>>
      /\ h.pc \in {"quitaHash", "guardaHash"} /\ Sigue(w, TrasDejar(h))
      /\ (h.pc = "quitaHash" => /\ indice' = [indice EXCEPT ![h.hash] = -1]
                                /\ h.p.op \in {"TRUNCATE", "WRITE", "DELETE"})
      /\ (h.pc = "guardaHash" => /\ indice' = [indice EXCEPT ![h.hash] = h.b]
                                 /\ h.p.op = "COMMIT")
      /\ indice \in [Contenidos -> Bloques \cup {-1}]
  BY Labores DEF QuitaHash, GuardaHash, En, EnObra, Exacto, Enlazado, Tipos, TypeOK
<1>2. ASSUME aMedias = {}
      PROVE  /\ IndiceBien' /\ ocupado' = Usados
             /\ h.p.op = "WRITE" => h.nuevo \notin ocupado'
  <2>1. IndiceBien /\ CuentaBien(h) /\ LocalesBien(h)
    BY <1>1, <1>2, Contexto
  <2>2. ocupado' = Usados /\ (h.p.op = "WRITE" => h.nuevo \notin ocupado')
    BY <1>1, <2>1 DEF CuentaBien, Copiado, Dejado, PorEnlazar
  <2>3. \A ft : Comiteado(ft)' <=> Comiteado(ft)
    BY <1>1 DEF Comiteado
  <2>4. CASE h.pc = "quitaHash"
    <3>1. \A c \in Contenidos : indice'[c] # -1 => indice'[c] = indice[c]
      BY <1>1, <2>4
    <3> QED
      BY <1>1, <2>1, <2>2, <2>3, <3>1 DEF IndiceBien
  <2>5. CASE h.pc = "guardaHash"
    <3>1. /\ Enlace(h.p.ft, h.i, h.b) \in enlaces /\ Enlace(h.p.ft, h.i, h.b).b = h.b
          /\ Enlace(h.p.ft, h.i, h.b).ft = h.p.ft
      BY <1>1, <1>2, <2>5, EnlaceEnMano DEF Enlace
    <3>2. contenido[h.b] = h.hash /\ Comiteado(h.p.ft)
      BY <1>1, <2>1, <2>5 DEF LocalesBien
    <3>3. \A c \in Contenidos : indice'[c] = IF c = h.hash THEN h.b ELSE indice[c]
      BY <1>1, <2>5
    <3> HIDE DEF h
    <3>4. \E e \in enlaces : e.b = h.b /\ Comiteado(e.ft)
      BY <3>1, <3>2
    <3> QED
      BY <1>1, <2>1, <2>2, <2>3, <3>2, <3>3, <3>4 DEF IndiceBien
  <2> QED
    BY <1>1, <2>4, <2>5
<1> QED
  BY <1>1, <1>2, DejaExacto

-----------------------------------------------------------------------------
(* WRITE.                                                                  *)

\* The st_nlink of leerOEscribirBloque: a block with one link has no other
\* file:tag to tell.
LEMMA VeNLinkExacto ==
  ASSUME Exacto, UnWorker, Enlazado', NEW w \in Workers, aMedias' = aMedias, VeNLink(w)
  PROVE  Exacto'
<1> DEFINE h == hebra[w]
<1>1. EnObra(w) /\ Tipos /\ UNCHANGED disco /\ h.pc = "nlink" /\ h.p.op = "WRITE"
      /\ Sigue(w, A(IF NLink(h.b) = 2 THEN "escribeEnSitio" ELSE "buscaLibre"))
  BY Labores DEF VeNLink, En, EnObra, Exacto, Enlazado
<1>2. PICK k : /\ hebra'[w] = k /\ k.p = h.p /\ k.bloques = h.bloques /\ k.i = h.i /\ k.b = h.b
               /\ k.pc = IF NLink(h.b) = 2 THEN "escribeEnSitio" ELSE "buscaLibre"
  BY <1>1, SoloEtiqueta
<1>3. ASSUME aMedias = {}
      PROVE  /\ ComiteadosBien' /\ IndiceBien' /\ CuentaBien(k)'
             /\ LocalesBien(k)' /\ MismosDatos(k)'
  <2>1. ComiteadosBien /\ IndiceBien /\ CuentaBien(h) /\ LocalesBien(h) /\ MismosDatos(h)
    BY <1>1, <1>3, Contexto
  <2>2. ComiteadosBien' /\ IndiceBien' /\ Usados' = Usados
    BY <1>1, <2>1, DiscoBien DEF disco
  <2>3. CuentaBien(k)'
    BY <1>1, <1>2, <2>1, <2>2 DEF CuentaBien, Copiado, Dejado, PorEnlazar, disco
  <2>4. k.pc = "escribeEnSitio" => \A e \in enlaces' : e.b = k.b => e.ft = k.p.ft /\ e.i = k.i
    <3>1. Enlace(h.p.ft, h.i, h.b) \in enlaces /\ Enlace(h.p.ft, h.i, h.b).b = h.b
          /\ Enlace(h.p.ft, h.i, h.b).ft = h.p.ft /\ Enlace(h.p.ft, h.i, h.b).i = h.i
      BY <1>1, <1>3, EnlaceEnMano DEF Enlace
    <3>2. NLink(h.b) = 2 => \A e, f \in enlaces : e.b = h.b /\ f.b = h.b => e = f
      BY CuentaDeEnlaces DEF Exacto
    <3>3. enlaces' = enlaces
      BY <1>1 DEF disco
    <3> HIDE DEF h
    <3> QED
      BY <1>2, <3>1, <3>2, <3>3
  <2>5. LocalesBien(k)'
    BY <1>1, <1>2, <2>1, <2>4 DEF LocalesBien, EnMano, Copiada, Comiteado, disco
  <2>6. MismosDatos(k)'
    BY <1>1, <1>2 DEF MismosDatos
  <2> QED
    BY <2>2, <2>3, <2>5, <2>6
<1>4. IsFiniteSet(enlaces)'
  BY <1>1 DEF disco, Exacto
<1> QED
  BY <1>2, <1>3, <1>4, PasoExacto

\* The block written in place belongs to no committed file:tag.
LEMMA EscribeEnSitioExacto ==
  ASSUME Exacto, UnWorker, Enlazado', NEW w \in Workers, aMedias' = aMedias, EscribeEnSitio(w)
  PROVE  Exacto'
<1> DEFINE h == hebra[w]
<1>1. EnObra(w) /\ Tipos /\ UNCHANGED <<dirs, meta, enlaces, ocupado, indice>>
      /\ h.pc = "escribeEnSitio" /\ h.p.op = "WRITE" /\ Responde(w)
      /\ contenido' = [contenido EXCEPT ![h.b] = h.p.c] /\ contenido \in [Bloques -> Contenidos]
      /\ indice \in [Contenidos -> Bloques \cup {-1}]
  BY Labores DEF EscribeEnSitio, En, EnObra, Exacto, Enlazado, Tipos, TypeOK
<1>2. hebra'[w].pc = "espera" /\ IsFiniteSet(enlaces)'
  BY <1>1, Hechos DEF Responde, Ociosa, Exacto
<1>3. ASSUME aMedias = {} PROVE ComiteadosBien' /\ IndiceBien' /\ ocupado' = Usados'
  <2>1. ComiteadosBien /\ IndiceBien /\ CuentaBien(h) /\ LocalesBien(h)
    BY <1>1, <1>3, Contexto
  <2>2. ComiteadosBien' /\ Usados' = Usados /\ \A ft : Comiteado(ft)' <=> Comiteado(ft)
    <3>1. h.b # 0
      BY <1>1, <2>1 DEF ComiteadosBien, LocalesBien, Enlace, Destino
    <3> QED
      BY <1>1, <2>1, <3>1 DEF ComiteadosBien, Comiteado, Usados
  <2>3. ocupado' = Usados'
    BY <1>1, <2>1, <2>2 DEF CuentaBien, Copiado, Dejado
  <2>4. \A c \in Contenidos : indice[c] # -1 => indice[c] # h.b
    BY <1>1, <2>1 DEF IndiceBien, LocalesBien
  <2>5. IndiceBien'
    BY <1>1, <2>1, <2>2, <2>4 DEF IndiceBien
  <2> QED
    BY <2>2, <2>3, <2>5
<1> QED
  BY <1>2, <1>3, FinExacto

\* buscarBloqueLibre and the copy: a block that no file:tag uses.
LEMMA CopiaExacto ==
  ASSUME Exacto, UnWorker, Enlazado', NEW w \in Workers, aMedias' = aMedias,
         (BuscaLibre(w) /\ UNCHANGED mutex) \/ Escribe(w)
  PROVE  Exacto'
<1> DEFINE h == hebra[w]
<1>1. EnObra(w) /\ Tipos /\ UNCHANGED <<dirs, meta, enlaces, ocupado, indice>>
      /\ h.pc \in {"buscaLibre", "escribe"} /\ h.p.op = "WRITE"
      /\ contenido \in [Bloques -> Contenidos] /\ indice \in [Contenidos -> Bloques \cup {-1}]
      /\ \A v \in Workers : v # Nadie
  BY Labores, StorageAssumption DEF BuscaLibre, Escribe, En, EnObra, Exacto, Enlazado, Tipos,
     TypeOK, disco
<1>2. IsFiniteSet(enlaces)'
  BY <1>1 DEF Exacto
<1>3. aMedias = {} => ComiteadosBien /\ IndiceBien /\ CuentaBien(h) /\ LocalesBien(h)
  BY <1>1, Contexto
<1>4. CASE h.pc = "buscaLibre"
  <2>1. UNCHANGED contenido /\ ~Responde(w)
    <3>1. mutex[h.p.ft] = w /\ h.p.ft \in FileTags /\ mutex \in [FileTags -> Workers \cup {Nadie}]
      BY <1>1, <1>4, EnObraHechos, Hechos DEF EnObra, Tipos, TypeOK
    <3> QED
      BY <1>1, <1>4, <3>1 DEF BuscaLibre, Escribe, En, disco, Responde
  <2>2. PICK libre \in Bloques \ ocupado : Sigue(w, [pc |-> "escribe", nuevo |-> libre])
    BY <1>4, <2>1 DEF BuscaLibre, Escribe, En
  <2>3. PICK k : /\ hebra'[w] = k /\ k.p = h.p /\ k.bloques = h.bloques /\ k.i = h.i /\ k.b = h.b
                 /\ k.pc = "escribe" /\ k.nuevo = libre
    BY <1>1, <2>2, Siguiente
  <2>4. ASSUME aMedias = {}
        PROVE  /\ ComiteadosBien' /\ IndiceBien' /\ CuentaBien(k)'
               /\ LocalesBien(k)' /\ MismosDatos(k)'
    <3>1. ComiteadosBien' /\ IndiceBien' /\ Usados' = Usados
      BY <1>1, <1>3, <2>1, <2>4, DiscoBien
    <3>2. CuentaBien(k)'
      BY <1>1, <1>3, <1>4, <2>3, <2>4, <3>1 DEF CuentaBien, Copiado, Dejado, PorEnlazar
    <3>3. LocalesBien(k)'
      BY <1>1, <1>3, <1>4, <2>1, <2>3, <2>4 DEF LocalesBien, EnMano, Copiada, Comiteado
    <3> QED
      BY <1>1, <2>3, <3>1, <3>2, <3>3 DEF MismosDatos
  <2> QED
    BY <1>2, <2>3, <2>4, PasoExacto
<1>5. CASE h.pc = "escribe"
  <2>1. contenido' = [contenido EXCEPT ![h.nuevo] = h.p.c] /\ Sigue(w, A("desenlaza"))
    BY <1>5 DEF BuscaLibre, Escribe, En
  <2>2. PICK k : /\ hebra'[w] = k /\ k.p = h.p /\ k.bloques = h.bloques /\ k.i = h.i /\ k.b = h.b
                 /\ k.pc = "desenlaza" /\ k.nuevo = h.nuevo
    BY <1>1, <2>1, SoloEtiqueta
  <2>3. ASSUME aMedias = {}
        PROVE  /\ ComiteadosBien' /\ IndiceBien' /\ CuentaBien(k)'
               /\ LocalesBien(k)' /\ MismosDatos(k)'
    <3>1. Usados' = Usados /\ \A ft : Comiteado(ft)' <=> Comiteado(ft)
      BY <1>1 DEF Comiteado, Usados
    <3>2. h.nuevo \notin ocupado /\ ocupado = Usados
      BY <1>1, <1>3, <1>5, <2>3 DEF CuentaBien, Copiado, Dejado, PorEnlazar
    <3>7. ComiteadosBien'
      <4>1. h.nuevo # 0
        BY <1>3, <2>3, <3>2 DEF ComiteadosBien, Usados, Enlace
      <4> QED
        BY <1>1, <1>3, <2>1, <2>3, <3>1, <4>1 DEF ComiteadosBien
    <3>3. \A c \in Contenidos : indice[c] # -1 => indice[c] # h.nuevo
      BY <1>3, <2>3, <3>2 DEF IndiceBien, Usados
    <3>4. IndiceBien'
      BY <1>1, <1>3, <2>1, <2>3, <3>1, <3>3 DEF IndiceBien
    <3>5. CuentaBien(k)'
      BY <1>1, <1>3, <1>5, <2>2, <2>3, <3>1 DEF CuentaBien, Copiado, Dejado, PorEnlazar
    <3>6. LocalesBien(k)'
      <4>1. contenido'[h.nuevo] = h.p.c
        BY <1>1, <2>1, Hechos
      <4> QED
        BY <1>1, <1>3, <1>5, <2>2, <2>3, <3>1, <4>1 DEF LocalesBien, EnMano, Copiada
    <3> QED
      BY <1>1, <2>2, <3>1, <3>4, <3>5, <3>6, <3>7 DEF MismosDatos
  <2> QED
    BY <1>2, <2>2, <2>3, PasoExacto
<1> QED
  BY <1>1, <1>4, <1>5

-----------------------------------------------------------------------------
(* The invariant, and what follows from it.                                *)

\* No operation was under way, or it is left halfway.
LEMMA ReiniciaExacto ==
  ASSUME Exacto, UnWorker, Enlazado', Reinicia
  PROVE  Exacto'
<1>1. UNCHANGED disco /\ hebra' = [w \in Workers |-> Ociosa]
      /\ aMedias' = aMedias \cup {Destino(hebra[w].p) : w \in {v \in Workers : EnObra(v)}}
  BY DEF Reinicia, DiscoAlReiniciar
<1>2. \A w \in Workers : hebra'[w] = Ociosa /\ ~EnObra(w)'
  BY <1>1 DEF EnObra, Ociosa
<1>3. ASSUME aMedias' = {}, NEW w \in Workers PROVE CuentaBien(Ociosa)'
  <2>1. aMedias = {} /\ ~EnObra(w)
    BY <1>1, <1>3
  <2>2. CuentaBien(hebra[w])
    BY <2>1, Contexto
  <2> QED
    BY <1>1, <2>1, <2>2 DEF CuentaBien, Copiado, Dejado, PorEnlazar, EnObra, Ociosa, Usados, disco
<1>4. aMedias' = {} => ComiteadosBien' /\ IndiceBien'
  <2>1. aMedias' = {} => aMedias = {}
    BY <1>1
  <2> QED
    BY <1>1, <2>1, DiscoBien DEF Exacto, disco
<1> QED
  BY <1>1, <1>2, <1>3, <1>4 DEF Exacto, disco

\* A formatted disk: one link, one bit, one entry of the index.
LEMMA InitExacto == Init => Exacto
<1> SUFFICES ASSUME Init PROVE Exacto
  OBVIOUS
<1> USE DEF Init, InitDisco
<1>1. Enlazado
  BY InitEnlazado
<1>2. IsFiniteSet(enlaces)
  BY FS_Singleton
<1>3. /\ Comiteado(Base)
      /\ \A ft \in FileTags : Comiteado(ft) => ft = Base
  <2>1. Base \in FileTags
    BY StorageAssumption
  <2>2. Meta("COMMITED", <<0>>) \in Metadatos
    <3>1. 0 \in Bloques
      BY StorageAssumption DEF Bloques
    <3>2. <<0>> \in Seq(Bloques)
      BY <3>1
    <3>3. "COMMITED" \in Estados
      BY DEF Estados
    <3> QED
      BY <3>2, <3>3 DEF Meta, Metadatos
  <2>3. Meta("COMMITED", <<0>>) # SinMeta
    BY <2>2, StorageAssumption
  <2> QED
    BY <2>1, <2>3 DEF Comiteado, Meta
<1>4. ComiteadosBien
  <2>1. 0 \in Bloques
    BY StorageAssumption DEF Bloques
  <2> QED
    BY <1>3, <2>1 DEF ComiteadosBien
<1>5. IndiceBien
  <2>1. Enlace(Base, 0, 0).b = 0 /\ Enlace(Base, 0, 0).ft = Base
    BY DEF Enlace
  <2>2. 0 \in Bloques
    BY StorageAssumption DEF Bloques
  <2> QED
    BY <1>3, <2>1, <2>2 DEF IndiceBien
<1>6. \A w \in Workers : CuentaBien(hebra[w]) /\ ~EnObra(w)
  <2>1. Usados = {0}
    BY DEF Usados, Enlace
  <2> QED
    BY <2>1 DEF CuentaBien, Copiado, Dejado, PorEnlazar, Ociosa, EnObra
<1> QED
  BY <1>1, <1>2, <1>4, <1>5, <1>6 DEF Exacto

\* Every step keeps the invariant.
LEMMA NextExacto ==
  ASSUME UnWorker, ComiteadosQuedan, Exacto, [Next]_vars
  PROVE  Exacto'
<1>1. Enlazado' /\ IsFiniteSet(enlaces)'
  BY Solo, NextEnlazado, EnlacesFinitos DEF Exacto
<1>2. ASSUME NEW w \in Workers, Atiende(w), aMedias' = aMedias PROVE Exacto'
  <2>1. CASE Recibe(w) \/ Toma(w) \/ Rechaza(w) \/ Acepta(w)
    BY <1>1, <1>2, <2>1, AtiendeExacto, AceptaExacto
  <2>2. CASE AbortaAlLeer(w) \/ AbortaAlGuardar(w)
    <3>1. UNCHANGED <<disco, hebra, aMedias>>
      BY <1>2, <2>2 DEF AbortaAlLeer, AbortaAlGuardar
    <3> QED
      BY <1>1, <3>1, AbortaExacto
  <2> QED
    BY <1>2, <2>1, <2>2 DEF Atiende
<1>3. ASSUME NEW w \in Workers, Operacion(w), aMedias' = aMedias PROVE Exacto'
  <2>1. BuscaLibre(w) => Responde(w) \/ UNCHANGED mutex
    BY DEF BuscaLibre
  <2>2. CASE \/ MkdirFile(w) \/ MkdirTag(w) \/ CrearMeta(w) \/ GuardaMeta(w) \/ CopiaMeta(w)
             \/ GuardaBloques(w) \/ Commitea(w) \/ Relee(w) \/ Borra(w)
    BY <1>1, <1>3, <2>2, MkdirExacto, CrearMetaExacto, GuardaMetaExacto, CopiaMetaExacto,
       GuardaBloquesExacto, CommiteaExacto, ReleeExacto, BorraExacto
  <2>3. CASE Enlaza(w) \/ Desenlaza(w) \/ Reasigna(w) \/ EnlazaDuplicado(w)
    BY <1>1, <1>3, <2>3, EnlazaExacto, DesenlazaExacto, EnlazaDuplicadoExacto
  <2>4. CASE \/ Stat(w) \/ Libera(w) \/ CalculaHash(w) \/ QuitaHash(w) \/ BuscaHash(w)
             \/ GuardaHash(w) \/ MarcaOcupado(w)
    BY <1>1, <1>3, <2>4, StatExacto, LiberaExacto, CalculaHashExacto, IndiceExacto,
       BuscaHashExacto, MarcaOcupadoExacto
  <2>5. CASE \/ VeNLink(w) \/ EscribeEnSitio(w) \/ Escribe(w) \/ Lee(w)
             \/ (BuscaLibre(w) /\ UNCHANGED mutex) \/ (BuscaLibre(w) /\ Responde(w))
    BY <1>1, <1>3, <2>5, VeNLinkExacto, EscribeEnSitioExacto, CopiaExacto, RespondeExacto
  <2> QED
    BY <1>3, <2>1, <2>2, <2>3, <2>4, <2>5 DEF Operacion
<1>4. CASE Reinicia
  BY <1>1, <1>4, ReiniciaExacto
<1>5. CASE UNCHANGED vars
  <2>1. UNCHANGED <<disco, hebra, aMedias>>
    BY <1>5 DEF vars
  <2> QED
    BY <1>1, <2>1, AbortaExacto
<1> QED
  BY <1>2, <1>3, <1>4, <1>5 DEF Next

\* Exacto is the inductive invariant of the blocks: besides what holds at
\* rest, it says at each label which block is linked and not marked, marked
\* and not linked, or about to be named by the index.
THEOREM ExactoSiempre == ASSUME UnWorker, ComiteadosQuedan PROVE Spec => []Exacto
<1>1. Init => Exacto
  BY InitExacto
<1>2. Exacto /\ [Next]_vars => Exacto'
  BY NextExacto
<1> QED
  BY <1>1, <1>2, PTL DEF Spec

\* The bitmap says which blocks some file:tag uses: none is lost and none is
\* offered while it is linked, whatever was shared, copied, deduplicated or
\* freed, and after any restart that cut no operation short.
THEOREM BitmapExactoSiempre ==
  ASSUME UnWorker, ComiteadosQuedan PROVE Spec => []BitmapExacto
<1>1. Exacto => BitmapExacto
  <2> SUFFICES ASSUME Exacto, Quieto, aMedias = {} PROVE ocupado = Usados
    BY DEF BitmapExacto, Usados
  <2>1. PICK w \in Workers : TRUE
    BY DEF UnWorker
  <2>2. CuentaBien(hebra[w]) /\ ~EnObra(w)
    BY Contexto DEF Quieto
  <2> QED
    BY <2>2 DEF CuentaBien, Copiado, Dejado, EnObra
<1> QED
  BY <1>1, ExactoSiempre, PTL

\* While no operation was cut short, the index tells the truth: a block it
\* names is not rewritten, because a committed file:tag still uses it.
THEOREM IndiceVerazSiempre ==
  ASSUME UnWorker, ComiteadosQuedan PROVE Spec => [](aMedias = {} => IndiceVeraz)
<1>1. Exacto => (aMedias = {} => IndiceVeraz)
  BY DEF Exacto, IndiceBien, IndiceVeraz
<1> QED
  BY <1>1, ExactoSiempre, PTL

-----------------------------------------------------------------------------
(* The implementation of ArbolDeArchivos.                                  *)

\* The refinement mapping of ImplementaElArbol.
Arbolado == [ft \in FileTags |-> Vista(ft)]

-----------------------------------------------------------------------------
(* What a reader gets, with one Worker.                                    *)

Datos(s) == [j \in DOMAIN s |-> contenido[s[j]]]

Oculto(w, ft) ==
  \/ Trabaja(w, ft, {"DELETE"})
  \/ Trabaja(w, ft, {"TAG"}) /\ hebra[w].pc \in {"enlaza", "copiaMeta", "guardaBloques"}

Lista(w, ft) == IF Trabaja(w, ft, {"TRUNCATE"}) THEN hebra[w].bloques ELSE meta[ft].bloques

VistaCon(w, ft) ==
  IF meta[ft] = SinMeta \/ meta[ft].estado = "NINGUNO" \/ Oculto(w, ft) THEN SinMeta
  ELSE Arbol!FileTag(meta[ft].estado, Datos(Lista(w, ft)))

\* The one Worker is the one every file:tag is hidden or listed by.
LEMMA VistaDeUno ==
  ASSUME UnWorker, NEW w \in Workers, NEW ft
  PROVE  Vista(ft) = VistaCon(w, ft) /\ Vista(ft)' = VistaCon(w, ft)'
<1>1. Workers = {w}
  BY DEF UnWorker
<1>2. ListaDe(ft) = Lista(w, ft) /\ ListaDe(ft)' = Lista(w, ft)'
  BY <1>1 DEF ListaDe, Lista
<1>3. SeBorra(ft) \/ SeEtiqueta(ft) <=> Oculto(w, ft)
  BY <1>1 DEF SeBorra, SeEtiqueta, Oculto
<1>4. (SeBorra(ft) \/ SeEtiqueta(ft))' <=> Oculto(w, ft)'
  BY <1>1 DEF SeBorra, SeEtiqueta, Oculto
<1> QED
  BY <1>2, <1>3, <1>4 DEF Vista, VistaCon, Datos, Arbol!FileTag

\* The contents of a list of blocks, and of the lists made out of it.
LEMMA DatosDe ==
  ASSUME Tipos, NEW s \in Seq(Bloques)
  PROVE  /\ Datos(s) \in Seq(Contenidos) /\ Len(Datos(s)) = Len(s)
         /\ \A j \in 1 .. Len(s) : Datos(s)[j] = contenido[s[j]]
<1>1. s \in [1 .. Len(s) -> Bloques] /\ Len(s) \in Nat /\ contenido \in [Bloques -> Contenidos]
  BY ElementOfSeq, LenProperties DEF Tipos, TypeOK
<1>2. Datos(s) \in [1 .. Len(s) -> Contenidos] /\ \A j \in 1 .. Len(s) : Datos(s)[j] = contenido[s[j]]
  BY <1>1 DEF Datos
<1>3. Datos(s) \in Seq(Contenidos)
  BY <1>1, <1>2
<1>4. DOMAIN Datos(s) = 1 .. Len(s)
  BY <1>2
<1>5. Len(Datos(s)) = Len(s)
  BY <1>1, <1>3, <1>4, LenProperties
<1> QED
  BY <1>2, <1>3, <1>5

\* TRUNCATE adds a block.
LEMMA DatosAgrega ==
  ASSUME Tipos, NEW s \in Seq(Bloques), NEW b \in Bloques
  PROVE  Datos(Append(s, b)) = Append(Datos(s), contenido[b])
<1>1. Append(s, b) \in Seq(Bloques) /\ Len(Append(s, b)) = Len(s) + 1 /\ Len(s) \in Nat
      /\ (\A j \in 1 .. Len(s) : Append(s, b)[j] = s[j]) /\ Append(s, b)[Len(s) + 1] = b
  BY AppendProperties, LenProperties
<1>2. contenido[b] \in Contenidos
  BY DEF Tipos, TypeOK
<1> DEFINE t == Datos(Append(s, b))
           u == Append(Datos(s), contenido[b])
<1>3. t \in Seq(Contenidos) /\ Len(t) = Len(s) + 1
      /\ \A j \in 1 .. Len(s) + 1 : t[j] = contenido[Append(s, b)[j]]
  BY <1>1, DatosDe
<1>4. Datos(s) \in Seq(Contenidos) /\ Len(Datos(s)) = Len(s)
      /\ \A j \in 1 .. Len(s) : Datos(s)[j] = contenido[s[j]]
  BY DatosDe
<1>5. u \in Seq(Contenidos) /\ Len(u) = Len(s) + 1 /\ u[Len(s) + 1] = contenido[b]
      /\ \A j \in 1 .. Len(s) : u[j] = contenido[s[j]]
  BY <1>2, <1>4, AppendProperties
<1> HIDE DEF t, u
<1>6. \A j \in 1 .. Len(t) : t[j] = u[j]
  BY <1>1, <1>3, <1>5
<1> QED
  BY <1>3, <1>5, <1>6, SeqEqual DEF t, u

\* TRUNCATE takes the last one off.
LEMMA DatosRecorta ==
  ASSUME Tipos, NEW s \in Seq(Bloques), Len(s) > 0
  PROVE  Datos(Front(s)) = SubSeq(Datos(s), 1, Len(Datos(s)) - 1) /\ Datos(s) # <<>>
<1>1. Front(s) \in Seq(Bloques) /\ Len(Front(s)) = Len(s) - 1 /\ Len(s) \in Nat
      /\ \A j \in 1 .. Len(s) - 1 : Front(s)[j] = s[j]
  BY FrenteUltimo, LenProperties
<1> DEFINE t == Datos(Front(s))
           u == SubSeq(Datos(s), 1, Len(s) - 1)
<1>2. t \in Seq(Contenidos) /\ Len(t) = Len(s) - 1
      /\ \A j \in 1 .. Len(s) - 1 : t[j] = contenido[Front(s)[j]]
  BY <1>1, DatosDe
<1>3. Datos(s) \in Seq(Contenidos) /\ Len(Datos(s)) = Len(s)
      /\ \A j \in 1 .. Len(s) : Datos(s)[j] = contenido[s[j]]
  BY DatosDe
<1>4. u \in Seq(Contenidos) /\ Len(u) = Len(s) - 1
      /\ \A j \in 1 .. Len(s) - 1 : u[j] = contenido[s[j]]
  BY <1>1, <1>3, SubSeqProperties
<1>5. Datos(s) # <<>>
  BY <1>3
<1> HIDE DEF t, u
<1>6. \A j \in 1 .. Len(t) : t[j] = u[j]
  BY <1>1, <1>2, <1>4
<1> QED
  BY <1>2, <1>3, <1>4, <1>5, <1>6, SeqEqual DEF t, u

\* WRITE changes one place of the list for a block with other contents.
LEMMA DatosCambia ==
  ASSUME Tipos, NEW s \in Seq(Bloques), NEW i \in 1 .. Len(s), NEW b \in Bloques
  PROVE  Datos([s EXCEPT ![i] = b]) = [Datos(s) EXCEPT ![i] = contenido[b]]
<1> DEFINE r == [s EXCEPT ![i] = b]
           t == Datos(r)
           u == [Datos(s) EXCEPT ![i] = contenido[b]]
<1>1. r \in Seq(Bloques) /\ Len(r) = Len(s) /\ contenido[b] \in Contenidos
      /\ \A j \in 1 .. Len(s) : r[j] = IF j = i THEN b ELSE s[j]
  BY ExceptSeq DEF Tipos, TypeOK
<1> HIDE DEF r
<1>2. t \in Seq(Contenidos) /\ Len(t) = Len(s) /\ \A j \in 1 .. Len(s) : t[j] = contenido[r[j]]
  BY <1>1, DatosDe
<1>3. Datos(s) \in Seq(Contenidos) /\ Len(Datos(s)) = Len(s)
      /\ \A j \in 1 .. Len(s) : Datos(s)[j] = contenido[s[j]]
  BY DatosDe
<1>4. u \in Seq(Contenidos) /\ Len(u) = Len(s)
      /\ \A j \in 1 .. Len(s) : u[j] = IF j = i THEN contenido[b] ELSE contenido[s[j]]
  BY <1>1, <1>3, ExceptSeq
<1> HIDE DEF t, u
<1>5. \A j \in 1 .. Len(t) : t[j] = u[j]
  BY <1>1, <1>2, <1>4
<1> QED
  BY <1>2, <1>4, <1>5, SeqEqual DEF t, u, r

\* A file:tag that is there is never taken for one that is not.
LEMMA VistaPresente ==
  ASSUME NEW e \in Estados, NEW s \in Seq(Contenidos)
  PROVE  /\ Arbol!FileTag(e, s) # SinMeta
         /\ Arbol!FileTag(e, s).estado = e /\ Arbol!FileTag(e, s).datos = s
<1>1. Arbol!FileTag(e, s) \in Vistas
  BY DEF Arbol!FileTag, Vistas
<1> QED
  BY <1>1, StorageAssumption DEF Arbol!FileTag

-----------------------------------------------------------------------------
(* A step of the Storage as a step of the tree.                            *)

\* What a step may do to the file:tag d of the tree.
PasoDe(d, antes, despues) ==
  \/ despues = antes
  \/ antes = SinMeta /\ despues = Arbol!FileTag("WORK_IN_PROGRESS", <<>>)
  \/ \E ft \in FileTags :
       /\ antes = SinMeta /\ Vista(ft) # SinMeta
       /\ despues = Arbol!FileTag("WORK_IN_PROGRESS", Vista(ft).datos)
  \/ antes # SinMeta /\ despues = SinMeta
  \/ \E s \in Seq(Contenidos) :
       /\ antes = Arbol!FileTag("WORK_IN_PROGRESS", s)
       /\ \/ despues = Arbol!FileTag("WORK_IN_PROGRESS", Append(s, Cero))
          \/ s # <<>> /\ despues = Arbol!FileTag("WORK_IN_PROGRESS", SubSeq(s, 1, Len(s) - 1))
          \/ \E i \in DOMAIN s, c \in Contenidos :
               despues = Arbol!FileTag("WORK_IN_PROGRESS", [s EXCEPT ![i] = c])
          \/ despues = Arbol!FileTag("COMMITED", s)

\* A change of d that the tree allows, and of nothing else, is a step of it.
LEMMA PasoDelArbol ==
  ASSUME NEW d \in FileTags, NEW antes, NEW despues, Vista(d) = antes, Vista(d)' = despues,
         PasoDe(d, antes, despues), \A ft \in FileTags : ft # d => Vista(ft)' = Vista(ft)
  PROVE  [Arbol!Next]_Arbolado
<1>1. Arbolado' = [Arbolado EXCEPT ![d] = despues]
  BY DEF Arbolado
<1>2. Arbolado[d] = antes /\ \A ft \in FileTags : Arbolado[ft] = Vista(ft)
  BY DEF Arbolado
<1>3. CASE despues = antes
  <2>1. Arbolado' = Arbolado
    BY <1>1, <1>2, <1>3 DEF Arbolado
  <2> QED
    BY <2>1
<1>4. CASE antes = SinMeta /\ despues = Arbol!FileTag("WORK_IN_PROGRESS", <<>>)
  <2>1. Arbol!Crea(d)
    BY <1>1, <1>2, <1>4 DEF Arbol!Crea, Arbolado
  <2> QED
    BY <2>1 DEF Arbol!Next
<1>5. ASSUME NEW ft \in FileTags, antes = SinMeta, Vista(ft) # SinMeta,
             despues = Arbol!FileTag("WORK_IN_PROGRESS", Vista(ft).datos)
      PROVE  Arbol!Next
  <2>1. Arbol!Etiqueta(ft, d)
    BY <1>1, <1>2, <1>5 DEF Arbol!Etiqueta, Arbolado
  <2> QED
    BY <2>1 DEF Arbol!Next
<1>6. CASE antes # SinMeta /\ despues = SinMeta
  <2>1. Arbol!Borra(d)
    BY <1>1, <1>2, <1>6 DEF Arbol!Borra, Arbolado
  <2> QED
    BY <2>1 DEF Arbol!Next
<1>7. ASSUME NEW s \in Seq(Contenidos), antes = Arbol!FileTag("WORK_IN_PROGRESS", s),
             \/ despues = Arbol!FileTag("WORK_IN_PROGRESS", Append(s, Cero))
             \/ s # <<>> /\ despues = Arbol!FileTag("WORK_IN_PROGRESS", SubSeq(s, 1, Len(s) - 1))
             \/ \E i \in DOMAIN s, c \in Contenidos :
                  despues = Arbol!FileTag("WORK_IN_PROGRESS", [s EXCEPT ![i] = c])
             \/ despues = Arbol!FileTag("COMMITED", s)
      PROVE  Arbol!Next
  <2>1. antes # SinMeta /\ antes.estado = "WORK_IN_PROGRESS" /\ antes.datos = s
    BY <1>7, VistaPresente DEF Estados
  <2>2. Arbol!Editable(d)
    BY <1>2, <2>1 DEF Arbol!Editable, Arbolado
  <2>3. \A t : [antes EXCEPT !.datos = t] = Arbol!FileTag("WORK_IN_PROGRESS", t)
    BY <1>7 DEF Arbol!FileTag
  <2>4. CASE despues = Arbol!FileTag("WORK_IN_PROGRESS", Append(s, Cero))
    <3>1. despues = [antes EXCEPT !.datos = Append(@, Cero)]
      BY <2>1, <2>3, <2>4
    <3>2. Arbolado' = [Arbolado EXCEPT ![d].datos = Append(@, Cero)]
      BY <1>1, <1>2, <3>1
    <3>3. Arbol!Agrega(d)
      BY <2>2, <3>2 DEF Arbol!Agrega, Arbolado
    <3> QED
      BY <3>3 DEF Arbol!Next
  <2>5. CASE s # <<>> /\ despues = Arbol!FileTag("WORK_IN_PROGRESS", SubSeq(s, 1, Len(s) - 1))
    <3>1. despues = [antes EXCEPT !.datos = SubSeq(@, 1, Len(@) - 1)]
      BY <2>1, <2>3, <2>5
    <3>2. Arbolado' = [Arbolado EXCEPT ![d].datos = SubSeq(@, 1, Len(@) - 1)]
      BY <1>1, <1>2, <3>1
    <3>3. Arbol!Recorta(d)
      BY <1>2, <2>1, <2>2, <2>5, <3>2 DEF Arbol!Recorta, Arbolado
    <3> QED
      BY <3>3 DEF Arbol!Next
  <2>6. ASSUME NEW i \in DOMAIN s, NEW c \in Contenidos,
               despues = Arbol!FileTag("WORK_IN_PROGRESS", [s EXCEPT ![i] = c])
        PROVE  Arbol!Next
    <3>1. despues = [antes EXCEPT !.datos[i] = c]
      BY <2>1, <2>3, <2>6
    <3>2. Arbolado' = [Arbolado EXCEPT ![d].datos[i] = c]
      BY <1>1, <1>2, <3>1
    <3>3. i \in DOMAIN Arbolado[d].datos
      BY <1>2, <2>1
    <3>4. \E j \in DOMAIN Arbolado[d].datos, e \in Contenidos :
            Arbolado' = [Arbolado EXCEPT ![d].datos[j] = e]
      BY <3>2, <3>3
    <3>5. Arbol!Escribe(d)
      BY <2>2, <3>4 DEF Arbol!Escribe, Arbolado
    <3> QED
      BY <3>5 DEF Arbol!Next
  <2>7. CASE despues = Arbol!FileTag("COMMITED", s)
    <3>1. despues = [antes EXCEPT !.estado = "COMMITED"]
      BY <1>7, <2>7 DEF Arbol!FileTag
    <3>2. Arbolado' = [Arbolado EXCEPT ![d].estado = "COMMITED"]
      BY <1>1, <1>2, <3>1
    <3>3. Arbol!Commitea(d)
      BY <2>2, <3>2 DEF Arbol!Commitea, Arbolado
    <3> QED
      BY <3>3 DEF Arbol!Next
  <2> QED
    BY <1>7, <2>4, <2>5, <2>6, <2>7
<1> QED
  BY <1>3, <1>4, <1>5, <1>6, <1>7 DEF PasoDe

-----------------------------------------------------------------------------
(* What a step leaves alone.                                               *)

\* Who reads a file:tag that no operation hides gets what its list holds.
LEMMA VistaSigue ==
  ASSUME UnWorker, NEW w \in Workers, NEW ft, meta'[ft] = meta[ft],
         Oculto(w, ft)' <=> Oculto(w, ft),
         meta[ft] # SinMeta => Datos(Lista(w, ft))' = Datos(Lista(w, ft))
  PROVE  Vista(ft)' = Vista(ft)
<1>1. Vista(ft) = VistaCon(w, ft) /\ Vista(ft)' = VistaCon(w, ft)'
  BY VistaDeUno
<1>2. VistaCon(w, ft)' = VistaCon(w, ft)
  BY DEF VistaCon, Arbol!FileTag
<1> QED
  BY <1>1, <1>2

\* The blocks of a file:tag nobody works on are linked to it.
LEMMA AjenaEnlazada ==
  ASSUME Exacto, UnWorker, aMedias = {}, NEW w \in Workers, NEW ft \in FileTags,
         EnObra(w) => Destino(hebra[w].p) # ft, meta[ft] # SinMeta
  PROVE  LET s == meta[ft].bloques IN
         /\ s \in Seq(Bloques) /\ Len(s) \in Nat /\ DOMAIN s = 1 .. Len(s)
         /\ \A j \in 1 .. Len(s) : s[j] \in Bloques /\ Enlace(ft, j - 1, s[j]) \in enlaces
<1> DEFINE s == meta[ft].bloques
<1>1. Reposa(ft)
  BY Solo DEF Reposa
<1>2. Enlazados(ft, s, Nat)
  BY <1>1 DEF Exacto, Enlazado, EnReposo
<1>3. s \in Seq(Bloques)
  BY DEF Exacto, Enlazado, Tipos, TypeOK, Metadatos
<1>4. Len(s) \in Nat /\ DOMAIN s = 1 .. Len(s) /\ \A j \in 1 .. Len(s) : s[j] \in Bloques
  BY <1>3, LenProperties, ElementOfSeq
<1>5. ASSUME NEW j \in 1 .. Len(s) PROVE Enlace(ft, j - 1, s[j]) \in enlaces
  <2>1. j - 1 \in 0 .. Len(s) - 1 /\ j - 1 \in Nat /\ (j - 1) + 1 = j
    BY <1>4
  <2> QED
    BY <1>2, <2>1 DEF Enlazados
<1> QED
  BY <1>3, <1>4, <1>5

\* Work on d shows in no other file:tag: where it writes, only d is linked.
LEMMA AjenasIguales ==
  ASSUME Exacto, UnWorker, aMedias = {}, NEW w \in Workers, NEW d,
         EnObra(w) => Destino(hebra[w].p) = d, EnObra(w)' => Destino(hebra'[w].p) = d,
         \A ft \in FileTags : ft # d => meta'[ft] = meta[ft],
         \A b \in Bloques : contenido'[b] = contenido[b] \/ \A e \in enlaces : e.b = b => e.ft = d
  PROVE  \A ft \in FileTags : ft # d => Vista(ft)' = Vista(ft)
<1> SUFFICES ASSUME NEW ft \in FileTags, ft # d PROVE Vista(ft)' = Vista(ft)
  OBVIOUS
<1>1. ~Trabaja(w, ft, {"DELETE"}) /\ ~Trabaja(w, ft, {"TAG"}) /\ ~Trabaja(w, ft, {"TRUNCATE"})
  BY DEF Trabaja
<1>2. /\ ~Trabaja(w, ft, {"DELETE"})' /\ ~Trabaja(w, ft, {"TAG"})'
      /\ ~Trabaja(w, ft, {"TRUNCATE"})'
  BY DEF Trabaja
<1>3. meta'[ft] = meta[ft] /\ ~Oculto(w, ft) /\ ~Oculto(w, ft)'
      /\ Lista(w, ft) = meta[ft].bloques /\ Lista(w, ft)' = meta[ft].bloques
  BY <1>1, <1>2 DEF Oculto, Lista
<1>4. ASSUME meta[ft] # SinMeta PROVE Datos(Lista(w, ft))' = Datos(Lista(w, ft))
  <2> DEFINE s == meta[ft].bloques
  <2>1. DOMAIN s = 1 .. Len(s)
        /\ \A j \in 1 .. Len(s) : s[j] \in Bloques /\ Enlace(ft, j - 1, s[j]) \in enlaces
    BY <1>4, AjenaEnlazada
  <2>2. \A j \in 1 .. Len(s) : contenido'[s[j]] = contenido[s[j]]
    BY <2>1 DEF Enlace
  <2> QED
    BY <1>3, <2>1, <2>2 DEF Datos
<1> QED
  BY <1>3, <1>4, VistaSigue

\* A step without effect on metadata or contents, by a Worker that goes on
\* with the same list or does not touch it.
LEMMA PasoQuieto ==
  ASSUME UnWorker, NEW w \in Workers, UNCHANGED <<meta, contenido>>,
         \A ft : Oculto(w, ft)' <=> Oculto(w, ft),
         \A ft : Lista(w, ft)' = Lista(w, ft)
  PROVE  [Arbol!Next]_Arbolado
<1>1. \A s : Datos(s)' = Datos(s)
  BY DEF Datos
<1>2. ASSUME NEW ft PROVE Datos(Lista(w, ft))' = Datos(Lista(w, ft))
  <2>1. PICK s : s = Lista(w, ft) /\ s = Lista(w, ft)'
    OBVIOUS
  <2> QED
    BY <1>1, <2>1 DEF Datos
<1>3. \A ft : Vista(ft)' = Vista(ft)
  BY <1>2, VistaSigue
<1> QED
  BY <1>3 DEF Arbolado

\* The same, for an operation that goes on and whose labels tell the reader
\* nothing new.
LEMMA PasoEnObra ==
  ASSUME UnWorker, NEW w \in Workers, EnObra(w), EnObra(w)', UNCHANGED <<meta, contenido>>,
         hebra'[w].p = hebra[w].p,
         hebra[w].p.op = "TRUNCATE" => hebra'[w].bloques = hebra[w].bloques,
         hebra[w].p.op = "TAG" =>
           (hebra'[w].pc \in {"enlaza", "copiaMeta", "guardaBloques"}
              <=> hebra[w].pc \in {"enlaza", "copiaMeta", "guardaBloques"})
  PROVE  [Arbol!Next]_Arbolado
<1>1. \A ft, ops : Trabaja(w, ft, ops)' <=> Trabaja(w, ft, ops)
  BY DEF Trabaja
<1>2. \A ft : Oculto(w, ft)' <=> Oculto(w, ft)
  BY <1>1 DEF Oculto, Trabaja
<1>3. \A ft : Lista(w, ft)' = Lista(w, ft)
  BY <1>1 DEF Lista, Trabaja
<1> QED
  BY <1>2, <1>3, PasoQuieto

\* The same, for a Worker that begins or ends without an operation that hides
\* or lists its file:tag.
LEMMA PasoFuera ==
  ASSUME UnWorker, NEW w \in Workers, UNCHANGED <<meta, contenido>>,
         EnObra(w) => hebra[w].p.op \notin {"TRUNCATE", "TAG", "DELETE"},
         EnObra(w)' => hebra'[w].p.op \notin {"TRUNCATE", "TAG", "DELETE"}
  PROVE  [Arbol!Next]_Arbolado
<1>1. \A ft, ops : ops \subseteq {"TRUNCATE", "TAG", "DELETE"} =>
        ~Trabaja(w, ft, ops) /\ ~Trabaja(w, ft, ops)'
  BY DEF Trabaja
<1>2. \A ft : ~Oculto(w, ft) /\ ~Oculto(w, ft)' /\ Lista(w, ft)' = Lista(w, ft)
  BY <1>1 DEF Oculto, Lista
<1> QED
  BY <1>2, PasoQuieto

\* A step of TRUNCATE, seen as one of the tree: the list grows by block 0,
\* loses its last block, or stays.
LEMMA PasoTruncate ==
  ASSUME Exacto, UnWorker, aMedias = {}, NEW w \in Workers, NEW k, hebra'[w] = k,
         NEW d \in FileTags, EnObra(w) => Destino(hebra[w].p) = d,
         k.p.op = "TRUNCATE", k.p.ft = d, EnObra(w)', UNCHANGED <<meta, contenido>>,
         meta[d] # SinMeta, meta[d].estado = "WORK_IN_PROGRESS", NEW s \in Seq(Bloques),
         Vista(d) = Arbol!FileTag("WORK_IN_PROGRESS", Datos(s)),
         k.bloques \in {s, Append(s, 0)} \/ (Len(s) > 0 /\ k.bloques = Front(s))
  PROVE  [Arbol!Next]_Arbolado
<1>1. Tipos /\ contenido[0] = Cero /\ 0 \in Bloques
  BY StorageAssumption DEF Exacto, Enlazado, ComiteadosBien, Bloques
<1>2. Destino(k.p) = d
  BY DEF Destino
<1>3. \A ft \in FileTags : ft # d => Vista(ft)' = Vista(ft)
  BY <1>2, AjenasIguales
<1>4. Vista(d)' = Arbol!FileTag("WORK_IN_PROGRESS", Datos(k.bloques))
  <2>1. Trabaja(w, d, {"TRUNCATE"})' /\ ~Trabaja(w, d, {"TAG"})' /\ ~Trabaja(w, d, {"DELETE"})'
    BY <1>2 DEF Trabaja
  <2>2. Lista(w, d)' = k.bloques /\ ~Oculto(w, d)'
    BY <2>1 DEF Lista, Oculto
  <2>3. Datos(Lista(w, d))' = Datos(k.bloques)
    BY <2>2 DEF Datos
  <2> QED
    BY <2>2, <2>3, VistaDeUno DEF VistaCon, Arbol!FileTag
<1>5. Datos(s) \in Seq(Contenidos)
  BY <1>1, DatosDe
<1>6. PasoDe(d, Vista(d), Arbol!FileTag("WORK_IN_PROGRESS", Datos(k.bloques)))
  <2>1. CASE k.bloques = s
    BY <2>1 DEF PasoDe
  <2>2. CASE k.bloques = Append(s, 0)
    <3>1. Datos(k.bloques) = Append(Datos(s), Cero)
      BY <1>1, <2>2, DatosAgrega
    <3> QED
      BY <1>5, <3>1 DEF PasoDe
  <2>3. CASE Len(s) > 0 /\ k.bloques = Front(s)
    <3>1. Datos(k.bloques) = SubSeq(Datos(s), 1, Len(Datos(s)) - 1) /\ Datos(s) # <<>>
      BY <1>1, <2>3, DatosRecorta
    <3> QED
      BY <1>5, <3>1 DEF PasoDe
  <2> QED
    BY <2>1, <2>2, <2>3
<1> QED
  BY <1>3, <1>4, <1>6, PasoDelArbol

-----------------------------------------------------------------------------
(* What a reader gets of the file:tag at hand, before and after a step.    *)

\* The operation hides the file:tag it builds.
Oculta(h) ==
  h.p.op = "DELETE" \/ (h.p.op = "TAG" /\ h.pc \in {"enlaza", "copiaMeta", "guardaBloques"})

\* Its blocks, for an operation with the locals h over the metadata m.
Leidos(h, m) == IF h.p.op = "TRUNCATE" THEN h.bloques ELSE m.bloques

\* While an operation builds it.
LEMMA VistaPropia ==
  ASSUME UnWorker, NEW w \in Workers, NEW h, NEW m, NEW d, EnObra(w), hebra[w] = h,
         d = Destino(h.p), meta[d] = m
  PROVE  Vista(d) = IF m = SinMeta \/ m.estado = "NINGUNO" \/ Oculta(h) THEN SinMeta
                    ELSE Arbol!FileTag(m.estado, Datos(Leidos(h, m)))
<1>1. \A ops : Trabaja(w, d, ops) <=> h.p.op \in ops
  BY DEF Trabaja
<1>2. Oculto(w, d) <=> Oculta(h)
  BY <1>1 DEF Oculto, Oculta
<1>3. Lista(w, d) = Leidos(h, m)
  BY <1>1 DEF Lista, Leidos
<1> QED
  BY <1>2, <1>3, VistaDeUno DEF VistaCon

\* While the operation goes on after a step.
LEMMA VistaPropiaLuego ==
  ASSUME UnWorker, NEW w \in Workers, NEW k, NEW m, NEW d, EnObra(w)', hebra'[w] = k,
         d = Destino(k.p), meta'[d] = m
  PROVE  Vista(d)' = IF m = SinMeta \/ m.estado = "NINGUNO" \/ Oculta(k) THEN SinMeta
                     ELSE Arbol!FileTag(m.estado, Datos(Leidos(k, m))')
<1>1. \A ops : Trabaja(w, d, ops)' <=> k.p.op \in ops
  BY DEF Trabaja
<1>2. Oculto(w, d)' <=> Oculta(k)
  BY <1>1 DEF Oculto, Oculta
<1>3. Lista(w, d)' = Leidos(k, m)
  BY <1>1 DEF Lista, Leidos
<1>4. Datos(Lista(w, d))' = Datos(Leidos(k, m))'
  BY <1>3 DEF Datos
<1> QED
  BY <1>2, <1>4, VistaDeUno DEF VistaCon, Arbol!FileTag

\* While no operation builds it, before a step or after it.
LEMMA VistaLibre ==
  ASSUME UnWorker, NEW w \in Workers, NEW ft, NEW m
  PROVE  /\ (EnObra(w) => Destino(hebra[w].p) # ft) /\ meta[ft] = m =>
              Vista(ft) = IF m = SinMeta \/ m.estado = "NINGUNO" THEN SinMeta
                          ELSE Arbol!FileTag(m.estado, Datos(m.bloques))
         /\ (EnObra(w)' => Destino(hebra'[w].p) # ft) /\ meta'[ft] = m =>
              Vista(ft)' = IF m = SinMeta \/ m.estado = "NINGUNO" THEN SinMeta
                           ELSE Arbol!FileTag(m.estado, Datos(m.bloques)')
<1>1. ASSUME EnObra(w) => Destino(hebra[w].p) # ft, meta[ft] = m
      PROVE  Vista(ft) = IF m = SinMeta \/ m.estado = "NINGUNO" THEN SinMeta
                         ELSE Arbol!FileTag(m.estado, Datos(m.bloques))
  <2>1. ~Oculto(w, ft) /\ Lista(w, ft) = m.bloques
    BY <1>1 DEF Oculto, Lista, Trabaja
  <2> QED
    BY <1>1, <2>1, VistaDeUno DEF VistaCon
<1>2. ASSUME EnObra(w)' => Destino(hebra'[w].p) # ft, meta'[ft] = m
      PROVE  Vista(ft)' = IF m = SinMeta \/ m.estado = "NINGUNO" THEN SinMeta
                          ELSE Arbol!FileTag(m.estado, Datos(m.bloques)')
  <2>1. ~Oculto(w, ft)' /\ Lista(w, ft)' = m.bloques
    BY <1>2 DEF Oculto, Lista, Trabaja
  <2>2. Datos(Lista(w, ft))' = Datos(m.bloques)'
    BY <2>1 DEF Datos
  <2> QED
    BY <1>2, <2>1, <2>2, VistaDeUno DEF VistaCon, Arbol!FileTag
<1> QED
  BY <1>1, <1>2

\* No operation is under way after a reply.
LEMMA RespondeFin ==
  ASSUME Tipos, NEW w \in Workers, Responde(w)
  PROVE  ~EnObra(w)'
BY Hechos DEF Responde, Ociosa, EnObra

\* The blocks of a list hold what they did when contenido did not change on them.
LEMMA DatosIguales ==
  ASSUME NEW s, \A j \in DOMAIN s : contenido'[s[j]] = contenido[s[j]]
  PROVE  Datos(s)' = Datos(s)
BY DEF Datos

-----------------------------------------------------------------------------
(* The steps of the Storage, action by action.                             *)

\* Receiving, locking, rejecting and aborting show in no file:tag.
LEMMA AtiendeImplementa ==
  ASSUME Exacto, UnWorker, NEW w \in Workers,
         Recibe(w) \/ Toma(w) \/ Rechaza(w) \/ AbortaAlLeer(w) \/ AbortaAlGuardar(w)
  PROVE  [Arbol!Next]_Arbolado
<1>1. Tipos
  BY DEF Exacto, Enlazado
<1>2. CASE Recibe(w)
  <2>1. PICK p \in Pedidos[w] : Sigue(w, [pc |-> "candado", p |-> p])
    BY <1>2 DEF Recibe
  <2>2. hebra'[w].pc = "candado"
    BY <1>1, <2>1, Siguiente
  <2> QED
    BY <1>2, <2>2, PasoFuera DEF Recibe, En, EnObra, disco
<1>3. CASE Toma(w)
  <2>1. hebra'[w].pc = "verifica"
    BY <1>1, <1>3, SoloEtiqueta DEF Toma
  <2> QED
    BY <1>3, <2>1, PasoFuera DEF Toma, En, EnObra, disco
<1>4. CASE Rechaza(w)
  <2>1. hebra'[w].pc = "espera"
    BY <1>1, <1>4, Hechos DEF Rechaza, Responde, Ociosa
  <2> QED
    BY <1>4, <2>1, PasoFuera DEF Rechaza, En, EnObra, disco
<1>5. CASE AbortaAlLeer(w) \/ AbortaAlGuardar(w)
  <2>1. UNCHANGED <<disco, hebra>>
    BY <1>5 DEF AbortaAlLeer, AbortaAlGuardar
  <2>2. \A ft : Oculto(w, ft)' <=> Oculto(w, ft)
    BY <2>1 DEF Oculto, Trabaja, EnObra
  <2>3. \A ft : Lista(w, ft)' = Lista(w, ft)
    BY <2>1 DEF Lista, Trabaja, EnObra, disco
  <2> QED
    BY <2>1, <2>2, <2>3, PasoQuieto DEF disco
<1> QED
  BY <1>2, <1>3, <1>4, <1>5

\* A TRUNCATE that begins is one of the tree, a DELETE hides its file:tag,
\* and no other operation shows yet.
LEMMA AceptaImplementa ==
  ASSUME Exacto, UnWorker, aMedias = {}, NEW w \in Workers, Acepta(w)
  PROVE  [Arbol!Next]_Arbolado
<1>1. PICK p, m, s : p = hebra[w].p /\ m = meta[p.ft] /\ s = m.bloques
  OBVIOUS
<1>2. UNCHANGED disco /\ hebra[w].pc = "verifica" /\ Tipos /\ Enlazado /\ ~EnObra(w)
      /\ p.op \in Operaciones /\ p.ft \in FileTags
  BY <1>1, Hechos DEF Acepta, En, Exacto, Enlazado, EnObra
<1>3. /\ p.op # "CREATE" => MetaBien(p) /\ Legible(p) /\ m # SinMeta
      /\ \E k : hebra'[w] = k /\ Aceptada(p, s, k)
  BY <1>1, <1>2, AceptaSigue
<1>4. PICK k : hebra'[w] = k /\ Aceptada(p, s, k)
  BY <1>3
<1>5. k.p = p
  BY <1>4 DEF Aceptada
<1>6. CASE p.op = "TRUNCATE"
  <2>1. m # SinMeta /\ m \in Metadatos /\ m.estado \notin {"COMMITED", "NINGUNO"}
    BY <1>1, <1>2, <1>3, <1>6 DEF MetaBien, Legible, Tipos, TypeOK
  <2>2. m.estado = "WORK_IN_PROGRESS" /\ s \in Seq(Bloques)
    BY <1>1, <2>1 DEF Metadatos, Estados
  <2>3. Vista(p.ft) = Arbol!FileTag("WORK_IN_PROGRESS", Datos(s))
    BY <1>1, <1>2, <2>1, <2>2, VistaLibre
  <2>4. EnObra(w)' /\ (k.bloques = s \/ (Len(s) > 0 /\ k.bloques = Front(s)))
    BY <1>4, <1>6 DEF Aceptada, EnObra
  <2> QED
    BY <1>1, <1>2, <1>4, <1>5, <1>6, <2>1, <2>2, <2>3, <2>4, PasoTruncate DEF disco
<1>7. CASE p.op = "DELETE"
  <2>1. m # SinMeta /\ m \in Metadatos /\ s \in Seq(Bloques) /\ m.estado \in Estados \ {"NINGUNO"}
    <3>1. EnReposo(p.ft)
      BY <1>2, Solo DEF Enlazado, Reposa
    <3> QED
      BY <1>1, <1>2, <1>3, <1>7, <3>1 DEF EnReposo, Tipos, TypeOK, Metadatos
  <2>2. Datos(s) \in Seq(Contenidos)
    BY <1>2, <2>1, DatosDe
  <2>3. Vista(p.ft) # SinMeta
    BY <1>1, <1>2, <2>1, <2>2, VistaLibre, VistaPresente
  <2>4. EnObra(w)' /\ Destino(k.p) = p.ft /\ Oculta(k)
    BY <1>4, <1>5, <1>7 DEF Aceptada, EnObra, Destino, Oculta
  <2>5. meta'[p.ft] = m
    BY <1>1, <1>2 DEF disco
  <2>6. Vista(p.ft)' = SinMeta
    BY <1>4, <2>4, <2>5, VistaPropiaLuego
  <2>7. \A ft \in FileTags : ft # p.ft => Vista(ft)' = Vista(ft)
    BY <1>2, <1>4, <2>4, AjenasIguales DEF disco
  <2> QED
    BY <1>2, <2>3, <2>6, <2>7, PasoDelArbol DEF PasoDe
<1>8. CASE p.op = "TAG"
  <2>1. k.pc = "mkdirTag"
    BY <1>4, <1>8 DEF Aceptada
  <2>2. \A ft : ~Oculto(w, ft) /\ ~Oculto(w, ft)' /\ Lista(w, ft)' = Lista(w, ft)
    BY <1>2, <1>4, <1>5, <1>8, <2>1 DEF Oculto, Lista, Trabaja, disco
  <2> QED
    BY <1>2, <2>2, PasoQuieto DEF disco
<1>9. CASE p.op \notin {"TRUNCATE", "DELETE", "TAG"}
  BY <1>2, <1>4, <1>5, <1>9, PasoFuera DEF disco
<1> QED
  BY <1>6, <1>7, <1>8, <1>9

\* Directories, links, hashes and st_nlink show in no file:tag.
LEMMA ObraImplementa ==
  ASSUME Exacto, UnWorker, NEW w \in Workers,
         \/ MkdirFile(w) \/ MkdirTag(w) \/ Desenlaza(w) \/ Reasigna(w) \/ EnlazaDuplicado(w)
         \/ CalculaHash(w) \/ VeNLink(w) \/ CopiaMeta(w) \/ Relee(w)
  PROVE  [Arbol!Next]_Arbolado
<1>1. PICK h : h = hebra[w]
  OBVIOUS
<1>2. Tipos
  BY DEF Exacto, Enlazado
<1>3. CASE MkdirFile(w)
  <2>1. h.p.op = "CREATE"
    BY <1>1, <1>2, <1>3, Labores DEF MkdirFile, En
  <2>2. PICK k : hebra'[w] = k /\ k.pc = "mkdirTag" /\ k.p = h.p
    BY <1>1, <1>2, <1>3, SoloEtiqueta DEF MkdirFile
  <2> QED
    BY <1>1, <1>3, <2>1, <2>2, PasoEnObra DEF MkdirFile, En, EnObra
<1>4. CASE MkdirTag(w)
  <2>1. h.p.op \in {"CREATE", "TAG"}
    BY <1>1, <1>2, <1>4, Labores DEF MkdirTag, En
  <2>2. PICK k : hebra'[w] = k /\ k.pc = "crearMeta" /\ k.p = h.p
    BY <1>1, <1>2, <1>4, SoloEtiqueta DEF MkdirTag
  <2> QED
    BY <1>1, <1>4, <2>1, <2>2, PasoEnObra DEF MkdirTag, En, EnObra
<1>5. CASE Desenlaza(w)
  <2>1. h.p.op \in {"TRUNCATE", "WRITE", "DELETE"}
    BY <1>1, <1>2, <1>5, Labores DEF Desenlaza, En
  <2>2. PICK k : hebra'[w] = k /\ k.pc = "stat" /\ k.p = h.p /\ k.bloques = h.bloques
    BY <1>1, <1>2, <1>5, SoloEtiqueta DEF Desenlaza
  <2> QED
    BY <1>1, <1>5, <2>1, <2>2, PasoEnObra DEF Desenlaza, En, EnObra
<1>6. CASE Reasigna(w) \/ EnlazaDuplicado(w)
  <2>1. h.p.op = "COMMIT"
    BY <1>1, <1>2, <1>6, Labores DEF Reasigna, EnlazaDuplicado, En
  <2>2. \E k : hebra'[w] = k /\ k.pc \in {"enlazaDuplicado", "stat"} /\ k.p = h.p
    <3>1. CASE Reasigna(w)
      BY <1>1, <1>2, <3>1, SoloEtiqueta DEF Reasigna
    <3>2. CASE EnlazaDuplicado(w)
      <4>1. Sigue(w, [pc |-> "stat", bloques |-> [h.bloques EXCEPT ![h.i + 1] = h.nuevo]])
        BY <1>1, <3>2 DEF EnlazaDuplicado
      <4> QED
        BY <1>1, <1>2, <4>1, Siguiente
    <3> QED
      BY <1>6, <3>1, <3>2
  <2> QED
    BY <1>1, <1>6, <2>1, <2>2, PasoEnObra DEF Reasigna, EnlazaDuplicado, En, EnObra
<1>7. CASE CalculaHash(w)
  <2>1. PICK paso \in {<<"hash", "buscaHash">>, <<"rehash", "guardaHash">>,
                       <<"hashLiberado", "quitaHash">>} :
          En(w, paso[1]) /\ Sigue(w, [pc |-> paso[2], hash |-> contenido[h.b]])
    BY <1>1, <1>7 DEF CalculaHash
  <2>2. h.pc \in {"hash", "rehash", "hashLiberado"}
    BY <1>1, <2>1 DEF En
  <2>3. h.p.op \in {"COMMIT", "TRUNCATE", "WRITE", "DELETE"}
    BY <1>1, <1>2, <2>2, Labores
  <2>4. PICK k : hebra'[w] = k /\ k.pc = paso[2] /\ k.p = h.p /\ k.bloques = h.bloques
    BY <1>1, <1>2, <2>1, Siguiente
  <2>5. k.pc \in {"buscaHash", "guardaHash", "quitaHash"}
    BY <2>1, <2>4
  <2> QED
    BY <1>1, <1>7, <2>2, <2>3, <2>4, <2>5, PasoEnObra DEF CalculaHash, EnObra, disco
<1>8. CASE VeNLink(w)
  <2>1. h.p.op = "WRITE"
    BY <1>1, <1>2, <1>8, Labores DEF VeNLink, En
  <2>2. PICK pc \in {"escribeEnSitio", "buscaLibre"} : Sigue(w, A(pc))
    BY <1>8 DEF VeNLink
  <2>3. PICK k : hebra'[w] = k /\ k.pc = pc /\ k.p = h.p
    BY <1>1, <1>2, <2>2, SoloEtiqueta
  <2> QED
    BY <1>1, <1>8, <2>1, <2>3, PasoEnObra DEF VeNLink, En, EnObra, disco
<1>9. CASE CopiaMeta(w)
  <2>1. h.p.op \in {"TRUNCATE", "TAG", "COMMIT", "WRITE"} /\ h.pc = "copiaMeta"
    BY <1>1, <1>2, <1>9, Labores DEF CopiaMeta, En
  <2>2. PICK e : Sigue(w, [pc |-> "guardaBloques", estado |-> e])
    BY <1>9 DEF CopiaMeta
  <2>3. PICK k : hebra'[w] = k /\ k.pc = "guardaBloques" /\ k.p = h.p /\ k.bloques = h.bloques
    BY <1>1, <1>2, <2>2, Siguiente
  <2> QED
    BY <1>1, <1>9, <2>1, <2>3, PasoEnObra DEF CopiaMeta, EnObra, disco
<1>10. CASE Relee(w)
  <2>1. h.p.op = "COMMIT" /\ h \in Hebra /\ hebra \in [Workers -> Hebra]
        /\ hebra' = [hebra EXCEPT ![w] = Con(h, Revisa(h.bloques, 0))]
    BY <1>1, <1>2, <1>10, Labores, Hechos, ReleeSigue DEF Relee, En, Exacto
  <2>2. PICK c : c = Revisa(h.bloques, 0)
    OBVIOUS
  <2>3. c.pc \in {"hash", "copiaMeta"} /\ "pc" \in DOMAIN c /\ "p" \notin DOMAIN c
    BY <2>2 DEF Revisa, A
  <2>4. PICK k : hebra'[w] = k /\ k.pc \in {"hash", "copiaMeta"} /\ k.p = h.p
    BY <2>1, <2>2, <2>3, ConCampos
  <2> QED
    BY <1>1, <1>10, <2>1, <2>4, PasoEnObra DEF Relee, En, EnObra, disco
<1> QED
  BY <1>3, <1>4, <1>5, <1>6, <1>7, <1>8, <1>9, <1>10

\* What the invariant says of a TRUNCATE that is under way: its file:tag is
\* not committed, and a reader gets the list at hand.
LEMMA EnTruncate ==
  ASSUME Exacto, UnWorker, aMedias = {}, NEW w \in Workers, EnObra(w), NEW h, hebra[w] = h,
         h.p.op = "TRUNCATE"
  PROVE  /\ h.p.ft \in FileTags /\ h.bloques \in Seq(Bloques) /\ Destino(h.p) = h.p.ft
         /\ meta[h.p.ft] # SinMeta /\ meta[h.p.ft].estado = "WORK_IN_PROGRESS"
         /\ Vista(h.p.ft) = Arbol!FileTag("WORK_IN_PROGRESS", Datos(h.bloques))
<1>1. Tipos /\ LocalesBien(h)
  BY Contexto
<1>2. h.p.ft \in FileTags /\ h.bloques \in Seq(Bloques) /\ Destino(h.p) = h.p.ft
  BY <1>1, Hechos DEF EnObra, Destino
<1>3. meta[h.p.ft] # SinMeta /\ meta[h.p.ft] \in Metadatos
  BY <1>1, EnObraHechos
<1>4. ~Comiteado(h.p.ft) /\ meta[h.p.ft].estado # "NINGUNO"
  <2>1. ConEstado(h, meta[h.p.ft]) /\ h.pc \in EtiquetasDe("TRUNCATE")
    BY <1>2, Contexto, EnObraHechos
  <2> QED
    BY <1>1, <2>1 DEF LocalesBien, ConEstado, SinConf, SinDir, EtiquetasDe
<1>5. meta[h.p.ft].estado = "WORK_IN_PROGRESS"
  BY <1>3, <1>4 DEF Comiteado, Metadatos, Estados
<1>6. Vista(h.p.ft) = Arbol!FileTag("WORK_IN_PROGRESS", Datos(h.bloques))
  BY <1>2, <1>3, <1>5, VistaPropia DEF Leidos, Oculta
<1> QED
  BY <1>2, <1>3, <1>5, <1>6

\* A TRUNCATE links block by block, and the reader sees one more each time.
LEMMA EnlazaImplementa ==
  ASSUME Exacto, UnWorker, aMedias = {}, NEW w \in Workers, Enlaza(w)
  PROVE  [Arbol!Next]_Arbolado
<1>1. PICK h : h = hebra[w]
  OBVIOUS
<1>2. Tipos /\ h.pc = "enlaza" /\ EnObra(w) /\ h.p.op \in {"TRUNCATE", "TAG", "WRITE"}
      /\ Sigue(w, TrasEnlazar(h)) /\ UNCHANGED <<meta, contenido>>
  BY <1>1, Labores DEF Exacto, Enlazado, Enlaza, En, EnObra
<1>3. CASE h.p.op = "TRUNCATE"
  <2>1. PICK pc \in {"enlaza", "copiaMeta"} :
          Sigue(w, [bloques |-> Append(h.bloques, 0), i |-> h.i + 1, pc |-> pc])
    BY <1>2, <1>3 DEF TrasEnlazar
  <2>2. PICK k : hebra'[w] = k /\ k.pc = pc /\ k.p = h.p /\ k.bloques = Append(h.bloques, 0)
    BY <1>1, <1>2, <2>1, Siguiente
  <2>3. EnObra(w)' /\ k.p.op = "TRUNCATE" /\ k.p.ft = h.p.ft /\ hebra'[w] = k
        /\ k.bloques \in {h.bloques, Append(h.bloques, 0)}
    BY <1>3, <2>1, <2>2 DEF EnObra
  <2>4. /\ h.p.ft \in FileTags /\ h.bloques \in Seq(Bloques) /\ Destino(h.p) = h.p.ft
        /\ meta[h.p.ft] # SinMeta /\ meta[h.p.ft].estado = "WORK_IN_PROGRESS"
        /\ Vista(h.p.ft) = Arbol!FileTag("WORK_IN_PROGRESS", Datos(h.bloques))
    BY <1>1, <1>2, <1>3, EnTruncate
  <2> QED
    BY <1>1, <1>2, <2>3, <2>4, PasoTruncate
<1>4. CASE h.p.op = "TAG"
  <2>1. \E k : hebra'[w] = k /\ k.pc \in {"enlaza", "copiaMeta"} /\ k.p = h.p
    <3>1. CASE h.i + 1 < Len(h.bloques)
      <4>1. Sigue(w, [pc |-> "enlaza", i |-> h.i + 1, nuevo |-> h.bloques[(h.i + 1) + 1]])
        BY <1>2, <1>4, <3>1 DEF TrasEnlazar
      <4> QED
        BY <1>1, <1>2, <4>1, Siguiente
    <3>2. CASE ~(h.i + 1 < Len(h.bloques))
      <4>1. Sigue(w, A("copiaMeta"))
        BY <1>2, <1>4, <3>2 DEF TrasEnlazar
      <4> QED
        BY <1>1, <1>2, <4>1, SoloEtiqueta
    <3> QED
      BY <3>1, <3>2
  <2> QED
    BY <1>1, <1>2, <1>4, <2>1, PasoEnObra DEF EnObra
<1>5. CASE h.p.op = "WRITE"
  <2>1. Sigue(w, [pc |-> "copiaMeta", bloques |-> [h.bloques EXCEPT ![h.i + 1] = h.nuevo]])
    BY <1>2, <1>5 DEF TrasEnlazar
  <2>2. PICK k : hebra'[w] = k /\ k.pc = "copiaMeta" /\ k.p = h.p
    BY <1>1, <1>2, <2>1, Siguiente
  <2> QED
    BY <1>1, <1>2, <1>5, <2>2, PasoEnObra DEF EnObra
<1> QED
  BY <1>2, <1>3, <1>4, <1>5

\* Going on after a block: only a TRUNCATE, which takes the next one off its
\* list, shows.
LEMMA DejaImplementa ==
  ASSUME Exacto, UnWorker, aMedias = {}, NEW w \in Workers, EnObra(w),
         hebra[w].p.op \in {"TRUNCATE", "COMMIT", "WRITE", "DELETE"},
         Sigue(w, TrasDejar(hebra[w])), UNCHANGED <<meta, contenido>>
  PROVE  [Arbol!Next]_Arbolado
<1>1. PICK h : h = hebra[w]
  OBVIOUS
<1>2. Tipos /\ hebra[w].pc # "espera"
  BY DEF Exacto, Enlazado, EnObra
<1>3. PICK k : hebra'[w] = k /\ Dejo(h, k)
  BY <1>1, <1>2, TrasDejarDejo
<1>4. EnObra(w)' /\ k.p = h.p
  BY <1>1, <1>3 DEF Dejo, EnObra
<1>5. CASE h.p.op = "TRUNCATE"
  <2>1. k.bloques = h.bloques \/ (Len(h.bloques) > 0 /\ k.bloques = Front(h.bloques))
    BY <1>3, <1>5 DEF Dejo
  <2> QED
    BY <1>1, <1>3, <1>4, <1>5, <2>1, EnTruncate, PasoTruncate
<1>6. CASE h.p.op # "TRUNCATE"
  BY <1>1, <1>3, <1>4, <1>6, PasoEnObra
<1> QED
  BY <1>5, <1>6

\* The steps that free a block, and those of the hash index.
LEMMA LiberaImplementa ==
  ASSUME Exacto, UnWorker, aMedias = {}, NEW w \in Workers,
         Stat(w) \/ Libera(w) \/ QuitaHash(w) \/ BuscaHash(w) \/ GuardaHash(w)
  PROVE  [Arbol!Next]_Arbolado
<1>1. PICK h : h = hebra[w]
  OBVIOUS
<1>2. Tipos /\ h.pc \in {"stat", "libera", "quitaHash", "buscaHash", "guardaHash"} /\ EnObra(w)
      /\ UNCHANGED <<meta, contenido>>
  BY <1>1 DEF Exacto, Enlazado, Stat, Libera, QuitaHash, BuscaHash, GuardaHash, En, EnObra, disco
<1>3. h.p.op \in {"TRUNCATE", "COMMIT", "WRITE", "DELETE"}
  BY <1>1, <1>2, Labores
<1>4. CASE Sigue(w, TrasDejar(hebra[w]))
  BY <1>1, <1>2, <1>3, <1>4, DejaImplementa
<1>5. CASE ~Sigue(w, TrasDejar(hebra[w]))
  <2>1. \E k : hebra'[w] = k /\ k.p = h.p /\ k.bloques = h.bloques
               /\ k.pc \in {"libera", "hashLiberado", "rehash", "reasigna"}
    <3>1. CASE Stat(w)
      <4>1. Sigue(w, A("libera"))
        BY <1>1, <1>5, <3>1 DEF Stat
      <4> QED
        BY <1>1, <1>2, <4>1, SoloEtiqueta
    <3>2. CASE Libera(w)
      <4>1. Sigue(w, A("hashLiberado"))
        BY <1>1, <1>5, <3>2 DEF Libera
      <4> QED
        BY <1>1, <1>2, <4>1, SoloEtiqueta
    <3>3. CASE BuscaHash(w)
      <4>1. Sigue(w, A("rehash")) \/ \E otro : Sigue(w, [pc |-> "reasigna", nuevo |-> otro])
        BY <1>1, <1>5, <3>3 DEF BuscaHash
      <4>2. CASE Sigue(w, A("rehash"))
        BY <1>1, <1>2, <4>2, SoloEtiqueta
      <4>3. ASSUME NEW otro, Sigue(w, [pc |-> "reasigna", nuevo |-> otro])
            PROVE  \E k : hebra'[w] = k /\ k.p = h.p /\ k.bloques = h.bloques
                          /\ k.pc \in {"libera", "hashLiberado", "rehash", "reasigna"}
        BY <1>1, <1>2, <4>3, Siguiente
      <4> QED
        BY <4>1, <4>2, <4>3
    <3>4. CASE QuitaHash(w) \/ GuardaHash(w)
      BY <1>1, <1>5, <3>4 DEF QuitaHash, GuardaHash
    <3> QED
      BY <3>1, <3>2, <3>3, <3>4
  <2> QED
    BY <1>1, <1>2, <1>3, <2>1, PasoEnObra DEF EnObra
<1> QED
  BY <1>4, <1>5

\* The metadata.config crear_meta opens shows no file:tag yet.
LEMMA CrearMetaImplementa ==
  ASSUME Exacto, UnWorker, aMedias = {}, NEW w \in Workers, CrearMeta(w)
  PROVE  [Arbol!Next]_Arbolado
<1>1. PICK h, d : h = hebra[w] /\ d = Destino(h.p)
  OBVIOUS
<1>2. Tipos /\ h.pc = "crearMeta" /\ EnObra(w) /\ d \in FileTags /\ UNCHANGED contenido
  BY <1>1, Hechos DEF Exacto, Enlazado, CrearMeta, En, EnObra
<1>3. d \in dirs /\ meta[d] = SinMeta
  BY <1>1, <1>2, Contexto DEF SinConf, SinDir
<1>4. Vacio.estado = "NINGUNO" /\ Sigue(w, A("guardaMeta"))
  BY <1>1, <1>3 DEF Vacio, Meta, CrearMeta
<1>5. meta'[d] = Vacio /\ \A ft \in FileTags : ft # d => meta'[ft] = meta[ft]
  BY <1>1, <1>2, <1>3 DEF CrearMeta, ConMeta, Tipos, TypeOK
<1>6. PICK k : hebra'[w] = k /\ k.pc = "guardaMeta" /\ k.p = h.p
  BY <1>1, <1>2, <1>4, SoloEtiqueta
<1>7. EnObra(w)' /\ Destino(k.p) = d
  BY <1>1, <1>6 DEF EnObra
<1>8. Vista(d) = SinMeta
  BY <1>1, <1>2, <1>3, VistaPropia
<1>9. Vista(d)' = SinMeta
  BY <1>4, <1>5, <1>6, <1>7, VistaPropiaLuego
<1>10. \A ft \in FileTags : ft # d => Vista(ft)' = Vista(ft)
  BY <1>1, <1>2, <1>5, <1>6, <1>7, AjenasIguales
<1> QED
  BY <1>2, <1>8, <1>9, <1>10, PasoDelArbol DEF PasoDe

\* A CREATE ends with an empty file:tag; a TAG still hides the one it makes.
LEMMA GuardaMetaImplementa ==
  ASSUME Exacto, UnWorker, aMedias = {}, NEW w \in Workers, GuardaMeta(w)
  PROVE  [Arbol!Next]_Arbolado
<1>1. PICK h, d, m : h = hebra[w] /\ d = Destino(h.p) /\ m = Meta("WORK_IN_PROGRESS", <<>>)
  OBVIOUS
<1>2. Tipos /\ h.pc = "guardaMeta" /\ EnObra(w) /\ d \in FileTags /\ h.p.op \in {"CREATE", "TAG"}
      /\ UNCHANGED contenido /\ TrasCrear(w)
  BY <1>1, Hechos, Labores DEF Exacto, Enlazado, GuardaMeta, En, EnObra
<1>3. d \in dirs /\ meta[d] = Vacio
  <2>1. LocalesBien(h) /\ Labrada(h, d)
    BY <1>1, <1>2, Contexto
  <2> QED
    BY <1>1, <1>2, <2>1 DEF LocalesBien, Labrada, SinDir
<1>4. m # SinMeta /\ m.estado = "WORK_IN_PROGRESS" /\ m.bloques = <<>>
  <2>1. "WORK_IN_PROGRESS" \in Estados /\ <<>> \in Seq(Bloques)
    BY DEF Estados
  <2>2. m \in Metadatos
    BY <1>1, <2>1 DEF Meta, Metadatos
  <2> QED
    BY <1>1, <2>2, StorageAssumption DEF Meta
<1>5. meta'[d] = m /\ \A ft \in FileTags : ft # d => meta'[ft] = meta[ft]
  BY <1>1, <1>2, <1>3 DEF GuardaMeta, ConMeta, Tipos, TypeOK
<1>6. Vista(d) = SinMeta
  <2>1. Vacio.estado = "NINGUNO"
    BY DEF Vacio, Meta
  <2> QED
    BY <1>1, <1>2, <1>3, <2>1, VistaPropia
<1>7. CASE h.p.op = "CREATE"
  <2>1. ~EnObra(w)'
    BY <1>1, <1>2, <1>7, RespondeFin DEF TrasCrear
  <2>2. Datos(<<>>)' = <<>>
    BY DEF Datos
  <2>3. Vista(d)' = Arbol!FileTag("WORK_IN_PROGRESS", <<>>)
    BY <1>4, <1>5, <2>1, <2>2, VistaLibre
  <2>4. \A ft \in FileTags : ft # d => Vista(ft)' = Vista(ft)
    BY <1>1, <1>2, <1>5, <2>1, AjenasIguales
  <2> QED
    BY <1>2, <1>6, <2>3, <2>4, PasoDelArbol DEF PasoDe
<1>8. CASE h.p.op = "TAG"
  <2>1. PICK k : hebra'[w] = k /\ k.pc \in {"copiaMeta", "enlaza"} /\ k.p = h.p
    <3>1. Sigue(w, A("copiaMeta")) \/ Sigue(w, [pc |-> "enlaza", i |-> 0, nuevo |-> h.bloques[1]])
      BY <1>1, <1>2, <1>8 DEF TrasCrear
    <3>2. CASE Sigue(w, A("copiaMeta"))
      BY <1>1, <1>2, <3>2, SoloEtiqueta
    <3>3. CASE Sigue(w, [pc |-> "enlaza", i |-> 0, nuevo |-> h.bloques[1]])
      BY <1>1, <1>2, <3>3, Siguiente
    <3> QED
      BY <3>1, <3>2, <3>3
  <2>2. EnObra(w)' /\ Oculta(k) /\ Destino(k.p) = d
    BY <1>1, <1>8, <2>1 DEF EnObra, Oculta
  <2>3. Vista(d)' = SinMeta
    BY <1>5, <2>1, <2>2, VistaPropiaLuego
  <2>4. \A ft \in FileTags : ft # d => Vista(ft)' = Vista(ft)
    BY <1>1, <1>2, <1>5, <2>1, <2>2, AjenasIguales
  <2> QED
    BY <1>2, <1>6, <2>3, <2>4, PasoDelArbol DEF PasoDe
<1> QED
  BY <1>2, <1>7, <1>8

\* A COMMIT changes the state once; the blocks it shares later on hold the same.
LEMMA CommiteaImplementa ==
  ASSUME Exacto, UnWorker, aMedias = {}, NEW w \in Workers, Commitea(w)
  PROVE  [Arbol!Next]_Arbolado
<1>1. PICK h, d, m : h = hebra[w] /\ d = h.p.ft /\ m = meta[d]
  OBVIOUS
<1>2. Tipos /\ h.pc = "commitea" /\ EnObra(w) /\ d \in FileTags /\ h.p.op = "COMMIT"
      /\ UNCHANGED contenido /\ d = Destino(h.p)
  BY <1>1, Hechos, Labores DEF Exacto, Enlazado, Commitea, En, EnObra, Destino
<1>3. m # SinMeta /\ m.bloques \in Seq(Bloques) /\ h.estado = m.estado /\ h.bloques = m.bloques
      /\ d \in dirs
  <2>1. LocalesBien(h) /\ Labrada(h, d) /\ (MismaLista(h) => m.bloques = h.bloques)
    BY <1>1, <1>2, Contexto
  <2>2. m \in Metadatos /\ m # SinMeta
    BY <1>1, <1>2, EnObraHechos
  <2> QED
    BY <1>1, <1>2, <2>1, <2>2 DEF LocalesBien, Labrada, SinDir, MismaLista, Metadatos
<1>4. CASE m.estado # "WORK_IN_PROGRESS"
  <2>1. ~EnObra(w)' /\ UNCHANGED meta
    BY <1>1, <1>2, <1>3, <1>4, RespondeFin DEF Commitea
  <2> QED
    BY <1>1, <1>2, <2>1, PasoFuera
<1>5. CASE m.estado = "WORK_IN_PROGRESS"
  <2>1. meta' = ConMeta(d, Meta("COMMITED", h.bloques)) /\ Sigue(w, A("relee"))
    BY <1>1, <1>3, <1>5 DEF Commitea
  <2>2. PICK n : n = Meta("COMMITED", h.bloques)
    OBVIOUS
  <2>3. n # SinMeta /\ n.estado = "COMMITED" /\ n.bloques = m.bloques
    <3>1. "COMMITED" \in Estados
      BY DEF Estados
    <3>2. n \in Metadatos
      BY <1>3, <2>2, <3>1 DEF Meta, Metadatos
    <3> QED
      BY <1>3, <2>2, <3>2, StorageAssumption DEF Meta
  <2>4. meta'[d] = n /\ \A ft \in FileTags : ft # d => meta'[ft] = meta[ft]
    BY <1>2, <1>3, <2>1, <2>2 DEF ConMeta, Tipos, TypeOK
  <2>5. PICK k : hebra'[w] = k /\ k.pc = "relee" /\ k.p = h.p
    BY <1>1, <1>2, <2>1, SoloEtiqueta
  <2>6. EnObra(w)' /\ ~Oculta(k) /\ ~Oculta(h) /\ Destino(k.p) = d
        /\ Leidos(k, n) = m.bloques /\ Leidos(h, m) = m.bloques
    BY <1>2, <2>3, <2>5 DEF EnObra, Oculta, Leidos
  <2>7. Vista(d) = Arbol!FileTag("WORK_IN_PROGRESS", Datos(m.bloques))
    BY <1>1, <1>2, <1>3, <1>5, <2>6, VistaPropia
  <2>8. Datos(m.bloques)' = Datos(m.bloques)
    BY <1>2, DatosIguales
  <2>9. Vista(d)' = Arbol!FileTag("COMMITED", Datos(m.bloques))
    BY <2>3, <2>4, <2>5, <2>6, <2>8, VistaPropiaLuego
  <2>10. \A ft \in FileTags : ft # d => Vista(ft)' = Vista(ft)
    BY <1>1, <1>2, <2>4, <2>5, <2>6, AjenasIguales
  <2>11. Datos(m.bloques) \in Seq(Contenidos)
    BY <1>2, <1>3, DatosDe
  <2> QED
    BY <1>2, <2>7, <2>9, <2>10, <2>11, PasoDelArbol DEF PasoDe
<1> QED
  BY <1>4, <1>5

\* The blocks of a DELETE are gone before its metadata is.
LEMMA BorraImplementa ==
  ASSUME Exacto, UnWorker, aMedias = {}, NEW w \in Workers, Borra(w)
  PROVE  [Arbol!Next]_Arbolado
<1>1. PICK h, d, m : h = hebra[w] /\ d = h.p.ft /\ m = meta[d]
  OBVIOUS
<1>2. Tipos /\ h.pc = "borra" /\ EnObra(w) /\ d \in FileTags /\ h.p.op = "DELETE"
      /\ UNCHANGED contenido /\ d = Destino(h.p)
  BY <1>1, Hechos, Labores DEF Exacto, Enlazado, Borra, En, EnObra, Destino
<1>3. ~EnObra(w)'
  BY <1>2, RespondeFin DEF Borra
<1>4. meta'[d] = SinMeta /\ \A ft \in FileTags : ft # d => meta'[ft] = meta[ft]
  BY <1>1, <1>2 DEF Borra, Tipos, TypeOK
<1>5. Vista(d) = SinMeta
  BY <1>1, <1>2, VistaPropia DEF Oculta
<1>6. Vista(d)' = SinMeta
  BY <1>3, <1>4, VistaLibre
<1>7. \A ft \in FileTags : ft # d => Vista(ft)' = Vista(ft)
  BY <1>1, <1>2, <1>3, <1>4, AjenasIguales
<1> QED
  BY <1>2, <1>5, <1>6, <1>7, PasoDelArbol DEF PasoDe

\* Finding and marking a block, and reading one, show nowhere.
LEMMA LeeImplementa ==
  ASSUME Exacto, UnWorker, NEW w \in Workers, BuscaLibre(w) \/ MarcaOcupado(w) \/ Lee(w)
  PROVE  [Arbol!Next]_Arbolado
<1>1. PICK h : h = hebra[w]
  OBVIOUS
<1>2. Tipos /\ h.pc \in {"buscaLibre", "marca", "lee"} /\ UNCHANGED <<meta, contenido>>
  BY <1>1 DEF Exacto, Enlazado, BuscaLibre, MarcaOcupado, Lee, En, disco
<1>3. h.p.op \in {"WRITE", "READ"}
  BY <1>1, <1>2, Labores
<1>4. ~EnObra(w)' \/ hebra'[w].p = h.p
  <2>1. Responde(w) \/ \E libre : Sigue(w, [pc |-> "escribe", nuevo |-> libre])
    BY DEF BuscaLibre, MarcaOcupado, Lee
  <2>2. CASE Responde(w)
    BY <1>2, <2>2, RespondeFin
  <2>3. ASSUME NEW libre, Sigue(w, [pc |-> "escribe", nuevo |-> libre]) PROVE hebra'[w].p = h.p
    BY <1>1, <1>2, <2>3, Siguiente
  <2> QED
    BY <2>1, <2>2, <2>3
<1> QED
  BY <1>1, <1>2, <1>3, <1>4, PasoFuera

\* modificar_bloques_meta: a TRUNCATE shows nothing more than it did, a TAG
\* appears, a WRITE changes one block, and a COMMIT shares those that hold the same.
LEMMA GuardaImplementa ==
  ASSUME Exacto, UnWorker, aMedias = {}, NEW w \in Workers, GuardaBloques(w)
  PROVE  [Arbol!Next]_Arbolado
<1>1. PICK h, d, m, n : h = hebra[w] /\ d = Destino(h.p) /\ m = meta[d]
                        /\ n = Meta(h.estado, h.bloques)
  OBVIOUS
<1>2. Tipos /\ h.pc = "guardaBloques" /\ EnObra(w) /\ d \in FileTags
      /\ h.p.op \in {"TRUNCATE", "TAG", "COMMIT", "WRITE"} /\ UNCHANGED contenido
      /\ h.bloques \in Seq(Bloques) /\ h.i \in Nat /\ h.p.ft \in FileTags
  BY <1>1, Hechos, Labores DEF Exacto, Enlazado, GuardaBloques, En, EnObra
<1>3. LocalesBien(h) /\ MismosDatos(h) /\ Ubicada(h) /\ (MismaLista(h) => meta[h.p.ft].bloques = h.bloques)
  BY <1>1, <1>2, Contexto
<1>4. /\ m \in Metadatos /\ m # SinMeta /\ m.estado \in Estados /\ m.bloques \in Seq(Bloques)
      /\ m.estado = h.estado /\ m.estado # "NINGUNO" /\ d \in dirs
  <2>1. m # SinMeta
    <3>1. ObraBien(w)
      BY DEF Exacto, Enlazado
    <3> QED
      BY <1>1, <1>2, <3>1, EnObraHechos DEF ObraBien, Destino
  <2>2. ConEstado(h, m) /\ Labrada(h, d)
    BY <1>1, <1>2, Contexto
  <2>3. m.estado = h.estado /\ m.estado # "NINGUNO" /\ d \in dirs
    BY <1>1, <1>2, <1>3, <2>2 DEF LocalesBien, ConEstado, Labrada, SinConf, SinDir
  <2>4. m \in Metadatos
    BY <1>1, <1>2, <2>1 DEF Tipos, TypeOK
  <2>5. m.estado \in Estados /\ m.bloques \in Seq(Bloques)
    BY <2>4 DEF Metadatos
  <2> QED
    BY <2>1, <2>3, <2>4, <2>5
<1>5. n \in Metadatos /\ n # SinMeta /\ n.estado = m.estado /\ n.bloques = h.bloques
  <2>1. n \in Metadatos
    BY <1>1, <1>2, <1>4 DEF Meta, Metadatos
  <2> QED
    BY <1>1, <1>4, <2>1, StorageAssumption DEF Meta
<1>6. meta'[d] = n /\ \A ft \in FileTags : ft # d => meta'[ft] = meta[ft]
  BY <1>1, <1>2, <1>4 DEF GuardaBloques, ConMeta, Tipos, TypeOK
<1>7. Datos(h.bloques)' = Datos(h.bloques) /\ Datos(h.bloques) \in Seq(Contenidos)
      /\ Datos(m.bloques) \in Seq(Contenidos)
  BY <1>2, <1>4, DatosIguales, DatosDe
<1>8. ASSUME h.p.op # "WRITE"
      PROVE  /\ Vista(d)' = Arbol!FileTag(m.estado, Datos(h.bloques))
             /\ \A ft \in FileTags : ft # d => Vista(ft)' = Vista(ft)
  <2>1. ~EnObra(w)'
    BY <1>1, <1>2, <1>8, RespondeFin DEF GuardaBloques
  <2>2. Vista(d)' = Arbol!FileTag(m.estado, Datos(h.bloques))
    BY <1>4, <1>5, <1>6, <1>7, <2>1, VistaLibre
  <2> QED
    BY <1>1, <1>2, <1>6, <2>1, <2>2, AjenasIguales
<1>9. CASE h.p.op = "TRUNCATE"
  <2>1. Vista(d) = Arbol!FileTag(m.estado, Datos(h.bloques))
    BY <1>1, <1>2, <1>4, <1>9, VistaPropia DEF Oculta, Leidos
  <2> QED
    BY <1>2, <1>8, <1>9, <2>1, PasoDelArbol DEF PasoDe
<1>10. CASE h.p.op = "COMMIT"
  <2>1. Vista(d) = Arbol!FileTag(m.estado, Datos(m.bloques))
    BY <1>1, <1>2, <1>4, <1>10, VistaPropia DEF Oculta, Leidos
  <2>2. Datos(m.bloques) = Datos(h.bloques)
    <3>1. m = meta[h.p.ft]
      BY <1>1, <1>10 DEF Destino
    <3>2. Len(m.bloques) = Len(h.bloques)
          /\ \A j \in 1 .. Len(m.bloques) : contenido[m.bloques[j]] = contenido[h.bloques[j]]
      BY <1>3, <1>10, <3>1 DEF MismosDatos
    <3>3. DOMAIN m.bloques = 1 .. Len(m.bloques) /\ DOMAIN h.bloques = 1 .. Len(h.bloques)
      BY <1>2, <1>4, LenProperties
    <3> QED
      BY <3>2, <3>3 DEF Datos
  <2> QED
    BY <1>2, <1>8, <1>10, <2>1, <2>2, PasoDelArbol DEF PasoDe
<1>11. CASE h.p.op = "TAG"
  <2>1. d = h.p.dst /\ m.estado = "WORK_IN_PROGRESS"
    BY <1>1, <1>3, <1>4, <1>11 DEF LocalesBien, Destino, Comiteado, Estados
  <2>2. h.p.ft # d
    BY <1>1, <1>2, <1>11 DEF Exacto, Enlazado, ObraBien
  <2>3. PICK o : o = meta[h.p.ft]
    OBVIOUS
  <2>4. o \in Metadatos /\ o # SinMeta /\ o.bloques = h.bloques /\ o.estado # "NINGUNO"
    <3>1. o \in Metadatos /\ o # SinMeta /\ o.bloques = h.bloques
      BY <1>1, <1>2, <1>3, <1>11, <2>3, EnObraHechos DEF MismaLista
    <3>2. Reposa(h.p.ft)
      BY <1>1, <1>2, <2>2, Solo DEF Reposa
    <3>3. EnReposo(h.p.ft)
      BY <3>2 DEF Exacto, Enlazado, Reposa
    <3> QED
      BY <2>3, <3>1, <3>3 DEF EnReposo
  <2>5. Vista(h.p.ft) = Arbol!FileTag(o.estado, Datos(h.bloques))
    BY <1>1, <2>2, <2>3, <2>4, VistaLibre
  <2>6. Vista(h.p.ft) # SinMeta /\ Vista(h.p.ft).datos = Datos(h.bloques)
    BY <1>7, <2>4, <2>5, VistaPresente DEF Metadatos
  <2>7. Vista(d) = SinMeta
    BY <1>1, <1>2, <1>11, VistaPropia DEF Oculta
  <2>8. Vista(d)' = Arbol!FileTag("WORK_IN_PROGRESS", Vista(h.p.ft).datos)
    BY <1>8, <1>11, <2>1, <2>6
  <2>9. PasoDe(d, SinMeta, Arbol!FileTag("WORK_IN_PROGRESS", Vista(h.p.ft).datos))
    BY <1>2, <2>6 DEF PasoDe
  <2> QED
    BY <1>2, <1>8, <1>11, <2>7, <2>8, <2>9, PasoDelArbol
<1>12. CASE h.p.op = "WRITE"
  <2>1. d = h.p.ft /\ m.estado = "WORK_IN_PROGRESS" /\ h.i < Len(h.bloques)
        /\ h.bloques = [m.bloques EXCEPT ![h.i + 1] = h.nuevo]
    BY <1>1, <1>2, <1>3, <1>4, <1>12 DEF LocalesBien, Ubicada, Destino, Comiteado, Estados
  <2>2. PICK k : hebra'[w] = k /\ k.pc = "marca" /\ k.p = h.p
    BY <1>1, <1>2, <1>12, SoloEtiqueta DEF GuardaBloques
  <2>3. EnObra(w)' /\ ~Oculta(k) /\ ~Oculta(h) /\ Destino(k.p) = d
        /\ Leidos(k, n) = h.bloques /\ Leidos(h, m) = m.bloques
    BY <1>1, <1>5, <1>12, <2>2 DEF EnObra, Oculta, Leidos
  <2>4. Vista(d) = Arbol!FileTag("WORK_IN_PROGRESS", Datos(m.bloques))
    <3>1. Vista(d) = Arbol!FileTag(m.estado, Datos(Leidos(h, m)))
      BY <1>1, <1>2, <1>4, <2>3, VistaPropia
    <3> QED
      BY <2>1, <2>3, <3>1
  <2>5. Vista(d)' = Arbol!FileTag("WORK_IN_PROGRESS", Datos(h.bloques))
    BY <1>5, <1>6, <1>7, <2>1, <2>2, <2>3, VistaPropiaLuego
  <2>6. \A ft \in FileTags : ft # d => Vista(ft)' = Vista(ft)
    BY <1>1, <1>2, <1>6, <2>2, <2>3, AjenasIguales
  <2>7. h.i + 1 \in 1 .. Len(m.bloques) /\ h.nuevo \in Bloques
    <3>1. DOMAIN h.bloques = DOMAIN m.bloques
      BY <2>1
    <3>2. Len(h.bloques) = Len(m.bloques) /\ Len(m.bloques) \in Nat
      BY <1>2, <1>4, <3>1, LenProperties
    <3>3. h.nuevo \in Bloques
      BY <1>1, <1>2, Hechos
    <3> QED
      BY <1>2, <2>1, <3>2, <3>3
  <2>8. Datos(h.bloques) = [Datos(m.bloques) EXCEPT ![h.i + 1] = contenido[h.nuevo]]
    BY <1>2, <1>4, <2>1, <2>7, DatosCambia
  <2>9. h.i + 1 \in DOMAIN Datos(m.bloques) /\ contenido[h.nuevo] \in Contenidos
    BY <1>2, <1>4, <2>7, DatosDe DEF Tipos, TypeOK
  <2>10. PasoDe(d, Vista(d), Arbol!FileTag("WORK_IN_PROGRESS", Datos(h.bloques)))
    BY <1>7, <2>4, <2>8, <2>9 DEF PasoDe
  <2> QED
    BY <1>2, <2>5, <2>6, <2>10, PasoDelArbol
<1> QED
  BY <1>2, <1>9, <1>10, <1>11, <1>12

\* The blocks of a WRITE that has not left the old one are all linked.
LEMMA EnWrite ==
  ASSUME Exacto, UnWorker, aMedias = {}, NEW w \in Workers, NEW h, hebra[w] = h,
         h.pc \in {"escribeEnSitio", "escribe"}, NEW d, d = h.p.ft, NEW m, m = meta[d],
         NEW s, s = m.bloques
  PROVE  /\ h.p.op = "WRITE" /\ d = Destino(h.p) /\ d \in FileTags /\ EnObra(w)
         /\ m \in Metadatos /\ m # SinMeta /\ m.estado = "WORK_IN_PROGRESS"
         /\ s \in Seq(Bloques) /\ h.i + 1 \in 1 .. Len(s) /\ h.b = s[h.i + 1]
         /\ \A j \in 1 .. Len(s) : Enlace(d, j - 1, s[j]) \in enlaces
         /\ Vista(d) = Arbol!FileTag("WORK_IN_PROGRESS", Datos(s))
<1>1. Tipos /\ h.p.op = "WRITE" /\ EnObra(w) /\ d \in FileTags /\ d = Destino(h.p) /\ h.i \in Nat
  BY Hechos, Labores DEF Exacto, Enlazado, EnObra, Destino
<1>2. LocalesBien(h) /\ Ubicada(h) /\ Enlazados(d, ListaEnObra(h), Puestos(h))
      /\ (MismaLista(h) => s = h.bloques)
  BY <1>1, Contexto
<1>3. m \in Metadatos /\ m # SinMeta
  BY <1>1, EnObraHechos
<1>4. m.estado = "WORK_IN_PROGRESS" /\ s \in Seq(Bloques)
  <2>1. ConEstado(h, m)
    BY <1>1, Contexto
  <2>2. m.estado # "NINGUNO" /\ m.estado # "COMMITED"
    BY <1>1, <1>2, <1>3, <2>1 DEF LocalesBien, Comiteado, ConEstado, SinConf, SinDir
  <2> QED
    BY <1>3, <2>2 DEF Metadatos, Estados
<1>5. s = h.bloques /\ h.b = s[h.i + 1] /\ h.i < Len(s) /\ ListaEnObra(h) = s /\ Puestos(h) = Nat
  BY <1>1, <1>2 DEF MismaLista, LocalesBien, EnMano, Ubicada, ListaEnObra, Puestos
<1>6. Len(s) \in Nat
  BY <1>4, LenProperties
<1>7. ASSUME NEW j \in 1 .. Len(s) PROVE Enlace(d, j - 1, s[j]) \in enlaces
  <2>1. j - 1 \in 0 .. Len(s) - 1 /\ j - 1 \in Nat /\ (j - 1) + 1 = j
    BY <1>6
  <2> QED
    BY <1>2, <1>5, <2>1 DEF Enlazados
<1>8. Vista(d) = Arbol!FileTag("WORK_IN_PROGRESS", Datos(s))
  BY <1>1, <1>3, <1>4, VistaPropia DEF Oculta, Leidos
<1> QED
  BY <1>1, <1>3, <1>4, <1>5, <1>6, <1>7, <1>8

\* A block with one logical block is written in place: the WRITE of the tree.
LEMMA EnSitioImplementa ==
  ASSUME Exacto, UnWorker, aMedias = {}, NEW w \in Workers, EscribeEnSitio(w)
  PROVE  [Arbol!Next]_Arbolado
<1>1. PICK h, d, m, s, i : h = hebra[w] /\ d = h.p.ft /\ m = meta[d] /\ s = m.bloques /\ i = h.i + 1
  OBVIOUS
<1>2. h.pc = "escribeEnSitio" /\ UNCHANGED meta /\ Responde(w) /\ Tipos
      /\ contenido' = [contenido EXCEPT ![h.b] = h.p.c]
  BY <1>1 DEF EscribeEnSitio, En, Exacto, Enlazado
<1>3. /\ h.p.op = "WRITE" /\ d = Destino(h.p) /\ d \in FileTags /\ EnObra(w)
      /\ m \in Metadatos /\ m # SinMeta /\ m.estado = "WORK_IN_PROGRESS"
      /\ s \in Seq(Bloques) /\ i \in 1 .. Len(s) /\ h.b = s[i]
      /\ \A j \in 1 .. Len(s) : Enlace(d, j - 1, s[j]) \in enlaces
      /\ Vista(d) = Arbol!FileTag("WORK_IN_PROGRESS", Datos(s))
  BY <1>1, <1>2, EnWrite, SMTT(30)
<1>4. \A e \in enlaces : e.b = h.b => e.ft = d /\ e.i = h.i
  BY <1>1, <1>2, <1>3, Contexto DEF LocalesBien
<1>5. h.b \in Bloques /\ h.p.c \in Contenidos /\ h.i \in Nat /\ contenido \in [Bloques -> Contenidos]
      /\ Len(s) \in Nat /\ DOMAIN s = 1 .. Len(s) /\ \A j \in 1 .. Len(s) : s[j] \in Bloques
  <2>1. h.b \in Bloques /\ h.p.c \in Contenidos /\ h.i \in Nat /\ contenido \in [Bloques -> Contenidos]
    BY <1>1, <1>2, Hechos DEF Tipos, TypeOK
  <2> QED
    BY <1>3, <2>1, LenProperties, ElementOfSeq
<1>6. \A j \in 1 .. Len(s) : contenido'[s[j]] = IF j = i THEN h.p.c ELSE contenido[s[j]]
  <2> SUFFICES ASSUME NEW j \in 1 .. Len(s)
               PROVE  contenido'[s[j]] = IF j = i THEN h.p.c ELSE contenido[s[j]]
    OBVIOUS
  <2>1. s[j] = h.b => j - 1 = h.i
    BY <1>3, <1>4 DEF Enlace
  <2>2. s[j] = h.b => j = i
    <3>1. i = h.i + 1 /\ h.i \in Nat /\ j \in Nat
      BY <1>1, <1>5
    <3> QED
      BY <2>1, <3>1
  <2>3. h.b = s[i] /\ s[j] \in Bloques
    BY <1>3, <1>5
  <2> QED
    BY <1>2, <1>5, <2>2, <2>3
<1>7. Datos(s)' = [Datos(s) EXCEPT ![i] = h.p.c] /\ Datos(s) \in Seq(Contenidos)
      /\ i \in DOMAIN Datos(s)
  <2>1. Datos(s) \in Seq(Contenidos) /\ DOMAIN Datos(s) = 1 .. Len(s)
    BY <1>2, <1>3, <1>5, DatosDe DEF Datos
  <2>2. Datos(s)' = [j \in 1 .. Len(s) |-> contenido'[s[j]]]
    BY <1>5 DEF Datos
  <2>3. [Datos(s) EXCEPT ![i] = h.p.c]
          = [j \in 1 .. Len(s) |-> IF j = i THEN h.p.c ELSE contenido[s[j]]]
    BY <1>3, <1>5 DEF Datos
  <2> QED
    BY <1>3, <1>6, <2>1, <2>2, <2>3
<1>8. ~EnObra(w)'
  BY <1>2, RespondeFin
<1>9. Vista(d)' = Arbol!FileTag("WORK_IN_PROGRESS", Datos(s)')
  <2>1. meta'[d] = m
    BY <1>1, <1>2
  <2> QED
    BY <1>1, <1>3, <1>8, <2>1, VistaLibre
<1>10. \A ft \in FileTags : ft # d => Vista(ft)' = Vista(ft)
  <2>1. \A b \in Bloques : contenido'[b] = contenido[b] \/ \A e \in enlaces : e.b = b => e.ft = d
    BY <1>2, <1>4, <1>5
  <2> QED
    BY <1>1, <1>2, <1>3, <1>8, <2>1, AjenasIguales
<1>11. PasoDe(d, Vista(d), Arbol!FileTag("WORK_IN_PROGRESS", [Datos(s) EXCEPT ![i] = h.p.c]))
  BY <1>3, <1>5, <1>7 DEF PasoDe
<1> QED
  BY <1>3, <1>7, <1>9, <1>10, <1>11, PasoDelArbol

\* The copy of a shared block is written while nothing is linked to it.
LEMMA CopiaImplementa ==
  ASSUME Exacto, UnWorker, aMedias = {}, NEW w \in Workers, Escribe(w)
  PROVE  [Arbol!Next]_Arbolado
<1>1. PICK h, d, m, s : h = hebra[w] /\ d = h.p.ft /\ m = meta[d] /\ s = m.bloques
  OBVIOUS
<1>2. h.pc = "escribe" /\ UNCHANGED meta /\ Sigue(w, A("desenlaza")) /\ Tipos
      /\ contenido' = [contenido EXCEPT ![h.nuevo] = h.p.c]
  BY <1>1 DEF Escribe, En, Exacto, Enlazado
<1>3. /\ h.p.op = "WRITE" /\ d = Destino(h.p) /\ d \in FileTags /\ EnObra(w)
      /\ m \in Metadatos /\ m # SinMeta /\ m.estado = "WORK_IN_PROGRESS" /\ s \in Seq(Bloques)
      /\ \A j \in 1 .. Len(s) : Enlace(d, j - 1, s[j]) \in enlaces
      /\ Vista(d) = Arbol!FileTag("WORK_IN_PROGRESS", Datos(s))
  BY <1>1, <1>2, EnWrite
<1>4. \A e \in enlaces : e.b # h.nuevo
  <2>1. CuentaBien(h)
    BY <1>1, <1>3, Contexto
  <2>2. h.nuevo \notin Usados
    BY <1>2, <1>3, <2>1 DEF CuentaBien, Copiado, Dejado, PorEnlazar
  <2> QED
    BY <2>2 DEF Usados
<1>5. contenido \in [Bloques -> Contenidos]
      /\ Len(s) \in Nat /\ DOMAIN s = 1 .. Len(s) /\ \A j \in 1 .. Len(s) : s[j] \in Bloques
  BY <1>2, <1>3, LenProperties, ElementOfSeq DEF Tipos, TypeOK
<1>6. \A j \in DOMAIN s : contenido'[s[j]] = contenido[s[j]]
  <2> SUFFICES ASSUME NEW j \in 1 .. Len(s) PROVE contenido'[s[j]] = contenido[s[j]]
    BY <1>5
  <2>1. Enlace(d, j - 1, s[j]) \in enlaces /\ s[j] \in Bloques
    BY <1>3, <1>5
  <2>2. s[j] # h.nuevo
    BY <1>4, <2>1 DEF Enlace
  <2> QED
    BY <1>2, <1>5, <2>1, <2>2
<1>7. Datos(s)' = Datos(s)
  BY <1>6, DatosIguales
<1>8. PICK k : hebra'[w] = k /\ k.pc = "desenlaza" /\ k.p = h.p
  BY <1>1, <1>2, SoloEtiqueta
<1>9. EnObra(w)' /\ ~Oculta(k) /\ Destino(k.p) = d /\ Leidos(k, m) = s
  BY <1>1, <1>3, <1>8 DEF EnObra, Oculta, Leidos
<1>10. Vista(d)' = Vista(d)
  <2>1. meta'[d] = m
    BY <1>1, <1>2
  <2> QED
    BY <1>3, <1>7, <1>8, <1>9, <2>1, VistaPropiaLuego
<1>11. \A ft \in FileTags : ft # d => Vista(ft)' = Vista(ft)
  <2>1. \A b \in Bloques : contenido'[b] = contenido[b] \/ \A e \in enlaces : e.b = b => e.ft = d
    BY <1>2, <1>4, <1>5
  <2> QED
    BY <1>1, <1>2, <1>3, <1>8, <1>9, <2>1, AjenasIguales
<1> QED
  BY <1>3, <1>10, <1>11, PasoDelArbol DEF PasoDe

-----------------------------------------------------------------------------
(* The Storage implements the tree.                                        *)

\* A restart that cuts no operation short changes no file:tag.
LEMMA ReiniciaImplementa ==
  ASSUME UnWorker, Reinicia, aMedias' = {}
  PROVE  [Arbol!Next]_Arbolado
<1>1. PICK w \in Workers : TRUE
  BY DEF UnWorker
<1>2. ~EnObra(w) /\ ~EnObra(w)' /\ UNCHANGED disco
  <2>1. ~EnObra(w) /\ UNCHANGED disco
    BY DEF Reinicia, DiscoAlReiniciar
  <2>2. hebra'[w] = Ociosa
    BY DEF Reinicia
  <2> QED
    BY <2>1, <2>2 DEF EnObra, Ociosa
<1> QED
  BY <1>2, PasoFuera DEF disco

\* Every step of the Storage is a step of the tree, or shows in no file:tag.
LEMMA PasoImplementa ==
  ASSUME Exacto, UnWorker, aMedias' = {}, [Next]_vars
  PROVE  [Arbol!Next]_Arbolado
<1>1. ASSUME NEW w \in Workers, aMedias = {}, Atiende(w) PROVE [Arbol!Next]_Arbolado
  BY <1>1, AtiendeImplementa, AceptaImplementa DEF Atiende
<1>2. ASSUME NEW w \in Workers, aMedias = {}, Operacion(w) PROVE [Arbol!Next]_Arbolado
  <2>1. CASE \/ MkdirFile(w) \/ MkdirTag(w) \/ Desenlaza(w) \/ Reasigna(w) \/ EnlazaDuplicado(w)
             \/ CalculaHash(w) \/ VeNLink(w) \/ CopiaMeta(w) \/ Relee(w)
    BY <2>1, ObraImplementa
  <2>2. CASE Stat(w) \/ Libera(w) \/ QuitaHash(w) \/ BuscaHash(w) \/ GuardaHash(w)
    BY <1>2, <2>2, LiberaImplementa
  <2>3. CASE \/ CrearMeta(w) \/ GuardaMeta(w) \/ Enlaza(w) \/ GuardaBloques(w) \/ Commitea(w)
             \/ Borra(w)
    BY <1>2, <2>3, CrearMetaImplementa, GuardaMetaImplementa, EnlazaImplementa, GuardaImplementa,
       CommiteaImplementa, BorraImplementa
  <2>4. CASE EscribeEnSitio(w) \/ Escribe(w)
    BY <1>2, <2>4, EnSitioImplementa, CopiaImplementa
  <2>5. CASE BuscaLibre(w) \/ MarcaOcupado(w) \/ Lee(w)
    BY <2>5, LeeImplementa
  <2> QED
    BY <1>2, <2>1, <2>2, <2>3, <2>4, <2>5 DEF Operacion
<1>3. CASE Reinicia
  BY <1>3, ReiniciaImplementa
<1>4. CASE UNCHANGED vars
  <2>1. PICK w \in Workers : TRUE
    BY DEF UnWorker
  <2>2. UNCHANGED <<meta, contenido, hebra>>
    BY <1>4 DEF vars, disco
  <2>3. \A ft : Oculto(w, ft)' <=> Oculto(w, ft)
    BY <2>2 DEF Oculto, Trabaja, EnObra
  <2>4. \A ft : Lista(w, ft)' = Lista(w, ft)
    BY <2>2 DEF Lista, Trabaja, EnObra
  <2> QED
    BY <2>1, <2>2, <2>3, <2>4, PasoQuieto
<1> QED
  BY <1>1, <1>2, <1>3, <1>4 DEF Next

\* The formatted disk is the first tree: initial_file:BASE and nothing else.
LEMMA InicioImplementa ==
  ASSUME UnWorker, Init
  PROVE  Arbolado = [ft \in FileTags |-> IF ft = Base THEN Arbol!FileTag("COMMITED", <<Cero>>)
                                         ELSE SinMeta]
<1>1. PICK w \in Workers : TRUE
  BY DEF UnWorker
<1>2. ~EnObra(w)
  BY DEF Init, EnObra, Ociosa
<1>3. PICK m : m = Meta("COMMITED", <<0>>)
  OBVIOUS
<1>4. m # SinMeta /\ m.estado = "COMMITED" /\ m.bloques = <<0>>
  <2>1. m \in Metadatos
    <3>1. <<0>> \in Seq(Bloques)
      BY StorageAssumption DEF Bloques
    <3>2. "COMMITED" \in Estados
      BY DEF Estados
    <3> QED
      BY <1>3, <3>1, <3>2 DEF Meta, Metadatos
  <2> QED
    BY <1>3, <2>1, StorageAssumption DEF Meta
<1>5. Datos(<<0>>) = <<Cero>>
  <2>1. contenido[0] = Cero
    BY StorageAssumption DEF Init, InitDisco, Bloques
  <2> QED
    BY <2>1 DEF Datos
<1>6. ASSUME NEW ft \in FileTags
      PROVE  Vista(ft) = IF ft = Base THEN Arbol!FileTag("COMMITED", <<Cero>>) ELSE SinMeta
  <2>1. meta[ft] = IF ft = Base THEN m ELSE SinMeta
    BY <1>3 DEF Init, InitDisco
  <2> QED
    BY <1>2, <1>4, <1>5, <2>1, VistaLibre
<1> QED
  BY <1>6 DEF Arbolado

\* No operation is cut short when the Storage is never started again.
SinReinicios == reinicios = 0 /\ aMedias = {}

\* Reinicia never happens, and nothing else adds to aMedias.
LEMMA SinReiniciosSiempre ==
  ASSUME Reinicios = 0
  PROVE  (Init => SinReinicios) /\ (SinReinicios /\ [Next]_vars => SinReinicios')
BY DEF Init, SinReinicios, Next, Reinicia, vars

\* While no operation was cut short, each step of the Storage is one of the
\* tree: a link, a hash, a copy or a share by themselves show in no file:tag.
THEOREM PasosDelArbol ==
  ASSUME UnWorker, ComiteadosQuedan
  PROVE  Spec => [][aMedias' = {} => [Arbol!Next]_Arbolado]_vars
<1>1. Exacto /\ [Next]_vars => (aMedias' = {} => [Arbol!Next]_Arbolado)
  BY PasoImplementa
<1> QED
  BY <1>1, ExactoSiempre, PTL DEF Spec

\* The Storage behaves as if each file:tag had contents of its own, which
\* share no block with those of another.
THEOREM ImplementaElArbolSiempre ==
  ASSUME UnWorker, ComiteadosQuedan, Reinicios = 0
  PROVE  Spec => ImplementaElArbol
<1>1. Init => Arbol!Init
  BY InicioImplementa DEF Arbol!Init, Arbolado
<1>2. Exacto /\ SinReinicios' /\ [Next]_vars => [Arbol!Next]_Arbolado
  BY PasoImplementa DEF SinReinicios
<1>3. (Init => SinReinicios) /\ (SinReinicios /\ [Next]_vars => SinReinicios')
  BY SinReiniciosSiempre
<1> QED
  BY <1>1, <1>2, <1>3, ExactoSiempre, PTL DEF Spec, ImplementaElArbol, Arbol!Spec, Arbolado

\* A step of the tree leaves a committed file:tag as it is, unless it deletes it.
LEMMA ArbolRespeta ==
  ASSUME [Arbol!Next]_Arbolado, NEW ft \in FileTags, NEW antes, NEW despues,
         antes = Arbolado[ft], despues = Arbolado'[ft], antes # SinMeta, despues # SinMeta,
         antes.estado = "COMMITED"
  PROVE  despues = antes
<1>1. CASE UNCHANGED Arbolado
  BY <1>1
<1>2. ASSUME NEW f \in FileTags, Arbol!Crea(f) PROVE despues = antes
  BY <1>2 DEF Arbol!Crea, Arbolado
<1>3. ASSUME NEW f \in FileTags, Arbol!Agrega(f) PROVE despues = antes
  BY <1>3 DEF Arbol!Agrega, Arbol!Editable, Arbolado
<1>4. ASSUME NEW f \in FileTags, Arbol!Recorta(f) PROVE despues = antes
  BY <1>4 DEF Arbol!Recorta, Arbol!Editable, Arbolado
<1>5. ASSUME NEW f \in FileTags, Arbol!Escribe(f) PROVE despues = antes
  BY <1>5 DEF Arbol!Escribe, Arbol!Editable, Arbolado
<1>6. ASSUME NEW f \in FileTags, Arbol!Commitea(f) PROVE despues = antes
  BY <1>6 DEF Arbol!Commitea, Arbol!Editable, Arbolado
<1>7. ASSUME NEW f \in FileTags, Arbol!Borra(f) PROVE despues = antes
  BY <1>7 DEF Arbol!Borra, Arbolado
<1>8. ASSUME NEW f \in FileTags, NEW dst \in FileTags, Arbol!Etiqueta(f, dst)
      PROVE  despues = antes
  BY <1>8 DEF Arbol!Etiqueta, Arbolado
<1> QED
  BY <1>1, <1>2, <1>3, <1>4, <1>5, <1>6, <1>7, <1>8 DEF Arbol!Next, Arbolado

\* No request changes a committed file:tag that is there before and after it:
\* neither one on the file:tag, nor one on another that shares its blocks.
THEOREM CommiteadoIntactoSiempre ==
  ASSUME UnWorker, ComiteadosQuedan, Reinicios = 0
  PROVE  Spec => CommiteadoIntacto
<1>1. ASSUME Exacto, SinReinicios', [Next]_vars
      PROVE  \A ft \in FileTags :
               LET antes == Vista(ft)  despues == Vista(ft)' IN
               (antes # SinMeta /\ despues # SinMeta /\ antes.estado = "COMMITED")
                 => despues = antes
  <2>1. [Arbol!Next]_Arbolado
    BY <1>1, PasoImplementa DEF SinReinicios
  <2>2. \A ft \in FileTags : Arbolado[ft] = Vista(ft) /\ Arbolado'[ft] = Vista(ft)'
    BY DEF Arbolado
  <2> QED
    BY <2>1, <2>2, ArbolRespeta
<1>2. (Init => SinReinicios) /\ (SinReinicios /\ [Next]_vars => SinReinicios')
  BY SinReiniciosSiempre
<1> QED
  BY <1>1, <1>2, ExactoSiempre, PTL DEF Spec, CommiteadoIntacto

=============================================================================
