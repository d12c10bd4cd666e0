--------------------------- MODULE Storage_proofs ---------------------------
(***************************************************************************)
(* What the Storage keeps true for any Workers, file:tags, blocks,         *)
(* contents and requests, however often it ends and starts again: types,   *)
(* the exclusion of the file:tag mutexes, and the links of each file:tag.  *)
(***************************************************************************)
EXTENDS Storage, SequenceTheorems, FiniteSetTheorems, TLAPS

\* The labels each operation goes through once it was accepted.
EtiquetasDe(op) ==
  CASE op = "CREATE" -> {"mkdirFile", "mkdirTag", "crearMeta", "guardaMeta"}
    [] op = "TRUNCATE" -> {"enlaza", "desenlaza", "stat", "libera", "hashLiberado",
                           "quitaHash", "copiaMeta", "guardaBloques"}
    [] op = "TAG" -> {"mkdirTag", "crearMeta", "guardaMeta", "enlaza", "copiaMeta", "guardaBloques"}
    [] op = "COMMIT" -> {"commitea", "relee", "hash", "buscaHash", "rehash", "guardaHash", "reasigna",
                         "enlazaDuplicado", "stat", "libera", "copiaMeta", "guardaBloques"}
    [] op = "WRITE" -> {"nlink", "escribeEnSitio", "buscaLibre", "escribe", "desenlaza", "stat",
                        "libera", "hashLiberado", "quitaHash", "enlaza", "copiaMeta", "guardaBloques",
                        "marca"}
    [] op = "READ" -> {"lee"}
    [] op = "DELETE" -> {"desenlaza", "stat", "libera", "hashLiberado", "quitaHash", "borra"}

\* What the label of a thread says of its request, its mutex and its metadata.
HebraBien(w) == LET h == hebra[w] IN
  /\ h.pc # "espera" => h.p \in Pedidos[w]
  /\ EnObra(w) => h.pc \in EtiquetasDe(h.p.op)
  /\ h.pc \notin {"espera", "candado"} => mutex[h.p.ft] = w
  /\ EnObra(w) /\ h.p.op # "CREATE" => meta[h.p.ft] # SinMeta

Tipos == TypeOK /\ \A w \in Workers : HebraBien(w)

-----------------------------------------------------------------------------
(* The locals of a thread.                                                 *)

\* The fields of the locals of a thread.
LEMMA Campos == DOMAIN Ociosa = {"pc", "p", "bloques", "estado", "i", "b", "nuevo", "hash"}
BY DEF Ociosa

\* A step changes the locals it names and no others.
LEMMA ConTipo ==
  ASSUME NEW h \in Hebra, NEW c,
         "pc" \in DOMAIN c => c["pc"] \in Etiquetas,
         "p" \in DOMAIN c => c["p"] \in Pedido,
         "bloques" \in DOMAIN c => c["bloques"] \in Seq(Bloques),
         "estado" \in DOMAIN c => c["estado"] \in Estados,
         "i" \in DOMAIN c => c["i"] \in Nat,
         "b" \in DOMAIN c => c["b"] \in Bloques,
         "nuevo" \in DOMAIN c => c["nuevo"] \in Bloques,
         "hash" \in DOMAIN c => c["hash"] \in Contenidos
  PROVE  Con(h, c) \in Hebra
BY Campos DEF Con, Hebra

\* Con changes the fields it is given and keeps the others.
LEMMA ConCampos ==
  ASSUME NEW h \in Hebra, NEW c
  PROVE  /\ "pc" \in DOMAIN c => Con(h, c).pc = c["pc"]
         /\ "pc" \notin DOMAIN c => Con(h, c).pc = h.pc
         /\ "p" \in DOMAIN c => Con(h, c).p = c["p"]
         /\ "p" \notin DOMAIN c => Con(h, c).p = h.p
         /\ "bloques" \in DOMAIN c => Con(h, c).bloques = c["bloques"]
         /\ "bloques" \notin DOMAIN c => Con(h, c).bloques = h.bloques
         /\ "estado" \in DOMAIN c => Con(h, c).estado = c["estado"]
         /\ "estado" \notin DOMAIN c => Con(h, c).estado = h.estado
         /\ "i" \in DOMAIN c => Con(h, c).i = c["i"]
         /\ "i" \notin DOMAIN c => Con(h, c).i = h.i
         /\ "b" \in DOMAIN c => Con(h, c).b = c["b"]
         /\ "b" \notin DOMAIN c => Con(h, c).b = h.b
         /\ "nuevo" \in DOMAIN c => Con(h, c).nuevo = c["nuevo"]
         /\ "nuevo" \notin DOMAIN c => Con(h, c).nuevo = h.nuevo
         /\ "hash" \in DOMAIN c => Con(h, c).hash = c["hash"]
         /\ "hash" \notin DOMAIN c => Con(h, c).hash = h.hash
BY Campos DEF Con, Hebra

\* Only the label changes.
LEMMA ConA ==
  ASSUME NEW h \in Hebra, NEW pc \in Etiquetas
  PROVE  Con(h, A(pc)) = [h EXCEPT !.pc = pc] /\ Con(h, A(pc)) \in Hebra
BY Campos DEF Con, A, Hebra

\* An idle thread has well-typed locals.
LEMMA OciosaTipo == Ociosa \in Hebra
BY StorageAssumption DEF Ociosa, Hebra, Etiquetas, Bloques, Estados

-----------------------------------------------------------------------------
(* How a step of a thread keeps HebraBien.                                 *)

\* The thread goes on with its request; no metadata disappears.
LEMMA Avanza ==
  ASSUME Tipos, NEW w \in Workers, NEW h \in Hebra,
         hebra' = [hebra EXCEPT ![w] = h], mutex' = mutex,
         hebra[w].pc \notin {"espera", "candado"},
         h.p = hebra[w].p, h.pc \in EtiquetasDe(h.p.op),
         \A ft \in FileTags : meta[ft] # SinMeta => meta'[ft] # SinMeta,
         h.p.op # "CREATE" => meta'[h.p.ft] # SinMeta
  PROVE  \A v \in Workers : HebraBien(v)'
<1>1. /\ hebra \in [Workers -> Hebra] /\ h.p \in Pedidos[w] /\ mutex[h.p.ft] = w
      /\ h.pc \notin {"espera", "candado", "verifica"}
  <2>1. hebra \in [Workers -> Hebra] /\ h.p \in Pedidos[w] /\ mutex[h.p.ft] = w
    BY DEF Tipos, TypeOK, HebraBien
  <2>2. h.p.op \in Operaciones
    BY <2>1, StorageAssumption DEF Pedido
  <2> QED
    BY <2>1, <2>2 DEF Operaciones, EtiquetasDe
<1>2. HebraBien(w)'
  BY <1>1 DEF HebraBien, EnObra
<1>3. ASSUME NEW v \in Workers, v # w PROVE HebraBien(v)'
  <2>1. hebra'[v] = hebra[v] /\ HebraBien(v)
    BY <1>1, <1>3 DEF Tipos
  <2>2. EnObra(v) => hebra[v].p.ft \in FileTags
    BY <2>1, StorageAssumption DEF HebraBien, EnObra, Pedido
  <2> QED
    BY <2>1, <2>2 DEF HebraBien, EnObra
<1> QED
  BY <1>2, <1>3

\* The thread replies and unlocks; only its metadata may disappear.
LEMMA Termina ==
  ASSUME Tipos, NEW w \in Workers, Responde(w),
         hebra[w].pc \notin {"espera", "candado"},
         \A ft \in FileTags :
           ft # hebra[w].p.ft /\ meta[ft] # SinMeta => meta'[ft] # SinMeta
  PROVE  /\ \A v \in Workers : HebraBien(v)'
         /\ hebra' \in [Workers -> Hebra]
         /\ mutex' \in [FileTags -> Workers \cup {Nadie}]
<1>1. hebra \in [Workers -> Hebra] /\ mutex \in [FileTags -> Workers \cup {Nadie}]
      /\ hebra[w].p \in Pedidos[w] /\ mutex[hebra[w].p.ft] = w /\ hebra[w].p.ft \in FileTags
  BY StorageAssumption DEF Tipos, TypeOK, HebraBien, Pedido
<1>2. hebra' \in [Workers -> Hebra] /\ mutex' \in [FileTags -> Workers \cup {Nadie}]
  BY <1>1, OciosaTipo DEF Responde
<1>3. HebraBien(w)'
  BY <1>1 DEF HebraBien, EnObra, Responde, Ociosa
<1>4. ASSUME NEW v \in Workers, v # w PROVE HebraBien(v)'
  <2>1. hebra'[v] = hebra[v] /\ HebraBien(v)
    BY <1>1, <1>4 DEF Tipos, Responde
  <2>2. CASE hebra[v].pc \in {"espera", "candado"}
    BY <2>1, <2>2 DEF HebraBien, EnObra
  <2>3. CASE hebra[v].pc \notin {"espera", "candado"}
    <3>1. hebra[v].p.ft \in FileTags /\ mutex[hebra[v].p.ft] = v
      BY <2>1, <2>3, StorageAssumption DEF HebraBien, Pedido
    <3>2. mutex'[hebra[v].p.ft] = v /\ hebra[v].p.ft # hebra[w].p.ft
      BY <1>1, <1>4, <3>1 DEF Responde
    <3> QED
      BY <2>1, <2>3, <3>1, <3>2 DEF HebraBien, EnObra
  <2> QED
    BY <2>2, <2>3
<1> QED
  BY <1>2, <1>3, <1>4

\* What the parts of the type invariant say of one thread.
LEMMA Hechos ==
  ASSUME Tipos, NEW w \in Workers
  PROVE  /\ hebra \in [Workers -> Hebra]
         /\ hebra[w] \in Hebra
         /\ hebra[w].bloques \in Seq(Bloques) /\ hebra[w].i \in Nat /\ hebra[w].b \in Bloques
         /\ hebra[w].nuevo \in Bloques /\ hebra[w].hash \in Contenidos
         /\ hebra[w].estado \in Estados
         /\ hebra[w].pc # "espera" =>
              /\ hebra[w].p \in Pedidos[w] /\ hebra[w].p \in Pedido
              /\ hebra[w].p.op \in Operaciones /\ hebra[w].p.ft \in FileTags
              /\ hebra[w].p.dst \in FileTags /\ hebra[w].p.n \in Nat
              /\ hebra[w].p.c \in Contenidos /\ Destino(hebra[w].p) \in FileTags
<1>1. hebra \in [Workers -> Hebra] /\ HebraBien(w)
  BY DEF Tipos, TypeOK
<1>2. hebra[w].pc # "espera" => hebra[w].p \in Pedidos[w] /\ hebra[w].p \in Pedido
  BY <1>1, StorageAssumption DEF HebraBien
<1> QED
  BY <1>1, <1>2 DEF Hebra, Pedido, Destino

\* The operations a label belongs to.
LEMMA Labores ==
  ASSUME Tipos, NEW w \in Workers
  PROVE  LET pc == hebra[w].pc  op == hebra[w].p.op IN
         /\ pc = "mkdirFile" => op = "CREATE"
         /\ pc \in {"mkdirTag", "crearMeta", "guardaMeta"} => op \in {"CREATE", "TAG"}
         /\ pc = "enlaza" => op \in {"TRUNCATE", "TAG", "WRITE"}
         /\ pc = "desenlaza" => op \in {"TRUNCATE", "WRITE", "DELETE"}
         /\ pc \in {"stat", "libera"} => op \in {"TRUNCATE", "COMMIT", "WRITE", "DELETE"}
         /\ pc \in {"hashLiberado", "quitaHash"} => op \in {"TRUNCATE", "WRITE", "DELETE"}
         /\ pc \in {"copiaMeta", "guardaBloques"} => op \in {"TRUNCATE", "TAG", "COMMIT", "WRITE"}
         /\ pc \in {"commitea", "relee", "hash", "buscaHash", "rehash", "guardaHash", "reasigna",
                    "enlazaDuplicado"} => op = "COMMIT"
         /\ pc \in {"nlink", "escribeEnSitio", "buscaLibre", "escribe", "marca"} => op = "WRITE"
         /\ pc = "lee" => op = "READ"
         /\ pc = "borra" => op = "DELETE"
<1>1. CASE EnObra(w)
  <2>1. hebra[w].p.op \in Operaciones /\ hebra[w].pc \in EtiquetasDe(hebra[w].p.op)
    BY <1>1, Hechos DEF Tipos, HebraBien, EnObra
  <2> QED
    BY <2>1 DEF Operaciones, EtiquetasDe
<1>2. CASE ~EnObra(w)
  BY <1>2 DEF EnObra
<1> QED
  BY <1>1, <1>2

\* A thread at work holds the mutex of its file:tag, which has metadata
\* unless the operation is the one that makes it.
LEMMA EnObraHechos ==
  ASSUME Tipos, NEW w \in Workers
  PROVE  /\ hebra[w].pc \notin {"espera", "candado"} => mutex[hebra[w].p.ft] = w
         /\ EnObra(w) => hebra[w].pc \in EtiquetasDe(hebra[w].p.op)
         /\ EnObra(w) /\ hebra[w].p.op # "CREATE" =>
              /\ meta[hebra[w].p.ft] # SinMeta
              /\ meta[hebra[w].p.ft] \in Metadatos
<1>1. HebraBien(w) /\ meta \in [FileTags -> Metadatos \cup {SinMeta}]
  BY DEF Tipos, TypeOK
<1>2. EnObra(w) => hebra[w].p.ft \in FileTags
  BY Hechos DEF EnObra
<1> QED
  BY <1>1, <1>2 DEF HebraBien

-----------------------------------------------------------------------------
(* Types, action by action.                                                *)

\* Well typed changes of the locals of a thread that serves op.
Cambios(c, op) ==
  /\ "pc" \in DOMAIN c /\ c["pc"] \in EtiquetasDe(op)
  /\ "p" \notin DOMAIN c
  /\ "bloques" \in DOMAIN c => c["bloques"] \in Seq(Bloques)
  /\ "estado" \in DOMAIN c => c["estado"] \in Estados
  /\ "i" \in DOMAIN c => c["i"] \in Nat
  /\ "b" \in DOMAIN c => c["b"] \in Bloques
  /\ "nuevo" \in DOMAIN c => c["nuevo"] \in Bloques
  /\ "hash" \in DOMAIN c => c["hash"] \in Contenidos

\* Well-typed changes leave well-typed locals.
LEMMA CambiosTipo ==
  ASSUME NEW h \in Hebra, h.p.op \in Operaciones, NEW c, Cambios(c, h.p.op)
  PROVE  Con(h, c) \in Hebra /\ Con(h, c).p = h.p /\ Con(h, c).pc = c["pc"]
<1>1. c["pc"] \in Etiquetas
  BY DEF Cambios, EtiquetasDe, Operaciones, Etiquetas
<1> QED
  BY <1>1, ConTipo, ConCampos DEF Cambios

\* A step that leaves the disk and the mutexes as they were keeps the types
\* when the new locals are well typed and belong to the request.
LEMMA PasoTipos ==
  ASSUME Tipos, NEW w \in Workers, EnObra(w), NEW c,
         Sigue(w, c), Cambios(c, hebra[w].p.op),
         mutex' = mutex, vivo' = vivo,
         \A ft \in FileTags : meta[ft] # SinMeta => meta'[ft] # SinMeta,
         archivos' \subseteq {ft[1] : ft \in FileTags},
         dirs' \subseteq FileTags,
         meta' \in [FileTags -> Metadatos \cup {SinMeta}],
         enlaces' \subseteq [ft : FileTags, i : Nat, b : Bloques],
         ocupado' \subseteq Bloques,
         contenido' \in [Bloques -> Contenidos],
         indice' \in [Contenidos -> Bloques \cup {-1}]
  PROVE  Tipos'
<1> DEFINE k == Con(hebra[w], c)
<1>1. hebra' = [hebra EXCEPT ![w] = k] /\ hebra \in [Workers -> Hebra]
  BY Hechos DEF Sigue
<1>2. k \in Hebra /\ k.p = hebra[w].p /\ k.pc \in EtiquetasDe(k.p.op)
  BY CambiosTipo, Hechos DEF EnObra, Cambios
<1> HIDE DEF k
<1>3. hebra[w].pc \notin {"espera", "candado"}
  BY DEF EnObra
<1>4. k.p.op # "CREATE" => meta'[k.p.ft] # SinMeta
  BY <1>2, EnObraHechos, Hechos DEF EnObra
<1>5. \A v \in Workers : HebraBien(v)'
  BY <1>1, <1>2, <1>3, <1>4, Avanza
<1>6. TypeOK'
  <2>1. hebra' \in [Workers -> Hebra]
    BY <1>1, <1>2
  <2> QED
    BY <2>1 DEF TypeOK, Tipos
<1> QED
  BY <1>5, <1>6 DEF Tipos

\* The last step of an operation.
LEMMA FinTipos ==
  ASSUME Tipos, NEW w \in Workers, Responde(w),
         hebra[w].pc \notin {"espera", "candado"}, vivo' = vivo,
         \A ft \in FileTags :
           ft # hebra[w].p.ft /\ meta[ft] # SinMeta => meta'[ft] # SinMeta,
         archivos' \subseteq {ft[1] : ft \in FileTags},
         dirs' \subseteq FileTags,
         meta' \in [FileTags -> Metadatos \cup {SinMeta}],
         enlaces' \subseteq [ft : FileTags, i : Nat, b : Bloques],
         ocupado' \subseteq Bloques,
         contenido' \in [Bloques -> Contenidos],
         indice' \in [Contenidos -> Bloques \cup {-1}]
  PROVE  Tipos'
<1>1. /\ \A v \in Workers : HebraBien(v)'
      /\ hebra' \in [Workers -> Hebra]
      /\ mutex' \in [FileTags -> Workers \cup {Nadie}]
  BY Termina
<1>2. TypeOK'
  BY <1>1 DEF TypeOK, Tipos
<1> QED
  BY <1>1, <1>2 DEF Tipos

\* A step that leaves the disk as it was.
LEMMA DiscoTipos ==
  ASSUME Tipos, UNCHANGED disco
  PROVE  /\ archivos' \subseteq {ft[1] : ft \in FileTags}
         /\ dirs' \subseteq FileTags
         /\ meta' \in [FileTags -> Metadatos \cup {SinMeta}]
         /\ enlaces' \subseteq [ft : FileTags, i : Nat, b : Bloques]
         /\ ocupado' \subseteq Bloques
         /\ contenido' \in [Bloques -> Contenidos]
         /\ indice' \in [Contenidos -> Bloques \cup {-1}]
BY DEF Tipos, TypeOK, disco

-----------------------------------------------------------------------------
(* Where an operation goes on.                                             *)

\* The blocks at the places of a list.
LEMMA ListaTipo ==
  ASSUME NEW s \in Seq(Bloques)
  PROVE  /\ Len(s) \in Nat
         /\ \A i \in Nat : i < Len(s) => s[i + 1] \in Bloques
         /\ \A i \in Nat, b \in Bloques : [s EXCEPT ![i + 1] = b] \in Seq(Bloques)
         /\ Append(s, 0) \in Seq(Bloques)
         /\ s # <<>> => s[1] \in Bloques
<1>1. Len(s) \in Nat /\ s \in [1 .. Len(s) -> Bloques]
  BY LenProperties, ElementOfSeq
<1>2. \A i \in Nat : i < Len(s) => s[i + 1] \in Bloques
  BY <1>1
<1>3. ASSUME NEW i \in Nat, NEW b \in Bloques PROVE [s EXCEPT ![i + 1] = b] \in Seq(Bloques)
  <2>1. CASE i + 1 \in 1 .. Len(s)
    BY <2>1, ExceptSeq
  <2>2. CASE i + 1 \notin 1 .. Len(s)
    BY <1>1, <2>2
  <2> QED
    BY <2>1, <2>2
<1>4. 0 \in Bloques
  BY StorageAssumption DEF Bloques
<1>5. Append(s, 0) \in Seq(Bloques)
  BY <1>4, AppendProperties
<1>6. s # <<>> => s[1] \in Bloques
  BY <1>1, EmptySeq
<1> QED
  BY <1>1, <1>2, <1>3, <1>5, <1>6

\* list_remove of the last element.
LEMMA FrenteUltimo ==
  ASSUME NEW s \in Seq(Bloques), Len(s) > 0
  PROVE  /\ Front(s) \in Seq(Bloques) /\ Last(s) \in Bloques
         /\ Len(Front(s)) = Len(s) - 1 /\ Last(s) = s[Len(s)]
         /\ \A k \in 1 .. Len(s) - 1 : Front(s)[k] = s[k]
<1>1. Len(s) \in Nat /\ s \in [1 .. Len(s) -> Bloques]
  BY LenProperties, ElementOfSeq
<1>2. \A k \in 1 .. Len(s) - 1 : s[k] \in Bloques
  BY <1>1
<1> QED
  BY <1>1, <1>2, SubSeqProperties DEF Front, Last

\* The locals after each choice an operation makes are well typed.
LEMMA QuitaUltimoTipo ==
  ASSUME NEW s \in Seq(Bloques), Len(s) > 0, NEW op \in {"TRUNCATE"}
  PROVE  Cambios(QuitaUltimo(s), op)
<1>1. Front(s) \in Seq(Bloques) /\ Last(s) \in Bloques /\ Len(s) - 1 \in Nat
  BY FrenteUltimo, LenProperties
<1> QED
  BY <1>1 DEF QuitaUltimo, Cambios, EtiquetasDe

\* The same, for DELETE.
LEMMA QuitaDesdeTipo ==
  ASSUME NEW s \in Seq(Bloques), NEW i \in Nat
  PROVE  Cambios(QuitaDesde(s, i), "DELETE")
BY ListaTipo DEF QuitaDesde, Cambios, EtiquetasDe, A

\* The same, for COMMIT.
LEMMA RevisaTipo ==
  ASSUME NEW s \in Seq(Bloques), NEW i \in Nat
  PROVE  Cambios(Revisa(s, i), "COMMIT")
BY ListaTipo DEF Revisa, Cambios, EtiquetasDe, A

\* The same, for the first step of each operation.
LEMMA ComienzaTipo ==
  ASSUME NEW p \in Pedido, p.op # "CREATE", NEW s \in Seq(Bloques),
         p.op \in {"WRITE", "READ"} => p.n < Len(s)
  PROVE  Cambios(Comienza(p, s), p.op)
<1>1. p.op \in Operaciones /\ p.n \in Nat
  BY DEF Pedido
<1>2. CASE p.op = "TRUNCATE"
  <2>1. Comienza(p, s) = ComienzaTruncate(s, p.n)
    BY <1>2 DEF Comienza
  <2>2. Len(s) \in Nat /\ 0 \in Bloques
    BY ListaTipo, StorageAssumption DEF Bloques
  <2>3. CASE Len(s) < p.n
    BY <1>2, <2>1, <2>2, <2>3 DEF ComienzaTruncate, Cambios, EtiquetasDe
  <2>4. CASE Len(s) > p.n
    BY <1>1, <1>2, <2>1, <2>2, <2>4, QuitaUltimoTipo DEF ComienzaTruncate
  <2>5. CASE Len(s) = p.n
    BY <1>2, <2>1, <2>2, <2>5 DEF ComienzaTruncate, Cambios, EtiquetasDe, A
  <2> QED
    BY <1>1, <2>2, <2>3, <2>4, <2>5
<1>3. CASE p.op = "TAG"
  BY <1>3 DEF Comienza, Cambios, EtiquetasDe, A
<1>4. CASE p.op = "COMMIT"
  BY <1>4 DEF Comienza, Cambios, EtiquetasDe, A
<1>5. CASE p.op = "WRITE"
  BY <1>1, <1>5, ListaTipo DEF Comienza, Cambios, EtiquetasDe
<1>6. CASE p.op = "READ"
  BY <1>1, <1>6, ListaTipo DEF Comienza, Cambios, EtiquetasDe
<1>7. CASE p.op = "DELETE"
  BY <1>7, QuitaDesdeTipo DEF Comienza
<1> QED
  BY <1>1, <1>2, <1>3, <1>4, <1>5, <1>6, <1>7 DEF Operaciones

\* The same, after a block is left behind.
LEMMA TrasDejarTipo ==
  ASSUME NEW h \in Hebra, h.p \in Pedido, h.p.op \in {"TRUNCATE", "COMMIT", "WRITE", "DELETE"}
  PROVE  Cambios(TrasDejar(h), h.p.op)
<1>1. h.bloques \in Seq(Bloques) /\ h.i \in Nat /\ h.i + 1 \in Nat /\ h.p.n \in Nat
      /\ Len(h.bloques) \in Nat
  BY ListaTipo DEF Hebra, Pedido
<1>2. CASE h.p.op = "TRUNCATE"
  <2>1. CASE Len(h.bloques) > h.p.n
    BY <1>1, <1>2, <2>1, QuitaUltimoTipo DEF TrasDejar
  <2>2. CASE ~(Len(h.bloques) > h.p.n)
    BY <1>1, <1>2, <2>2 DEF TrasDejar, Cambios, EtiquetasDe, A
  <2> QED
    BY <2>1, <2>2
<1>3. CASE h.p.op = "COMMIT"
  BY <1>1, <1>3, RevisaTipo DEF TrasDejar
<1>4. CASE h.p.op = "WRITE"
  BY <1>4 DEF TrasDejar, Cambios, EtiquetasDe, A
<1>5. CASE h.p.op = "DELETE"
  BY <1>1, <1>5, QuitaDesdeTipo DEF TrasDejar
<1> QED
  BY <1>2, <1>3, <1>4, <1>5

\* The same, after a link.
LEMMA TrasEnlazarTipo ==
  ASSUME NEW h \in Hebra, h.p \in Pedido, h.p.op \in {"TRUNCATE", "TAG", "WRITE"}
  PROVE  Cambios(TrasEnlazar(h), h.p.op)
<1>1. h.bloques \in Seq(Bloques) /\ h.i \in Nat /\ h.i + 1 \in Nat /\ h.p.n \in Nat
      /\ h.nuevo \in Bloques
  BY DEF Hebra, Pedido
<1>2. CASE h.p.op = "TRUNCATE"
  BY <1>1, <1>2, ListaTipo DEF TrasEnlazar, Cambios, EtiquetasDe
<1>3. CASE h.p.op = "TAG"
  BY <1>1, <1>3, ListaTipo DEF TrasEnlazar, Cambios, EtiquetasDe, A
<1>4. CASE h.p.op = "WRITE"
  BY <1>1, <1>4, ListaTipo DEF TrasEnlazar, Cambios, EtiquetasDe
<1> QED
  BY <1>2, <1>3, <1>4

-----------------------------------------------------------------------------
(* Types, action by action (continued).                                    *)

\* Constants the steps name.
LEMMA Pcs ==
  ASSUME NEW op, NEW pc \in EtiquetasDe(op)
  PROVE  Cambios(A(pc), op)
BY DEF Cambios, A

\* link and unlink.
LEMMA EnlacesTipo ==
  ASSUME Tipos, NEW ft \in FileTags, NEW i \in Nat, NEW b \in Bloques
  PROVE  /\ ConEnlace(ft, i, b) \subseteq [ft : FileTags, i : Nat, b : Bloques]
         /\ SinEnlace(ft, i) \subseteq [ft : FileTags, i : Nat, b : Bloques]
BY DEF Tipos, TypeOK, ConEnlace, SinEnlace, Enlace

\* fopen and config_save.
LEMMA ConMetaTipo ==
  ASSUME Tipos, NEW ft \in FileTags, NEW m \in Metadatos
  PROVE  /\ ConMeta(ft, m) \in [FileTags -> Metadatos \cup {SinMeta}]
         /\ \A g \in FileTags : meta[g] # SinMeta => ConMeta(ft, m)[g] # SinMeta
BY StorageAssumption DEF Tipos, TypeOK, ConMeta

\* A metadata.config on its way to its ESTADO.
LEMMA MetaTipo ==
  /\ Vacio \in Metadatos
  /\ \A estado \in Estados, s \in Seq(Bloques) : Meta(estado, s) \in Metadatos
  /\ \A m \in Metadatos : m.estado \in Estados /\ m.bloques \in Seq(Bloques)
<1>1. <<>> \in Seq(Bloques)
  BY EmptySeq
<1> QED
  BY <1>1 DEF Vacio, Meta, Metadatos, Estados

\* recibirPaquete.
LEMMA RecibeTipos ==
  ASSUME Tipos, NEW w \in Workers, Recibe(w)
  PROVE  Tipos'
<1>1. PICK p \in Pedidos[w] : Sigue(w, [pc |-> "candado", p |-> p])
  BY DEF Recibe
<1> DEFINE k == Con(hebra[w], [pc |-> "candado", p |-> p])
<1>2. p \in Pedido /\ hebra[w] \in Hebra /\ hebra \in [Workers -> Hebra]
  BY StorageAssumption, Hechos
<1>3. k \in Hebra /\ k.pc = "candado" /\ k.p = p
  BY <1>2, ConTipo, ConCampos DEF Etiquetas
<1>4. hebra' = [hebra EXCEPT ![w] = k]
  BY <1>1 DEF Sigue
<1> HIDE DEF k
<1>5. hebra' \in [Workers -> Hebra] /\ hebra'[w] = k
      /\ \A v \in Workers : v # w => hebra'[v] = hebra[v]
  BY <1>2, <1>3, <1>4
<1>6. UNCHANGED <<disco, mutex, vivo>>
  BY DEF Recibe
<1>7. TypeOK'
  BY <1>5, <1>6, DiscoTipos DEF Tipos, TypeOK
<1>8. \A v \in Workers : HebraBien(v)'
  BY <1>3, <1>5, <1>6 DEF Tipos, HebraBien, EnObra, disco
<1> QED
  BY <1>7, <1>8 DEF Tipos

\* The lock of the file:tag.
LEMMA TomaTipos ==
  ASSUME Tipos, NEW w \in Workers, Toma(w)
  PROVE  Tipos'
<1> DEFINE k == Con(hebra[w], A("verifica"))
<1>1. hebra[w] \in Hebra /\ hebra \in [Workers -> Hebra] /\ hebra[w].pc = "candado"
      /\ hebra[w].p \in Pedidos[w] /\ hebra[w].p.ft \in FileTags
  BY Hechos DEF Toma, En
<1>2. k \in Hebra /\ k = [hebra[w] EXCEPT !.pc = "verifica"]
  BY <1>1, ConA DEF Etiquetas
<1>3. k.pc = "verifica" /\ k.p = hebra[w].p
  BY <1>1, <1>2 DEF Hebra
<1>4. hebra' = [hebra EXCEPT ![w] = k]
  BY DEF Sigue, Toma
<1> HIDE DEF k
<1>5. hebra' \in [Workers -> Hebra] /\ hebra'[w] = k
      /\ \A v \in Workers : v # w => hebra'[v] = hebra[v]
  BY <1>1, <1>2, <1>4
<1>6. mutex[hebra[w].p.ft] = Nadie /\ mutex' = [mutex EXCEPT ![hebra[w].p.ft] = w]
      /\ UNCHANGED <<disco, vivo>> /\ mutex \in [FileTags -> Workers \cup {Nadie}]
  BY DEF Toma, Tipos, TypeOK
<1>7. TypeOK'
  BY <1>1, <1>5, <1>6, DiscoTipos DEF Tipos, TypeOK
<1>8. HebraBien(w)'
  BY <1>1, <1>3, <1>5, <1>6 DEF HebraBien, EnObra
<1>9. ASSUME NEW v \in Workers, v # w PROVE HebraBien(v)'
  <2>1. HebraBien(v) /\ hebra'[v] = hebra[v] /\ meta' = meta
    BY <1>5, <1>6, <1>9 DEF Tipos, disco
  <2>2. hebra[v].pc \notin {"espera", "candado"} =>
          hebra[v].p.ft \in FileTags /\ mutex[hebra[v].p.ft] = v /\ v # Nadie
    BY <2>1, Hechos, StorageAssumption DEF HebraBien
  <2> QED
    BY <1>1, <1>6, <2>1, <2>2 DEF HebraBien, EnObra
<1> QED
  BY <1>7, <1>8, <1>9 DEF Tipos

\* Refused, or nothing to do on the disk.
LEMMA RechazaTipos ==
  ASSUME Tipos, NEW w \in Workers,
         Rechaza(w) \/ Lee(w) \/ (En(w, "buscaLibre") /\ Responde(w) /\ UNCHANGED <<disco, vivo>>)
  PROVE  Tipos'
<1>1. Responde(w) /\ UNCHANGED <<disco, vivo>> /\ hebra[w].pc \notin {"espera", "candado"}
  BY DEF Rechaza, Lee, En
<1>2. \A ft \in FileTags : meta[ft] # SinMeta => meta'[ft] # SinMeta
  BY <1>1 DEF disco
<1> QED
  BY <1>1, <1>2, DiscoTipos, FinTipos

\* iniciar_config on a file that is not there.
LEMMA AbortaTipos ==
  ASSUME Tipos, NEW w \in Workers, AbortaAlLeer(w) \/ AbortaAlGuardar(w)
  PROVE  Tipos'
<1>1. vivo' = FALSE /\ UNCHANGED <<disco, mutex, hebra>>
  BY DEF AbortaAlLeer, AbortaAlGuardar
<1> QED
  BY <1>1, DiscoTipos DEF Tipos, TypeOK, HebraBien, EnObra, disco

\* An operation passes its checks.
LEMMA AceptaTipos ==
  ASSUME Tipos, NEW w \in Workers, Acepta(w)
  PROVE  Tipos'
<1> DEFINE p == hebra[w].p
           s == meta[p.ft].bloques
           e == meta[p.ft].estado
           h == [hebra[w] EXCEPT !.bloques = s, !.estado = e]
<1>1. hebra[w] \in Hebra /\ hebra \in [Workers -> Hebra] /\ hebra[w].pc = "verifica"
      /\ p \in Pedido /\ p.op \in Operaciones /\ p.ft \in FileTags
      /\ UNCHANGED <<disco, mutex, vivo>>
  BY Hechos DEF Acepta, En
<1>2. \E k \in Hebra : /\ hebra' = [hebra EXCEPT ![w] = k]
                       /\ k.p = p /\ k.pc \in EtiquetasDe(p.op)
                       /\ p.op # "CREATE" => meta[p.ft] # SinMeta
  <2>1. CASE p.op = "CREATE" /\ Sigue(w, A("mkdirFile"))
    <3>1. Cambios(A("mkdirFile"), p.op)
      BY <2>1, Pcs DEF EtiquetasDe
    <3> QED
      BY <1>1, <2>1, <3>1, CambiosTipo DEF Sigue, Cambios
  <2>2. CASE /\ LeeMeta(p) /\ Legible(p) /\ MetaBien(p)
             /\ hebra' = [hebra EXCEPT ![w] = Con(h, Comienza(p, s))]
    <3>0. meta[p.ft] # SinMeta
      BY <2>2 DEF Legible
    <3>1. meta[p.ft] \in Metadatos
      BY <1>1, <3>0 DEF Tipos, TypeOK
    <3>2. s \in Seq(Bloques) /\ e \in Estados
      BY <3>1, MetaTipo
    <3>3. h \in Hebra /\ h.p = p
      BY <1>1, <3>2 DEF Hebra
    <3>4. Cambios(Comienza(p, s), p.op)
      <4>1. p.op # "CREATE" /\ (p.op \in {"WRITE", "READ"} => p.n < Len(s))
        BY <2>2 DEF LeeMeta, MetaBien
      <4> HIDE DEF p, s
      <4> QED
        BY <1>1, <3>2, <4>1, ComienzaTipo
    <3> HIDE DEF h
    <3>5. Con(h, Comienza(p, s)) \in Hebra /\ Con(h, Comienza(p, s)).p = p
          /\ Con(h, Comienza(p, s)).pc \in EtiquetasDe(p.op)
      BY <1>1, <3>3, <3>4, CambiosTipo DEF Cambios
    <3> QED
      BY <2>2, <3>0, <3>5
  <2>3. \/ p.op = "CREATE" /\ Sigue(w, A("mkdirFile"))
        \/ /\ LeeMeta(p) /\ Legible(p) /\ MetaBien(p)
           /\ hebra' = [hebra EXCEPT ![w] = Con(h, Comienza(p, s))]
    BY <1>1 DEF Acepta
  <2> QED
    BY <2>1, <2>2, <2>3
<1>3. PICK k \in Hebra : /\ hebra' = [hebra EXCEPT ![w] = k]
                         /\ k.p = p /\ k.pc \in EtiquetasDe(p.op)
                         /\ p.op # "CREATE" => meta[p.ft] # SinMeta
  BY <1>2
<1>4. \A v \in Workers : HebraBien(v)'
  BY <1>1, <1>3, Avanza DEF disco
<1>5. hebra' \in [Workers -> Hebra]
  BY <1>1, <1>3
<1>6. TypeOK'
  BY <1>1, <1>5, DiscoTipos DEF Tipos, TypeOK
<1> QED
  BY <1>4, <1>6 DEF Tipos

\* COMMIT reads its list again.
LEMMA ReleeTipos ==
  ASSUME Tipos, NEW w \in Workers, Relee(w)
  PROVE  Tipos'
<1> DEFINE p == hebra[w].p
           s == meta[p.ft].bloques
           h == [hebra[w] EXCEPT !.bloques = s]
<1>1. hebra[w] \in Hebra /\ hebra \in [Workers -> Hebra] /\ hebra[w].pc = "relee"
      /\ p \in Pedido /\ p.ft \in FileTags /\ p.op = "COMMIT" /\ p.op \in Operaciones
      /\ meta[p.ft] # SinMeta /\ UNCHANGED <<disco, mutex, vivo>>
      /\ hebra' = [hebra EXCEPT ![w] = Con(h, Revisa(s, 0))]
  BY Hechos, Labores DEF Relee, En
<1>2. s \in Seq(Bloques)
  <2>1. meta[p.ft] \in Metadatos
    BY <1>1 DEF Tipos, TypeOK
  <2> QED
    BY <2>1, MetaTipo
<1>3. h \in Hebra /\ h.p = p
  BY <1>1, <1>2 DEF Hebra
<1>4. Cambios(Revisa(s, 0), p.op)
  BY <1>1, <1>2, RevisaTipo
<1> DEFINE k == Con(h, Revisa(s, 0))
<1>5. k \in Hebra /\ k.p = p /\ k.pc \in EtiquetasDe(p.op)
  <2> HIDE DEF h, s
  <2> QED
    BY <1>1, <1>3, <1>4, CambiosTipo DEF Cambios
<1>6. hebra' = [hebra EXCEPT ![w] = k] /\ hebra' \in [Workers -> Hebra]
  BY <1>1, <1>5
<1> HIDE DEF k
<1>7. \A v \in Workers : HebraBien(v)'
  BY <1>1, <1>5, <1>6, Avanza DEF disco
<1>8. TypeOK'
  BY <1>1, <1>6, DiscoTipos DEF Tipos, TypeOK
<1> QED
  BY <1>7, <1>8 DEF Tipos

\* After crear_meta: the end of CREATE, or the first link of TAG.
LEMMA TrasCrearTipos ==
  ASSUME Tipos, NEW w \in Workers, EnObra(w), hebra[w].pc \in {"crearMeta", "guardaMeta"}, TrasCrear(w),
         NEW m \in Metadatos, meta' \in {meta, ConMeta(Destino(hebra[w].p), m)},
         UNCHANGED <<archivos, dirs, enlaces, ocupado, contenido, indice, vivo>>
  PROVE  Tipos'
<1>1. hebra[w].bloques \in Seq(Bloques) /\ Destino(hebra[w].p) \in FileTags
      /\ hebra[w].pc \notin {"espera", "candado"}
  BY Hechos
<1>2. /\ meta' \in [FileTags -> Metadatos \cup {SinMeta}]
      /\ \A ft \in FileTags : meta[ft] # SinMeta => meta'[ft] # SinMeta
  BY <1>1, ConMetaTipo DEF Tipos, TypeOK
<1>3. CASE Responde(w)
  BY <1>1, <1>2, <1>3, FinTipos DEF Tipos, TypeOK
<1>4. CASE hebra[w].p.op = "TAG"
        /\ Sigue(w, IF hebra[w].bloques = <<>> THEN A("copiaMeta")
                    ELSE [pc |-> "enlaza", i |-> 0, nuevo |-> hebra[w].bloques[1]])
        /\ UNCHANGED mutex
  <2>1. CASE hebra[w].bloques = <<>>
    <3>1. Cambios(A("copiaMeta"), hebra[w].p.op)
      BY <1>4, Pcs DEF EtiquetasDe
    <3> QED
      BY <1>2, <1>4, <2>1, <3>1, PasoTipos DEF Tipos, TypeOK
  <2>2. CASE hebra[w].bloques # <<>>
    <3>1. Cambios([pc |-> "enlaza", i |-> 0, nuevo |-> hebra[w].bloques[1]], hebra[w].p.op)
      BY <1>1, <1>4, <2>2, ListaTipo DEF Cambios, EtiquetasDe
    <3> QED
      BY <1>2, <1>4, <2>2, <3>1, PasoTipos DEF Tipos, TypeOK
  <2> QED
    BY <2>1, <2>2
<1> QED
  BY <1>3, <1>4 DEF TrasCrear

\* The directories and the metadata of a new file:tag.
LEMMA CreaTipos ==
  ASSUME Tipos, NEW w \in Workers, MkdirFile(w) \/ MkdirTag(w) \/ CrearMeta(w) \/ GuardaMeta(w)
  PROVE  Tipos'
<1>1. EnObra(w) /\ hebra[w].pc \notin {"espera", "candado"} /\ hebra[w].bloques \in Seq(Bloques)
      /\ hebra[w].p.ft \in FileTags /\ Destino(hebra[w].p) \in FileTags
  BY Hechos DEF MkdirFile, MkdirTag, CrearMeta, GuardaMeta, En, EnObra
<1>2. CASE MkdirFile(w)
  <2>1. Cambios(A("mkdirTag"), hebra[w].p.op)
    BY <1>2, Labores, Pcs DEF MkdirFile, En, EtiquetasDe
  <2> QED
    BY <1>1, <1>2, <2>1, PasoTipos DEF MkdirFile, Tipos, TypeOK
<1>3. CASE MkdirTag(w)
  <2>1. Cambios(A("crearMeta"), hebra[w].p.op)
    BY <1>3, Labores, Pcs DEF MkdirTag, En, EtiquetasDe
  <2> QED
    BY <1>1, <1>3, <2>1, PasoTipos DEF MkdirTag, Tipos, TypeOK
<1>4. CASE CrearMeta(w)
  <2>1. /\ ConMeta(Destino(hebra[w].p), Vacio) \in [FileTags -> Metadatos \cup {SinMeta}]
        /\ \A ft \in FileTags :
             meta[ft] # SinMeta => ConMeta(Destino(hebra[w].p), Vacio)[ft] # SinMeta
    BY <1>1, ConMetaTipo, MetaTipo
  <2>2. CASE Destino(hebra[w].p) \in dirs
    <3>1. Cambios(A("guardaMeta"), hebra[w].p.op)
      BY <1>4, Labores, Pcs DEF CrearMeta, En, EtiquetasDe
    <3> QED
      BY <1>1, <1>4, <2>1, <2>2, <3>1, PasoTipos DEF CrearMeta, Tipos, TypeOK
  <2>3. CASE Destino(hebra[w].p) \notin dirs
    BY <1>1, <1>4, <2>3, MetaTipo, TrasCrearTipos DEF CrearMeta, En
  <2> QED
    BY <2>2, <2>3
<1>5. CASE GuardaMeta(w)
  <2>1. Meta("WORK_IN_PROGRESS", <<>>) \in Metadatos
    BY MetaTipo, EmptySeq DEF Estados
  <2> QED
    BY <1>1, <1>5, <2>1, TrasCrearTipos DEF GuardaMeta, En
<1> QED
  BY <1>2, <1>3, <1>4, <1>5

\* The steps that make a link.
LEMMA EnlazaTipos ==
  ASSUME Tipos, NEW w \in Workers,
         Enlaza(w) \/ Desenlaza(w) \/ Reasigna(w) \/ EnlazaDuplicado(w)
  PROVE  Tipos'
<1> DEFINE h == hebra[w]
<1>1. EnObra(w) /\ h \in Hebra /\ h.p \in Pedido /\ h.p.op \in Operaciones
      /\ h.p.ft \in FileTags /\ Destino(h.p) \in FileTags
      /\ h.i \in Nat /\ h.nuevo \in Bloques /\ h.bloques \in Seq(Bloques)
  BY Hechos DEF Enlaza, Desenlaza, Reasigna, EnlazaDuplicado, En, EnObra
<1>2. enlaces' \subseteq [ft : FileTags, i : Nat, b : Bloques]
  BY <1>1, EnlacesTipo DEF Enlaza, Desenlaza, Reasigna, EnlazaDuplicado
<1>3. UNCHANGED <<archivos, dirs, meta, ocupado, contenido, indice, mutex, vivo>>
  BY DEF Enlaza, Desenlaza, Reasigna, EnlazaDuplicado
<1>4. \E c : Sigue(w, c) /\ Cambios(c, h.p.op)
  <2>1. CASE Enlaza(w)
    BY <1>1, <2>1, Labores, TrasEnlazarTipo DEF Enlaza, En
  <2>2. CASE Desenlaza(w)
    BY <2>2, Labores, Pcs DEF Desenlaza, En, EtiquetasDe
  <2>3. CASE Reasigna(w)
    BY <2>3, Labores, Pcs DEF Reasigna, En, EtiquetasDe
  <2>4. CASE EnlazaDuplicado(w)
    <3>1. h.p.op = "COMMIT"
      BY <2>4, Labores DEF EnlazaDuplicado, En
    <3>2. [h.bloques EXCEPT ![h.i + 1] = h.nuevo] \in Seq(Bloques)
      BY <1>1, ListaTipo
    <3>3. Cambios([pc |-> "stat", bloques |-> [h.bloques EXCEPT ![h.i + 1] = h.nuevo]], h.p.op)
      BY <3>1, <3>2 DEF Cambios, EtiquetasDe
    <3> QED
      BY <2>4, <3>3 DEF EnlazaDuplicado
  <2> QED
    BY <2>1, <2>2, <2>3, <2>4
<1> QED
  BY <1>1, <1>2, <1>3, <1>4, PasoTipos DEF Tipos, TypeOK

\* Steps that go on with the locals they name, over the disk they found.
LEMMA MiraTipos ==
  ASSUME Tipos, NEW w \in Workers,
         Stat(w) \/ CalculaHash(w) \/ BuscaHash(w) \/ VeNLink(w) \/ CopiaMeta(w)
  PROVE  Tipos'
<1> DEFINE h == hebra[w]
<1>1. EnObra(w) /\ h \in Hebra /\ h.p \in Pedido /\ h.p.op \in Operaciones
      /\ h.b \in Bloques /\ h.hash \in Contenidos
  BY Hechos DEF Stat, CalculaHash, BuscaHash, VeNLink, CopiaMeta, En, EnObra
<1>2. UNCHANGED <<disco, mutex, vivo>>
  BY DEF Stat, CalculaHash, BuscaHash, VeNLink, CopiaMeta
<1>3. \E c : Sigue(w, c) /\ Cambios(c, h.p.op)
  <2>1. CASE Stat(w)
    <3>1. h.p.op \in {"TRUNCATE", "COMMIT", "WRITE", "DELETE"}
      BY <2>1, Labores DEF Stat, En
    <3>2. Cambios(TrasDejar(h), h.p.op)
      BY <1>1, <3>1, TrasDejarTipo
    <3>3. Cambios(A("libera"), h.p.op)
      BY <3>1, Pcs DEF EtiquetasDe
    <3> QED
      BY <2>1, <3>2, <3>3 DEF Stat
  <2>2. CASE CalculaHash(w)
    <3>1. PICK paso \in {<<"hash", "buscaHash">>, <<"rehash", "guardaHash">>,
                         <<"hashLiberado", "quitaHash">>} :
            En(w, paso[1]) /\ Sigue(w, [pc |-> paso[2], hash |-> contenido[h.b]])
      BY <2>2 DEF CalculaHash
    <3>2. paso[2] \in EtiquetasDe(h.p.op)
      BY <3>1, Labores DEF En, EtiquetasDe
    <3>3. contenido[h.b] \in Contenidos
      BY <1>1 DEF Tipos, TypeOK
    <3>4. Cambios([pc |-> paso[2], hash |-> contenido[h.b]], h.p.op)
      BY <3>2, <3>3 DEF Cambios
    <3> QED
      BY <3>1, <3>4
  <2>3. CASE BuscaHash(w)
    <3> DEFINE otro == indice[h.hash]
    <3>1. h.p.op = "COMMIT" /\ otro \in Bloques \cup {-1}
      BY <1>1, <2>3, Labores DEF BuscaHash, En, Tipos, TypeOK
    <3>2. Cambios(A("rehash"), h.p.op)
      BY <3>1, Pcs DEF EtiquetasDe
    <3>3. Cambios(TrasDejar(h), h.p.op)
      BY <1>1, <3>1, TrasDejarTipo
    <3>4. otro # -1 => Cambios([pc |-> "reasigna", nuevo |-> otro], h.p.op)
      BY <3>1 DEF Cambios, EtiquetasDe
    <3> QED
      BY <2>3, <3>2, <3>3, <3>4 DEF BuscaHash
  <2>4. CASE VeNLink(w)
    <3>1. h.p.op = "WRITE"
      BY <2>4, Labores DEF VeNLink, En
    <3>2. Cambios(A("escribeEnSitio"), h.p.op) /\ Cambios(A("buscaLibre"), h.p.op)
      BY <3>1, Pcs DEF EtiquetasDe
    <3> QED
      BY <2>4, <3>2 DEF VeNLink
  <2>5. CASE CopiaMeta(w)
    <3> DEFINE m == meta[Destino(h.p)]
    <3>1. Destino(h.p) \in FileTags /\ m # SinMeta /\ Sigue(w, [pc |-> "guardaBloques", estado |-> m.estado])
      BY <1>1, <2>5, Hechos DEF CopiaMeta, EnObra
    <3>2. m.estado \in Estados
      <4>1. m \in Metadatos
        BY <3>1 DEF Tipos, TypeOK
      <4> QED
        BY <4>1, MetaTipo
    <3>3. h.p.op \in {"TRUNCATE", "TAG", "COMMIT", "WRITE"}
      BY <2>5, Labores DEF CopiaMeta, En
    <3> HIDE DEF m
    <3>4. Cambios([pc |-> "guardaBloques", estado |-> m.estado], h.p.op)
      BY <3>2, <3>3 DEF Cambios, EtiquetasDe
    <3> QED
      BY <3>1, <3>4
  <2> QED
    BY <2>1, <2>2, <2>3, <2>4, <2>5
<1> QED
  BY <1>1, <1>2, <1>3, DiscoTipos, PasoTipos DEF disco

\* The bitmap, the index and the contents of the blocks.
LEMMA BloquesTipos ==
  ASSUME Tipos, NEW w \in Workers,
         Libera(w) \/ QuitaHash(w) \/ GuardaHash(w) \/ BuscaLibre(w) \/ Escribe(w)
           \/ EscribeEnSitio(w) \/ MarcaOcupado(w)
  PROVE  Tipos'
<1> DEFINE h == hebra[w]
<1>1. EnObra(w) /\ h \in Hebra /\ h.p \in Pedido /\ h.p.op \in Operaciones
      /\ h.b \in Bloques /\ h.hash \in Contenidos /\ h.nuevo \in Bloques
      /\ h.p.c \in Contenidos /\ h.pc \notin {"espera", "candado"}
  BY Hechos DEF Libera, QuitaHash, GuardaHash, BuscaLibre, Escribe, EscribeEnSitio,
                MarcaOcupado, En, EnObra
<1>2. CASE Libera(w)
  <2>1. h.p.op \in {"TRUNCATE", "COMMIT", "WRITE", "DELETE"}
    BY <1>2, Labores DEF Libera, En
  <2>2. Cambios(TrasDejar(h), h.p.op)
    BY <1>1, <2>1, TrasDejarTipo
  <2>3. h.p.op # "COMMIT" => Cambios(A("hashLiberado"), h.p.op)
    BY <2>1, Pcs DEF EtiquetasDe
  <2>4. \E c : Sigue(w, c) /\ Cambios(c, h.p.op)
    BY <1>2, <2>2, <2>3 DEF Libera
  <2> QED
    BY <1>1, <1>2, <2>4, PasoTipos DEF Libera, Tipos, TypeOK
<1>3. CASE QuitaHash(w)
  <2>1. h.p.op \in {"TRUNCATE", "WRITE", "DELETE"}
    BY <1>3, Labores DEF QuitaHash, En
  <2>2. Cambios(TrasDejar(h), h.p.op)
    BY <1>1, <2>1, TrasDejarTipo
  <2> QED
    BY <1>1, <1>3, <2>2, PasoTipos DEF QuitaHash, Tipos, TypeOK
<1>4. CASE GuardaHash(w)
  <2>1. h.p.op = "COMMIT"
    BY <1>4, Labores DEF GuardaHash, En
  <2>2. Cambios(TrasDejar(h), h.p.op)
    BY <1>1, <2>1, TrasDejarTipo
  <2> QED
    BY <1>1, <1>4, <2>2, PasoTipos DEF GuardaHash, Tipos, TypeOK
<1>5. CASE BuscaLibre(w)
  <2>1. CASE Responde(w)
    BY <1>5, <2>1, RechazaTipos DEF BuscaLibre
  <2>2. CASE \E libre \in Bloques : Sigue(w, [pc |-> "escribe", nuevo |-> libre]) /\ UNCHANGED mutex
    <3>1. PICK libre \in Bloques : Sigue(w, [pc |-> "escribe", nuevo |-> libre])
      BY <2>2
    <3>2. h.p.op = "WRITE"
      BY <1>5, Labores DEF BuscaLibre, En
    <3>3. Cambios([pc |-> "escribe", nuevo |-> libre], h.p.op)
      BY <3>2 DEF Cambios, EtiquetasDe
    <3>4. UNCHANGED disco /\ vivo' = vivo /\ mutex' = mutex
      BY <1>5, <2>2 DEF BuscaLibre
    <3> QED
      BY <1>1, <3>1, <3>3, <3>4, DiscoTipos, PasoTipos DEF disco
  <2> QED
    BY <1>5, <2>1, <2>2 DEF BuscaLibre
<1>6. CASE Escribe(w)
  <2>1. h.p.op = "WRITE"
    BY <1>6, Labores DEF Escribe, En
  <2>2. Cambios(A("desenlaza"), h.p.op)
    BY <2>1, Pcs DEF EtiquetasDe
  <2> QED
    BY <1>1, <1>6, <2>2, PasoTipos DEF Escribe, Tipos, TypeOK
<1>7. CASE EscribeEnSitio(w)
  BY <1>1, <1>7, FinTipos DEF EscribeEnSitio, Tipos, TypeOK
<1>8. CASE MarcaOcupado(w)
  BY <1>1, <1>8, FinTipos DEF MarcaOcupado, Tipos, TypeOK
<1> QED
  BY <1>2, <1>3, <1>4, <1>5, <1>6, <1>7, <1>8

\* The steps that change a metadata.config.
LEMMA MetaTipos ==
  ASSUME Tipos, NEW w \in Workers, GuardaBloques(w) \/ Commitea(w) \/ Borra(w)
  PROVE  Tipos'
<1> DEFINE h == hebra[w]
           d == Destino(h.p)
<1>1. EnObra(w) /\ h \in Hebra /\ h.p \in Pedido /\ h.p.op \in Operaciones
      /\ h.pc \notin {"espera", "candado"} /\ h.bloques \in Seq(Bloques)
      /\ h.p.ft \in FileTags /\ d \in FileTags
      /\ meta \in [FileTags -> Metadatos \cup {SinMeta}]
  BY Hechos DEF GuardaBloques, Commitea, Borra, En, EnObra, Tipos, TypeOK
<1>2. CASE GuardaBloques(w)
  <2>1. /\ meta' \in [FileTags -> Metadatos \cup {SinMeta}]
        /\ \A ft \in FileTags : meta[ft] # SinMeta => meta'[ft] # SinMeta
    <3>1. Meta(h.estado, h.bloques) \in Metadatos
      BY Hechos, MetaTipo
    <3> QED
      BY <1>1, <1>2, <3>1, ConMetaTipo DEF GuardaBloques
  <2>2. CASE Responde(w)
    BY <1>1, <1>2, <2>1, <2>2, FinTipos DEF GuardaBloques, Tipos, TypeOK
  <2>3. CASE h.p.op = "WRITE" /\ Sigue(w, A("marca")) /\ UNCHANGED mutex
    <3>1. Cambios(A("marca"), h.p.op)
      BY <2>3, Pcs DEF EtiquetasDe
    <3> QED
      BY <1>1, <1>2, <2>1, <2>3, <3>1, PasoTipos DEF GuardaBloques, Tipos, TypeOK
  <2> QED
    BY <1>2, <2>2, <2>3 DEF GuardaBloques
<1>3. CASE Commitea(w)
  <2>1. CASE Responde(w) /\ UNCHANGED meta
    BY <1>1, <1>3, <2>1, FinTipos DEF Commitea, Tipos, TypeOK
  <2>2. CASE /\ meta' = ConMeta(h.p.ft, Meta("COMMITED", h.bloques))
             /\ Sigue(w, A("relee"))
             /\ UNCHANGED mutex
    <3>1. h.p.op = "COMMIT"
      BY <1>3, Labores DEF Commitea, En
    <3>3. Meta("COMMITED", h.bloques) \in Metadatos
      BY <1>1, MetaTipo DEF Estados
    <3>4. /\ meta' \in [FileTags -> Metadatos \cup {SinMeta}]
          /\ \A ft \in FileTags : meta[ft] # SinMeta => meta'[ft] # SinMeta
      BY <1>1, <2>2, <3>3, ConMetaTipo
    <3>5. Cambios(A("relee"), h.p.op)
      BY <3>1, Pcs DEF EtiquetasDe
    <3> QED
      BY <1>1, <1>3, <2>2, <3>4, <3>5, PasoTipos DEF Commitea, Tipos, TypeOK
  <2> QED
    BY <1>3, <2>1, <2>2 DEF Commitea
<1>4. CASE Borra(w)
  BY <1>1, <1>4, FinTipos DEF Borra, Tipos, TypeOK
<1> QED
  BY <1>2, <1>3, <1>4

\* The process runs again on the same disk.
LEMMA ReiniciaTipos ==
  ASSUME Tipos, Reinicia
  PROVE  Tipos'
<1>1. UNCHANGED disco /\ mutex' = [ft \in FileTags |-> Nadie] /\ vivo' = TRUE
      /\ hebra' = [w \in Workers |-> Ociosa]
  BY DEF Reinicia, DiscoAlReiniciar
<1>2. TypeOK'
  BY <1>1, DiscoTipos, OciosaTipo DEF TypeOK
<1>3. \A w \in Workers : HebraBien(w)'
  BY <1>1 DEF HebraBien, EnObra, Ociosa
<1> QED
  BY <1>2, <1>3 DEF Tipos

\* A formatted disk and idle threads.
LEMMA InitTipos == Init => Tipos
<1> SUFFICES ASSUME Init PROVE Tipos
  OBVIOUS
<1> USE StorageAssumption DEF Init, InitDisco
<1>1. archivos \subseteq {ft[1] : ft \in FileTags} /\ dirs \subseteq FileTags
      /\ ocupado \subseteq Bloques /\ contenido \in [Bloques -> Contenidos]
      /\ indice \in [Contenidos -> Bloques \cup {-1}]
      /\ enlaces \subseteq [ft : FileTags, i : Nat, b : Bloques]
  BY DEF Bloques, Enlace
<1>2. meta \in [FileTags -> Metadatos \cup {SinMeta}]
  <2>1. 0 \in Bloques
    BY DEF Bloques
  <2>2. <<0>> \in Seq(Bloques)
    BY <2>1
  <2>3. Meta("COMMITED", <<0>>) \in Metadatos
    BY <2>2 DEF Meta, Metadatos, Estados
  <2> QED
    BY <2>3
<1>3. mutex \in [FileTags -> Workers \cup {Nadie}] /\ vivo \in BOOLEAN
      /\ hebra \in [Workers -> Hebra]
  BY OciosaTipo
<1>4. \A w \in Workers : HebraBien(w)
  BY DEF HebraBien, EnObra, Ociosa
<1> QED
  BY <1>1, <1>2, <1>3, <1>4 DEF Tipos, TypeOK

\* Every step keeps the types.
LEMMA NextTipos == Tipos /\ [Next]_vars => Tipos'
<1> SUFFICES ASSUME Tipos, [Next]_vars PROVE Tipos'
  OBVIOUS
<1>1. ASSUME NEW w \in Workers, Atiende(w) PROVE Tipos'
  BY <1>1, RecibeTipos, TomaTipos, RechazaTipos, AceptaTipos, AbortaTipos DEF Atiende
<1>2. ASSUME NEW w \in Workers, Operacion(w) PROVE Tipos'
  BY <1>2, CreaTipos, EnlazaTipos, MiraTipos, BloquesTipos, MetaTipos, ReleeTipos, RechazaTipos DEF Operacion
<1>3. CASE Reinicia
  BY <1>3, ReiniciaTipos
<1>4. CASE UNCHANGED vars
  BY <1>4 DEF Tipos, TypeOK, HebraBien, EnObra, vars, disco
<1> QED
  BY <1>1, <1>2, <1>3, <1>4 DEF Next

\* The types of the Storage: every block a file:tag, a link, the bitmap, the
\* index or a thread names is one of the disk's, and each thread has the
\* locals its label uses.  Tipos is the inductive invariant.
THEOREM TiposCorrectos == Spec => []Tipos
<1> QED
  BY InitTipos, NextTipos, PTL DEF Spec

\* The state of the Storage is well typed at every step and after every restart.
THEOREM TypeCorrect == Spec => []TypeOK
<1>1. Tipos => TypeOK
  BY DEF Tipos
<1> QED
  BY <1>1, TiposCorrectos, PTL

-----------------------------------------------------------------------------
(* Mutual exclusion.                                                       *)

\* No two threads are past the lock of the same file:tag: obtenerMutexFileTag
\* gives all of them one mutex, and only who holds it unlocks it.
Exclusion == \A v, w \in Workers :
  /\ v # w
  /\ hebra[v].pc \notin {"espera", "candado"} /\ hebra[w].pc \notin {"espera", "candado"}
  => hebra[v].p.ft # hebra[w].p.ft

\* Two threads are never inside an operation locked on the same file:tag.
THEOREM UnoPorFileTag == Spec => []Exclusion
<1>1. Tipos => Exclusion
  BY EnObraHechos DEF Exclusion
<1> QED
  BY <1>1, TiposCorrectos, PTL

=============================================================================
