------------------------------ MODULE Storage -------------------------------
(***************************************************************************)
(* The Storage: operaciones.c, metadata.c and the disk primitives of       *)
(* storage.c.  Each Worker has a thread (atenderWorker) that serves one    *)
(* request at a time under the mutex of its file:tag; bitmap, hash index,  *)
(* links and block contents are shared by all of them.                     *)
(*                                                                         *)
(* A step is one access to shared state: one mutex section, or one call on *)
(* a file, a link or a directory.  The last one of an operation goes with  *)
(* the reply and the unlock.  A hash is the content it is computed from.   *)
(* The process may end at any step and be started again on the disk it     *)
(* left (FRESH_START=FALSE).                                               *)
(* A definition marked Slip is a mistake the code does not make.           *)
(***************************************************************************)
EXTENDS Integers, FiniteSets, SequencesExt

CONSTANTS
  Workers,     \* the connected Workers
  FileTags,    \* pairs <<file, tag>>
  Base,        \* initial_file:BASE
  NumBloques,  \* superblock->cantidad_bloques
  Contenidos,  \* what a block may hold
  Cero,        \* the content of a formatted block
  Pedidos,     \* the requests each Worker may make, again and again
  Reinicios,   \* how many times the Storage is started again, at most
  SinMeta,     \* no metadata.config
  Nadie        \* a mutex that is free

Bloques == 0 .. NumBloques - 1

Operaciones == {"CREATE", "TRUNCATE", "TAG", "COMMIT", "WRITE", "READ", "DELETE"}

\* n is the number of blocks of a TRUNCATE and the block of a WRITE or READ.
Pedido == [op : Operaciones, ft : FileTags, dst : FileTags, n : Nat, c : Contenidos]

\* What a metadata.config says (ESTADO, or "NINGUNO" when it has none, and
\* BLOCKS), and what it stands for.
Estados == {"WORK_IN_PROGRESS", "COMMITED", "NINGUNO"}
Metadatos == [estado : Estados, bloques : Seq(Bloques)]
Vistas == [estado : Estados, datos : Seq(Contenidos)]

ASSUME StorageAssumption ==
  /\ NumBloques \in Nat \ {0}
  /\ Base \in FileTags
  /\ Cero \in Contenidos
  /\ Pedidos \in [Workers -> SUBSET Pedido]
  /\ Reinicios \in Nat
  /\ Nadie \notin Workers
  /\ SinMeta \notin Metadatos \cup Vistas

VARIABLES
  archivos,   \* the files that have a directory
  dirs,       \* the file:tags that have a directory
  meta,       \* the metadata.config of each file:tag
  enlaces,    \* the hard links of logical blocks to physical ones
  ocupado,    \* the bits set in the bitmap
  contenido,  \* what each physical block holds
  indice,     \* blocks_hash_index: the block of each hash, or -1
  mutex,      \* diccionarioFileTag: the thread that holds each mutex
  hebra,      \* the label and the local variables of each atenderWorker
  vivo,       \* FALSE after an abort()
  reinicios,  \* how many times it was started again
  aMedias     \* history: the file:tags an operation that died was changing

disco == <<archivos, dirs, meta, enlaces, ocupado, contenido, indice>>
vars == <<disco, mutex, hebra, vivo, reinicios, aMedias>>

-----------------------------------------------------------------------------
(* The disk.                                                               *)

Meta(estado, bloques) == [estado |-> estado, bloques |-> bloques]

\* A metadata.config that was opened and not written yet.
Vacio == Meta("NINGUNO", <<>>)

\* fopen("wb") and config_save do nothing when the directory does not exist.
ConMeta(ft, m) == IF ft \in dirs THEN [meta EXCEPT ![ft] = m] ELSE meta

\* st_nlink of a physical block: its own name and its logical blocks.
NLink(b) == 1 + Cardinality({e \in enlaces : e.b = b})

Enlace(ft, i, b) == [ft |-> ft, i |-> i, b |-> b]
DeLogico(ft, i) == {e \in enlaces : e.ft = ft /\ e.i = i}

\* link() does nothing when the name exists or its directory does not.
ConEnlace(ft, i, b) ==
  IF ft \in dirs /\ DeLogico(ft, i) = {} THEN enlaces \cup {Enlace(ft, i, b)} ELSE enlaces

SinEnlace(ft, i) == enlaces \ DeLogico(ft, i)

\* iniciarFileSystem with FRESH_START.
InitDisco ==
  /\ archivos = {Base[1]}
  /\ dirs = {Base}
  /\ meta = [ft \in FileTags |-> IF ft = Base THEN Meta("COMMITED", <<0>>) ELSE SinMeta]
  /\ enlaces = {Enlace(Base, 0, 0)}
  /\ ocupado = {0}
  /\ contenido = [b \in Bloques |-> Cero]
  /\ indice = [c \in Contenidos |-> IF c = Cero THEN 0 ELSE -1]

-----------------------------------------------------------------------------
(* Threads.                                                                *)

\* pc: what the thread does next; p: its request; bloques: its list of
\* physical blocks; estado: the ESTADO of the t_config it has read; i: the
\* logical block at hand; b: the physical block it leaves; nuevo: the one it
\* takes; hash: the last hash computed.
Ociosa == [pc |-> "espera", p |-> SinMeta, bloques |-> <<>>, estado |-> "NINGUNO", i |-> 0,
           b |-> 0, nuevo |-> 0, hash |-> Cero]

Etiquetas == {"espera", "candado", "verifica", "mkdirFile", "mkdirTag", "crearMeta", "guardaMeta",
  "enlaza", "desenlaza", "stat", "libera", "hashLiberado", "quitaHash", "copiaMeta",
  "guardaBloques", "commitea", "relee", "hash", "buscaHash", "rehash", "guardaHash", "reasigna",
  "enlazaDuplicado", "nlink", "escribeEnSitio", "buscaLibre", "escribe", "marca", "lee", "borra"}

Hebra == [pc : Etiquetas, p : Pedido \cup {SinMeta}, bloques : Seq(Bloques), estado : Estados,
          i : Nat, b : Bloques, nuevo : Bloques, hash : Contenidos]

En(w, pc) == vivo /\ hebra[w].pc = pc

\* The locals h after some of them change.
Con(h, cambios) == [x \in DOMAIN Ociosa |-> IF x \in DOMAIN cambios THEN cambios[x] ELSE h[x]]

Sigue(w, cambios) == hebra' = [hebra EXCEPT ![w] = Con(@, cambios)]

A(pc) == [pc |-> pc]

\* enviarRespuestaAWorker and the unlock.
Responde(w) ==
  /\ hebra' = [hebra EXCEPT ![w] = Ociosa]
  /\ mutex' = [mutex EXCEPT ![hebra[w].p.ft] = Nadie]

\* The file:tag the operation builds.
Destino(p) == IF p.op = "TAG" THEN p.dst ELSE p.ft

Init ==
  /\ InitDisco
  /\ mutex = [ft \in FileTags |-> Nadie]
  /\ hebra = [w \in Workers |-> Ociosa]
  /\ vivo = TRUE
  /\ reinicios = 0 /\ aMedias = {}

\* recibirPaquete.
Recibe(w) ==
  /\ En(w, "espera")
  /\ \E p \in Pedidos[w] : Sigue(w, [pc |-> "candado", p |-> p])
  /\ UNCHANGED <<disco, mutex, vivo>>

\* obtenerMutexFileTag and the lock.
Toma(w) ==
  /\ En(w, "candado") /\ mutex[hebra[w].p.ft] = Nadie
  /\ mutex' = [mutex EXCEPT ![hebra[w].p.ft] = w]
  /\ Sigue(w, A("verifica"))
  /\ UNCHANGED <<disco, vivo>>

-----------------------------------------------------------------------------
(* verificarOperacionesBase.                                               *)

\* The checks of directories, made before any metadata.config is opened.
DirsBien(p) ==
  IF p.op = "CREATE" THEN p.ft[1] \notin archivos
  ELSE /\ p.ft \in dirs
       /\ p.op = "TAG" => p.dst[1] \in archivos /\ p.dst \notin dirs

MetaBien(p) ==
  /\ p.op \in {"TRUNCATE", "WRITE"} => meta[p.ft].estado # "COMMITED"
  /\ p.op \in {"WRITE", "READ"} => p.n < Len(meta[p.ft].bloques)

LeeMeta(p) == DirsBien(p) /\ p.op # "CREATE"

\* The first key the operation asks of the metadata.config is there.  (An
\* empty list saved over a file without ESTADO is taken for an empty file.)
Legible(p) == LET m == meta[p.ft] IN
  /\ m # SinMeta
  /\ IF p.op \in {"TRUNCATE", "COMMIT", "WRITE"} THEN m.estado # "NINGUNO" ELSE m # Vacio

Rechaza(w) == LET p == hebra[w].p IN
  /\ En(w, "verifica")
  /\ ~DirsBien(p) \/ (LeeMeta(p) /\ Legible(p) /\ ~MetaBien(p))
  /\ Responde(w)
  /\ UNCHANGED <<disco, vivo>>

\* iniciar_config aborts the process when the file is not there, and strcmp
\* or string_duplicate ends it when the key is not.
AbortaAlLeer(w) == LET p == hebra[w].p IN
  /\ \/ En(w, "verifica") /\ LeeMeta(p) /\ ~Legible(p)
     \/ En(w, "relee") /\ meta[p.ft] \in {SinMeta, Vacio}
  /\ vivo' = FALSE
  /\ UNCHANGED <<disco, mutex, hebra>>

\* Slip (QuitaUltimo): an index one past the end.
QuitaPasado(bloques) ==
  [pc |-> "desenlaza", bloques |-> Front(bloques), i |-> Len(bloques), b |-> Last(bloques)]

\* The block TRUNCATE and DELETE take off first, and the state that follows.
QuitaUltimo(bloques) ==
  [pc |-> "desenlaza", bloques |-> Front(bloques), i |-> Len(bloques) - 1, b |-> Last(bloques)]

QuitaDesde(bloques, i) ==
  IF i < Len(bloques) THEN [pc |-> "desenlaza", i |-> i, b |-> bloques[i + 1]] ELSE A("borra")

ComienzaTruncate(bloques, n) ==
  IF Len(bloques) < n THEN [pc |-> "enlaza", i |-> Len(bloques), nuevo |-> 0]
  ELSE IF Len(bloques) > n THEN QuitaUltimo(bloques)
  ELSE A("copiaMeta")

\* The first test of each operation.
Comienza(p, bloques) ==
  CASE p.op = "TRUNCATE" -> ComienzaTruncate(bloques, p.n)
    [] p.op = "TAG" -> A("mkdirTag")
    [] p.op = "COMMIT" -> A("commitea")
    [] p.op = "WRITE" -> [pc |-> "nlink", b |-> bloques[p.n + 1], i |-> p.n]
    [] p.op = "READ" -> [pc |-> "lee", b |-> bloques[p.n + 1]]
    [] p.op = "DELETE" -> QuitaDesde(bloques, 0)

\* obtener_bloques_meta, and in a COMMIT the iniciar_config of
\* pasar_estado_commited_meta.
Acepta(w) == LET p == hebra[w].p IN
  /\ En(w, "verifica") /\ DirsBien(p)
  /\ \/ p.op = "CREATE" /\ Sigue(w, A("mkdirFile"))
     \/ /\ LeeMeta(p) /\ Legible(p) /\ MetaBien(p)
        /\ LET m == meta[p.ft] IN
           hebra' = [hebra EXCEPT ![w] = Con([@ EXCEPT !.bloques = m.bloques, !.estado = m.estado],
                                             Comienza(p, m.bloques))]
  /\ UNCHANGED <<disco, mutex, vivo>>

-----------------------------------------------------------------------------
(* CREATE, and the directories of TAG.                                     *)

MkdirFile(w) ==
  /\ En(w, "mkdirFile")
  /\ archivos' = archivos \cup {hebra[w].p.ft[1]}
  /\ Sigue(w, A("mkdirTag"))
  /\ UNCHANGED <<dirs, meta, enlaces, ocupado, contenido, indice, mutex, vivo>>

\* The directory of the tag and its logical_blocks.
MkdirTag(w) ==
  /\ En(w, "mkdirTag")
  /\ dirs' = dirs \cup {Destino(hebra[w].p)}
  /\ Sigue(w, A("crearMeta"))
  /\ UNCHANGED <<archivos, meta, enlaces, ocupado, contenido, indice, mutex, vivo>>

\* After crear_meta: CREATE is done, TAG links its blocks.
TrasCrear(w) == LET bloques == hebra[w].bloques IN
  \/ hebra[w].p.op = "CREATE" /\ Responde(w)
  \/ /\ hebra[w].p.op = "TAG"
     /\ Sigue(w, IF bloques = <<>> THEN A("copiaMeta")
                 ELSE [pc |-> "enlaza", i |-> 0, nuevo |-> bloques[1]])
     /\ UNCHANGED mutex

\* The fopen of crear_meta, which gives up when the directory is gone.
CrearMeta(w) == LET d == Destino(hebra[w].p) IN
  /\ En(w, "crearMeta")
  /\ meta' = ConMeta(d, Vacio)
  /\ IF d \in dirs THEN Sigue(w, A("guardaMeta")) /\ UNCHANGED mutex ELSE TrasCrear(w)
  /\ UNCHANGED <<archivos, dirs, enlaces, ocupado, contenido, indice, vivo>>

\* Its config_save.
GuardaMeta(w) ==
  /\ En(w, "guardaMeta")
  /\ meta' = ConMeta(Destino(hebra[w].p), Meta("WORK_IN_PROGRESS", <<>>))
  /\ TrasCrear(w)
  /\ UNCHANGED <<archivos, dirs, enlaces, ocupado, contenido, indice, vivo>>

-----------------------------------------------------------------------------
(* agregarHardLink and eliminarHardLink, and where each caller goes on.    *)

\* After a link: the next block, or the list is saved.
TrasEnlazar(h) == LET i == h.i + 1 IN
  CASE h.p.op = "TRUNCATE" ->
         [bloques |-> Append(h.bloques, 0), i |-> i,
          pc |-> IF i < h.p.n THEN "enlaza" ELSE "copiaMeta"]
    [] h.p.op = "TAG" ->
         IF i < Len(h.bloques) THEN [pc |-> "enlaza", i |-> i, nuevo |-> h.bloques[i + 1]]
         ELSE A("copiaMeta")
    [] h.p.op = "WRITE" ->
         [pc |-> "copiaMeta", bloques |-> [h.bloques EXCEPT ![h.i + 1] = h.nuevo]]

Enlaza(w) == LET h == hebra[w] IN
  /\ En(w, "enlaza")
  /\ enlaces' = ConEnlace(Destino(h.p), h.i, h.nuevo)
  /\ Sigue(w, TrasEnlazar(h))
  /\ UNCHANGED <<archivos, dirs, meta, ocupado, contenido, indice, mutex, vivo>>

\* COMMIT looks at the next block of its list.
Revisa(bloques, i) ==
  IF i < Len(bloques) THEN [pc |-> "hash", i |-> i, b |-> bloques[i + 1]] ELSE A("copiaMeta")

\* After a block was left behind, freed or not.
TrasDejar(h) ==
  CASE h.p.op = "TRUNCATE" ->
         IF Len(h.bloques) > h.p.n THEN QuitaUltimo(h.bloques) ELSE A("copiaMeta")
    [] h.p.op = "DELETE" -> QuitaDesde(h.bloques, h.i + 1)
    [] h.p.op = "WRITE" -> A("enlaza")
    [] h.p.op = "COMMIT" -> Revisa(h.bloques, h.i + 1)

Desenlaza(w) == LET h == hebra[w] IN
  /\ En(w, "desenlaza")
  /\ enlaces' = SinEnlace(h.p.ft, h.i)
  /\ Sigue(w, A("stat"))
  /\ UNCHANGED <<archivos, dirs, meta, ocupado, contenido, indice, mutex, vivo>>

\* The st_nlink == 1 of eliminarHardLink and of deduplicacionBloque.
Stat(w) == LET h == hebra[w] IN
  /\ En(w, "stat")
  /\ Sigue(w, IF NLink(h.b) = 1 THEN A("libera") ELSE TrasDejar(h))
  /\ UNCHANGED <<disco, mutex, vivo>>

\* liberarBloque; only eliminarHardLink goes on to eliminarHashBloque.
Libera(w) == LET h == hebra[w] IN
  /\ En(w, "libera")
  /\ ocupado' = ocupado \ {h.b}
  /\ Sigue(w, IF h.p.op = "COMMIT" THEN TrasDejar(h) ELSE A("hashLiberado"))
  /\ UNCHANGED <<archivos, dirs, meta, enlaces, contenido, indice, mutex, vivo>>

\* calcularHash, called outside hashIndex_mutex.
CalculaHash(w) == LET h == hebra[w] IN
  /\ \E paso \in {<<"hash", "buscaHash">>, <<"rehash", "guardaHash">>,
                  <<"hashLiberado", "quitaHash">>} :
       En(w, paso[1]) /\ Sigue(w, [pc |-> paso[2], hash |-> contenido[h.b]])
  /\ UNCHANGED <<disco, mutex, vivo>>

\* eliminarHashBloque removes the entry of the content, whatever block it names.
QuitaHash(w) == LET h == hebra[w] IN
  /\ En(w, "quitaHash")
  /\ indice' = [indice EXCEPT ![h.hash] = -1]
  /\ Sigue(w, TrasDejar(h))
  /\ UNCHANGED <<archivos, dirs, meta, enlaces, ocupado, contenido, mutex, vivo>>

\* modificar_bloques_meta reads the whole metadata.config ...
CopiaMeta(w) == LET m == meta[Destino(hebra[w].p)] IN
  /\ En(w, "copiaMeta") /\ m # SinMeta
  /\ Sigue(w, [pc |-> "guardaBloques", estado |-> m.estado])
  /\ UNCHANGED <<disco, mutex, vivo>>

\* ... and writes it back with the new list.
GuardaBloques(w) == LET h == hebra[w] IN
  /\ En(w, "guardaBloques")
  /\ meta' = ConMeta(Destino(h.p), Meta(h.estado, h.bloques))
  /\ IF h.p.op = "WRITE" THEN Sigue(w, A("marca")) /\ UNCHANGED mutex ELSE Responde(w)
  /\ UNCHANGED <<archivos, dirs, enlaces, ocupado, contenido, indice, vivo>>

\* The iniciar_config of crear_meta and of modificar_bloques_meta.
AbortaAlGuardar(w) ==
  /\ En(w, "guardaMeta") \/ En(w, "copiaMeta")
  /\ meta[Destino(hebra[w].p)] = SinMeta
  /\ vivo' = FALSE
  /\ UNCHANGED <<disco, mutex, hebra>>

-----------------------------------------------------------------------------
(* COMMIT.                                                                 *)

\* pasar_estado_commited_meta, once it has read the metadata.config.
Commitea(w) == LET h == hebra[w] IN
  /\ En(w, "commitea")
  /\ IF h.estado = "WORK_IN_PROGRESS"
     THEN /\ meta' = ConMeta(h.p.ft, Meta("COMMITED", h.bloques))
          /\ Sigue(w, A("relee"))
          /\ UNCHANGED mutex
     ELSE Responde(w) /\ UNCHANGED meta
  /\ UNCHANGED <<archivos, dirs, enlaces, ocupado, contenido, indice, vivo>>

\* obtener_bloques_meta.
Relee(w) == LET h == hebra[w]  m == meta[h.p.ft] IN
  /\ En(w, "relee") /\ m \notin {SinMeta, Vacio}
  /\ hebra' = [hebra EXCEPT ![w] = Con([@ EXCEPT !.bloques = m.bloques], Revisa(m.bloques, 0))]
  /\ UNCHANGED <<disco, mutex, vivo>>

\* buscarBloquePorHash: none, this very block, or another one to share.
BuscaHash(w) == LET h == hebra[w]  otro == indice[h.hash] IN
  /\ En(w, "buscaHash")
  /\ Sigue(w, IF otro = -1 THEN A("rehash")
              ELSE IF otro = h.b THEN TrasDejar(h)
              ELSE [pc |-> "reasigna", nuevo |-> otro])
  /\ UNCHANGED <<disco, mutex, vivo>>

\* guardarHashBloque.
GuardaHash(w) == LET h == hebra[w] IN
  /\ En(w, "guardaHash")
  /\ indice' = [indice EXCEPT ![h.hash] = h.b]
  /\ Sigue(w, TrasDejar(h))
  /\ UNCHANGED <<archivos, dirs, meta, enlaces, ocupado, contenido, mutex, vivo>>

\* deduplicacionBloque: unlink, link, and then the stat above.
Reasigna(w) == LET h == hebra[w] IN
  /\ En(w, "reasigna")
  /\ enlaces' = SinEnlace(h.p.ft, h.i)
  /\ Sigue(w, A("enlazaDuplicado"))
  /\ UNCHANGED <<archivos, dirs, meta, ocupado, contenido, indice, mutex, vivo>>

EnlazaDuplicado(w) == LET h == hebra[w] IN
  /\ En(w, "enlazaDuplicado")
  /\ enlaces' = ConEnlace(h.p.ft, h.i, h.nuevo)
  /\ Sigue(w, [pc |-> "stat", bloques |-> [h.bloques EXCEPT ![h.i + 1] = h.nuevo]])
  /\ UNCHANGED <<archivos, dirs, meta, ocupado, contenido, indice, mutex, vivo>>

-----------------------------------------------------------------------------
(* WRITE and READ of a block, and the end of DELETE.                       *)

\* Slip (VeNLink): the physical name is not counted.
VeNLinkDeMas(w) ==
  /\ En(w, "nlink")
  /\ Sigue(w, A(IF NLink(hebra[w].b) <= 3 THEN "escribeEnSitio" ELSE "buscaLibre"))
  /\ UNCHANGED <<disco, mutex, vivo>>

\* A block with one logical block is written in place, a shared one is copied.
VeNLink(w) ==
  /\ En(w, "nlink")
  /\ Sigue(w, A(IF NLink(hebra[w].b) = 2 THEN "escribeEnSitio" ELSE "buscaLibre"))
  /\ UNCHANGED <<disco, mutex, vivo>>

EscribeEnSitio(w) == LET h == hebra[w] IN
  /\ En(w, "escribeEnSitio")
  /\ contenido' = [contenido EXCEPT ![h.b] = h.p.c]
  /\ Responde(w)
  /\ UNCHANGED <<archivos, dirs, meta, enlaces, ocupado, indice, vivo>>

\* Slip (BuscaLibre): the search goes one bit too far.
BuscaLibrePasado(w) == LET libres == (0 .. NumBloques) \ ocupado IN
  /\ En(w, "buscaLibre")
  /\ \E libre \in libres :
       /\ \A otro \in libres : libre <= otro
       /\ Sigue(w, [pc |-> "escribe", nuevo |-> libre])
  /\ UNCHANGED <<disco, mutex, vivo>>

\* buscarBloqueLibre: the first free bit, or ERROR_INSUFICIENTE.
BuscaLibre(w) == LET libres == Bloques \ ocupado IN
  /\ En(w, "buscaLibre")
  /\ \/ libres = {} /\ Responde(w)
     \/ /\ \E libre \in libres :
             /\ \A otro \in libres : libre <= otro
             /\ Sigue(w, [pc |-> "escribe", nuevo |-> libre])
        /\ UNCHANGED mutex
  /\ UNCHANGED <<disco, vivo>>

Escribe(w) == LET h == hebra[w] IN
  /\ En(w, "escribe")
  /\ contenido' = [contenido EXCEPT ![h.nuevo] = h.p.c]
  /\ Sigue(w, A("desenlaza"))
  /\ UNCHANGED <<archivos, dirs, meta, enlaces, ocupado, indice, mutex, vivo>>

\* Slip (MarcaOcupado): the copy is never reserved.
OlvidaMarcar(w) ==
  /\ En(w, "marca")
  /\ Responde(w)
  /\ UNCHANGED <<disco, vivo>>

\* marcarBloqueOcupado, the last step of a copy.
MarcaOcupado(w) == LET h == hebra[w] IN
  /\ En(w, "marca")
  /\ ocupado' = ocupado \cup {h.nuevo}
  /\ Responde(w)
  /\ UNCHANGED <<archivos, dirs, meta, enlaces, contenido, indice, vivo>>

Lee(w) ==
  /\ En(w, "lee")
  /\ Responde(w)
  /\ UNCHANGED <<disco, vivo>>

\* Slip (Borra): the directory outlives its metadata.
BorraSinRmdir(w) ==
  /\ En(w, "borra")
  /\ meta' = [meta EXCEPT ![hebra[w].p.ft] = SinMeta]
  /\ Responde(w)
  /\ UNCHANGED <<archivos, dirs, enlaces, ocupado, contenido, indice, vivo>>

\* remove of the metadata; rmdir removes only empty directories.
Borra(w) == LET ft == hebra[w].p.ft IN
  /\ En(w, "borra")
  /\ meta' = [meta EXCEPT ![ft] = SinMeta]
  /\ dirs' = IF \E e \in enlaces : e.ft = ft THEN dirs ELSE dirs \ {ft}
  /\ Responde(w)
  /\ UNCHANGED <<archivos, enlaces, ocupado, contenido, indice, vivo>>

-----------------------------------------------------------------------------

Atiende(w) ==
  \/ Recibe(w) \/ Toma(w) \/ Rechaza(w) \/ Acepta(w)
  \/ AbortaAlLeer(w) \/ AbortaAlGuardar(w)

Operacion(w) ==
  \/ MkdirFile(w) \/ MkdirTag(w) \/ CrearMeta(w) \/ GuardaMeta(w)
  \/ Enlaza(w) \/ Desenlaza(w) \/ Stat(w) \/ Libera(w)
  \/ CalculaHash(w) \/ QuitaHash(w) \/ CopiaMeta(w) \/ GuardaBloques(w)
  \/ Commitea(w) \/ Relee(w) \/ BuscaHash(w) \/ GuardaHash(w) \/ Reasigna(w) \/ EnlazaDuplicado(w)
  \/ VeNLink(w) \/ EscribeEnSitio(w) \/ BuscaLibre(w) \/ Escribe(w) \/ MarcaOcupado(w)
  \/ Lee(w) \/ Borra(w)

\* The operation changes something.
EnObra(w) == hebra[w].pc \notin {"espera", "candado", "verifica"}

\* Slip (DiscoAlReiniciar): crearBitmap in place of cargarBitmapExistente.
BitmapNuevo == ocupado' = {0} /\ UNCHANGED <<archivos, dirs, meta, enlaces, contenido, indice>>

\* What the new process finds: the bitmap is a shared mapping of its file,
\* index and metadata are saved at every change, and nothing is repaired.
DiscoAlReiniciar == UNCHANGED disco

\* The process ends, killed or by abort(), and main runs again with
\* FRESH_START=FALSE; Workers connect again, diccionarioFileTag is empty.
Reinicia ==
  /\ reinicios < Reinicios
  /\ DiscoAlReiniciar
  /\ mutex' = [ft \in FileTags |-> Nadie]
  /\ hebra' = [w \in Workers |-> Ociosa]
  /\ vivo' = TRUE
  /\ reinicios' = reinicios + 1
  /\ aMedias' = aMedias \cup {Destino(hebra[w].p) : w \in {v \in Workers : EnObra(v)}}

Next ==
  \/ \E w \in Workers : (Atiende(w) \/ Operacion(w)) /\ UNCHANGED <<reinicios, aMedias>>
  \/ Reinicia

Spec == Init /\ [][Next]_vars

-----------------------------------------------------------------------------
(* Properties.                                                             *)

TypeOK ==
  /\ archivos \subseteq {ft[1] : ft \in FileTags}
  /\ dirs \subseteq FileTags
  /\ meta \in [FileTags -> Metadatos \cup {SinMeta}]
  /\ enlaces \subseteq [ft : FileTags, i : Nat, b : Bloques]
  /\ ocupado \subseteq Bloques
  /\ contenido \in [Bloques -> Contenidos]
  /\ indice \in [Contenidos -> Bloques \cup {-1}]
  /\ mutex \in [FileTags -> Workers \cup {Nadie}]
  /\ hebra \in [Workers -> Hebra]
  /\ vivo \in BOOLEAN

Quieto == \A w \in Workers : ~EnObra(w)

\* Between operations the bitmap says which blocks some file:tag uses: none
\* is lost, and none is offered as free while it is linked.  A restart keeps
\* it so, unless the process died in the middle of an operation.
BitmapExacto == (Quieto /\ aMedias = {}) => ocupado = {e.b : e \in enlaces}

\* The hard links of a file:tag nobody works on are the ones its metadata
\* lists, whatever was truncated, shared, copied or deduplicated before; what
\* a crash left halfway in another file:tag does not spread to it.
EnlacesDeLaMeta == \A ft \in FileTags \ aMedias :
  (\A w \in Workers : EnObra(w) => Destino(hebra[w].p) # ft) =>
    {e \in enlaces : e.ft = ft} =
      IF meta[ft] = SinMeta THEN {}
      ELSE {Enlace(ft, k - 1, meta[ft].bloques[k]) : k \in DOMAIN meta[ft].bloques}

\* The Storage aborts (iniciar_config, on a missing metadata.config) only over
\* a file:tag that an operation left halfway when an earlier process died.
SoloAbortaLoAMedias == ~vivo =>
  \E w \in Workers : hebra[w].pc = "verifica" /\ hebra[w].p.ft \in aMedias

\* A block the hash index names holds the content it is named for, so that a
\* COMMIT never takes another content for its own.
IndiceVeraz == \A c \in Contenidos : indice[c] # -1 => contenido[indice[c]] = c

\* What a reader of the file:tag would get.  A TRUNCATE counts block by
\* block, a DELETE when it starts and a TAG when it ends.
Trabaja(w, ft, ops) == EnObra(w) /\ hebra[w].p.op \in ops /\ Destino(hebra[w].p) = ft

SeBorra(ft) == \E w \in Workers : Trabaja(w, ft, {"DELETE"})
SeEtiqueta(ft) == \E w \in Workers :
  Trabaja(w, ft, {"TAG"}) /\ hebra[w].pc \in {"enlaza", "copiaMeta", "guardaBloques"}

ListaDe(ft) ==
  IF \E w \in Workers : Trabaja(w, ft, {"TRUNCATE"})
  THEN hebra[CHOOSE w \in Workers : Trabaja(w, ft, {"TRUNCATE"})].bloques
  ELSE meta[ft].bloques

Vista(ft) ==
  IF meta[ft] = SinMeta \/ meta[ft].estado = "NINGUNO" \/ SeBorra(ft) \/ SeEtiqueta(ft) THEN SinMeta
  ELSE [estado |-> meta[ft].estado,
        datos |-> [k \in DOMAIN ListaDe(ft) |-> contenido[ListaDe(ft)[k]]]]

Arbol == INSTANCE ArbolDeArchivos
  WITH arbol <- [ft \in FileTags |-> Vista(ft)], NoHay <- SinMeta

\* Sharing blocks and copying them on a write shows in no file:tag: the
\* Storage behaves as if each had contents of its own.
ImplementaElArbol == Arbol!Spec

\* "Operacion prohibida sobre file:tag que se encuentra comiteado": while a
\* committed file:tag exists, no request of any Worker changes its contents.
CommiteadoIntacto ==
  [][\A ft \in FileTags :
       LET antes == Vista(ft)  despues == Vista(ft)' IN
       (antes # SinMeta /\ despues # SinMeta /\ antes.estado = "COMMITED")
         => despues = antes]_vars

=============================================================================
