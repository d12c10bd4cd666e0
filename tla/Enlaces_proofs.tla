--------------------------- MODULE Enlaces_proofs ---------------------------
(***************************************************************************)
(* The links of each file:tag are those its metadata lists, and the        *)
(* Storage aborts only over what an earlier process left halfway, for any  *)
(* Workers that leave alone the file:tags the others make with a TAG.      *)
(***************************************************************************)
EXTENDS Storage_proofs

\* A TAG locks its source and not the file:tag it makes (tagFile), so what
\* follows holds when no other Worker names that one.  One Worker alone, or
\* Workers with file:tags of their own, do so; sources may be shared.
DestinosAjenos ==
  \A v, w \in Workers : \A p \in Pedidos[v], q \in Pedidos[w] :
    v # w /\ p.op = "TAG" => q.ft # p.dst /\ (q.op = "TAG" => q.dst # p.dst)

\* The links of ft are the blocks of the list s at the places of P.
Enlazados(ft, s, P) ==
  /\ \A e \in enlaces : e.ft = ft => e.i \in P /\ e.i < Len(s) /\ e.b = s[e.i + 1]
  /\ \A k \in 0 .. Len(s) - 1 : k \in P => Enlace(ft, k, s[k + 1]) \in enlaces

\* The list a thread is turning the links into, and the places it has linked.
\* A TRUNCATE takes the last block off its list before it unlinks it.
ListaEnObra(h) ==
  IF h.p.op = "TRUNCATE" /\ h.pc = "desenlaza" THEN Append(h.bloques, h.b) ELSE h.bloques

Puestos(h) == {k \in Nat :
  /\ h.p.op # "CREATE"
  /\ h.p.op = "TAG" => h.pc \in {"copiaMeta", "guardaBloques"} \/ (h.pc = "enlaza" /\ k < h.i)
  /\ h.p.op = "COMMIT" /\ h.pc = "enlazaDuplicado" => k # h.i
  /\ h.p.op = "WRITE" /\ h.pc \in {"stat", "libera", "hashLiberado", "quitaHash", "enlaza"}
       => k # h.i
  /\ h.p.op = "DELETE" => h.pc # "borra" /\ (k > h.i \/ (h.pc = "desenlaza" /\ k = h.i))}

\* The place at hand: past the end of the list, or inside it.
Ubicada(h) ==
  /\ h.p.op = "TRUNCATE" /\ h.pc \in {"enlaza", "desenlaza"} => h.i = Len(h.bloques)
  /\ h.p.op = "TRUNCATE" /\ h.pc = "enlaza" => h.nuevo = 0
  /\ h.p.op = "TAG" /\ h.pc = "enlaza" => h.i < Len(h.bloques) /\ h.nuevo = h.bloques[h.i + 1]
  /\ h.p.op = "COMMIT" /\ h.pc \notin {"commitea", "relee", "copiaMeta", "guardaBloques"}
       => h.i < Len(h.bloques)
  /\ h.p.op = "WRITE" => h.i < Len(h.bloques)
  /\ h.p.op = "DELETE" /\ h.pc # "borra" => h.i < Len(h.bloques)

\* The threads whose list is still the one in the metadata.
MismaLista(h) ==
  \/ h.p.op \in {"TAG", "READ", "DELETE"}
  \/ h.p.op = "COMMIT" /\ h.pc \in {"commitea", "relee"}
  \/ h.p.op = "WRITE" /\ h.pc \notin {"copiaMeta", "guardaBloques"}

SinDir(h) == h.pc \in {"mkdirFile", "mkdirTag"}
SinConf(h) == SinDir(h) \/ h.pc = "crearMeta"

\* An ESTADO in every metadata.config that was saved, and in the copy of it
\* that modificar_bloques_meta writes back; m is the one of the file:tag built.
ConEstado(h, m) ==
  /\ ~SinConf(h) /\ h.pc # "guardaMeta" => m.estado # "NINGUNO"
  /\ h.pc = "guardaBloques" => h.estado # "NINGUNO"

\* The labels that follow a step that found the directory or the metadata.
Labrada(h, d) ==
  /\ ~SinDir(h) => d \in dirs
  /\ h.pc = "guardaMeta" => meta[d] # SinMeta
  /\ h.pc = "relee" => meta[d].estado # "NINGUNO"

ObraBien(w) == LET h == hebra[w]  d == Destino(h.p) IN
  EnObra(w) =>
    /\ Ubicada(h)
    /\ MismaLista(h) => meta[h.p.ft].bloques = h.bloques
    /\ h.pc = "mkdirTag" => d[1] \in archivos
    /\ Labrada(h, d)
    /\ h.p.op = "TAG" =>
         h.p.ft # d /\ (h.pc \in {"enlaza", "copiaMeta", "guardaBloques"} => meta[d] # SinMeta)
    /\ d \notin aMedias =>
         /\ Enlazados(d, ListaEnObra(h), Puestos(h))
         /\ d \in dirs <=> ~SinDir(h)
         /\ SinConf(h) => meta[d] = SinMeta
         /\ ConEstado(h, meta[d])

\* A file:tag nobody works on and no crash left halfway.
Reposa(ft) ==
  /\ ft \in FileTags \ aMedias
  /\ \A w \in Workers : EnObra(w) => Destino(hebra[w].p) # ft

EnReposo(ft) ==
  /\ ft \in dirs <=> meta[ft] # SinMeta
  /\ meta[ft] = SinMeta => \A e \in enlaces : e.ft # ft
  /\ meta[ft] # SinMeta =>
       Enlazados(ft, meta[ft].bloques, Nat) /\ meta[ft].estado # "NINGUNO"

Enlazado ==
  /\ Tipos
  /\ \A ft \in dirs : ft[1] \in archivos
  /\ \A ft \in FileTags : Reposa(ft) => EnReposo(ft)
  /\ \A w \in Workers : ObraBien(w)
  /\ SoloAbortaLoAMedias

-----------------------------------------------------------------------------
(* What a step of one thread leaves alone.                                 *)

\* A thread past the lock builds a file:tag that no other thread at work
\* builds or reads.
LEMMA Distintos ==
  ASSUME Tipos, DestinosAjenos, NEW v \in Workers, NEW w \in Workers, v # w,
         EnObra(v), hebra[w].pc \notin {"espera", "candado"}
  PROVE  /\ Destino(hebra[v].p) # Destino(hebra[w].p)
         /\ hebra[v].p.ft # Destino(hebra[w].p)
         /\ Destino(hebra[v].p) # hebra[w].p.ft
<1>1. hebra[v].p \in Pedidos[v] /\ hebra[w].p \in Pedidos[w]
  BY Hechos DEF EnObra
<1>2. hebra[v].p.ft # hebra[w].p.ft
  BY EnObraHechos DEF EnObra
<1> QED
  BY <1>1, <1>2 DEF DestinosAjenos, Destino

\* The part of the disk that is not about ft.
Ajeno(ft) == \A otro \in FileTags : otro # ft =>
  /\ meta'[otro] = meta[otro]
  /\ otro \in dirs' <=> otro \in dirs
  /\ \A e : e.ft = otro => (e \in enlaces' <=> e \in enlaces)

\* What a step leaves alone stays linked.
LEMMA Marco ==
  ASSUME Enlazado, DestinosAjenos, NEW w \in Workers,
         hebra[w].pc \notin {"espera", "candado"},
         \A v \in Workers \ {w} : hebra'[v] = hebra[v],
         Ajeno(Destino(hebra[w].p)), archivos \subseteq archivos', aMedias' = aMedias
  PROVE  /\ \A v \in Workers \ {w} : ObraBien(v)'
         /\ \A ft \in FileTags :
              ft # Destino(hebra[w].p) /\ Reposa(ft)' => EnReposo(ft)'
<1> DEFINE d == Destino(hebra[w].p)
<1>1. ASSUME NEW ft \in FileTags, ft # d, NEW s, NEW P
      PROVE  Enlazados(ft, s, P) => Enlazados(ft, s, P)'
  BY <1>1 DEF Ajeno, Enlazados, Enlace
<1>2. ASSUME NEW v \in Workers \ {w} PROVE ObraBien(v)'
  <2> DEFINE h == hebra[v]
  <2> SUFFICES ASSUME EnObra(v)' PROVE ObraBien(v)'
    BY DEF ObraBien
  <2>1. EnObra(v) /\ hebra'[v] = h /\ Tipos /\ ObraBien(v)
    BY DEF EnObra, Enlazado
  <2>2. Destino(h.p) # d /\ h.p.ft # d /\ h.p.ft \in FileTags /\ Destino(h.p) \in FileTags
    BY <2>1, Distintos, Hechos DEF EnObra
  <2>3. meta'[h.p.ft] = meta[h.p.ft] /\ meta'[Destino(h.p)] = meta[Destino(h.p)]
        /\ (Destino(h.p) \in dirs' <=> Destino(h.p) \in dirs)
    BY <2>2 DEF Ajeno
  <2>4. Enlazados(Destino(h.p), ListaEnObra(h), Puestos(h)) =>
          Enlazados(Destino(h.p), ListaEnObra(h), Puestos(h))'
    BY <1>1, <2>1, <2>2
  <2>5. Labrada(h, Destino(h.p)) => Labrada(h, Destino(h.p))'
    BY <2>1, <2>3 DEF Labrada
  <2> QED
    BY <2>1, <2>3, <2>4, <2>5 DEF ObraBien
<1>3. ASSUME NEW ft \in FileTags, ft # d, Reposa(ft)' PROVE EnReposo(ft)'
  <2>1. Reposa(ft)
    BY <1>3 DEF Reposa, EnObra
  <2>2. EnReposo(ft) /\ meta'[ft] = meta[ft] /\ (ft \in dirs' <=> ft \in dirs)
    BY <1>3, <2>1 DEF Enlazado, Ajeno
  <2>3. (\A e \in enlaces : e.ft # ft) => (\A e \in enlaces' : e.ft # ft)
    BY <1>3 DEF Ajeno
  <2> QED
    BY <1>1, <1>3, <2>2, <2>3 DEF EnReposo
<1> QED
  BY <1>2, <1>3

\* The thread goes on with the operation.
LEMMA PasoEnlazado ==
  ASSUME Enlazado, Tipos', DestinosAjenos, NEW w \in Workers,
         hebra[w].pc \notin {"espera", "candado"}, EnObra(w)',
         \A v \in Workers \ {w} : hebra'[v] = hebra[v], hebra'[w].p = hebra[w].p,
         Ajeno(Destino(hebra[w].p)), archivos \subseteq archivos', aMedias' = aMedias, vivo',
         \A ft \in dirs' : ft[1] \in archivos',
         ObraBien(w)'
  PROVE  Enlazado'
<1>1. \A v \in Workers : ObraBien(v)'
  BY Marco
<1>2. ASSUME NEW ft \in FileTags, Reposa(ft)' PROVE EnReposo(ft)'
  <2>1. ft # Destino(hebra[w].p)
    BY <1>2 DEF Reposa
  <2> QED
    BY <1>2, <2>1, Marco
<1> QED
  BY <1>1, <1>2 DEF Enlazado, SoloAbortaLoAMedias

\* The thread replies.
LEMMA FinEnlazado ==
  ASSUME Enlazado, Tipos', DestinosAjenos, NEW w \in Workers,
         hebra[w].pc \notin {"espera", "candado"}, Responde(w),
         Ajeno(Destino(hebra[w].p)), archivos \subseteq archivos', aMedias' = aMedias, vivo',
         \A ft \in dirs' : ft[1] \in archivos',
         \A ft \in FileTags : ft = Destino(hebra[w].p) /\ Reposa(ft)' => EnReposo(ft)'
  PROVE  Enlazado'
<1>1. hebra'[w] = Ociosa /\ \A v \in Workers \ {w} : hebra'[v] = hebra[v]
  BY Hechos DEF Responde, Enlazado
<1>2. ObraBien(w)'
  BY <1>1 DEF ObraBien, EnObra, Ociosa
<1>3. \A v \in Workers : ObraBien(v)'
  BY <1>1, <1>2, Marco
<1>4. \A ft \in FileTags : Reposa(ft)' => EnReposo(ft)'
  BY <1>1, Marco
<1> QED
  BY <1>3, <1>4 DEF Enlazado, SoloAbortaLoAMedias

-----------------------------------------------------------------------------
(* Steps that touch neither directories nor metadata nor links.            *)

\* The locals k stand for the same links as h.
Equivale(h, k) ==
  /\ k.p = h.p /\ Ubicada(k) /\ ListaEnObra(k) = ListaEnObra(h)
  /\ \A j \in 0 .. Len(ListaEnObra(h)) - 1 : j \in Puestos(k) <=> j \in Puestos(h)
  /\ MismaLista(k) => MismaLista(h) /\ k.bloques = h.bloques
  /\ {h.pc, k.pc} \cap {"espera", "candado", "verifica", "mkdirFile", "mkdirTag", "crearMeta",
                        "guardaMeta"} = {}
  /\ k.pc \notin {"guardaBloques", "relee"}
  /\ h.p.op # "TAG"

\* The list an operation works on is a list of blocks.
LEMMA ListaEnObraTipo ==
  ASSUME NEW h \in Hebra
  PROVE  ListaEnObra(h) \in Seq(Bloques) /\ Len(ListaEnObra(h)) \in Nat
<1>1. h.bloques \in Seq(Bloques) /\ h.b \in Bloques
  BY DEF Hebra
<1> QED
  BY <1>1, AppendProperties, LenProperties DEF ListaEnObra

\* Enlazados depends only on the places inside the list.
LEMMA EnlazadosIgual ==
  ASSUME NEW ft, NEW s, Len(s) \in Nat, NEW P, NEW Q,
         \A e \in enlaces : e.i \in Nat,
         \A j \in 0 .. Len(s) - 1 : j \in Q <=> j \in P,
         Enlazados(ft, s, P)
  PROVE  Enlazados(ft, s, Q)
BY DEF Enlazados

\* What a link is made of.
LEMMA EnlacesDeNat ==
  ASSUME Tipos, NEW e \in enlaces
  PROVE  /\ e.ft \in FileTags /\ e.i \in Nat /\ e.b \in Bloques
         /\ e = Enlace(e.ft, e.i, e.b)
BY DEF Tipos, TypeOK, Enlace

\* A step that touches neither the disk nor what the operation knows of it.
LEMMA SinTocar ==
  ASSUME Enlazado, Tipos', DestinosAjenos, NEW w \in Workers, NEW k \in Hebra,
         hebra' = [hebra EXCEPT ![w] = k], Equivale(hebra[w], k),
         UNCHANGED <<archivos, dirs, meta, enlaces, aMedias>>, vivo'
  PROVE  Enlazado'
<1> DEFINE h == hebra[w]
           d == Destino(h.p)
<1>1. h \in Hebra /\ hebra \in [Workers -> Hebra] /\ EnObra(w)
      /\ hebra[w].pc \notin {"espera", "candado"}
  BY Hechos DEF Equivale, EnObra, Enlazado
<1>2. hebra'[w] = k /\ \A v \in Workers \ {w} : hebra'[v] = hebra[v]
  BY <1>1
<1>3. EnObra(w)' /\ k.p = h.p
  BY <1>2 DEF EnObra, Equivale
<1>4. Ajeno(d)
  BY DEF Ajeno
<1>5. ObraBien(w)'
  <2>1. ObraBien(w)
    BY DEF Enlazado
  <2>2. Enlazados(d, ListaEnObra(h), Puestos(h)) => Enlazados(d, ListaEnObra(k), Puestos(k))
    BY <1>1, ListaEnObraTipo, EnlacesDeNat, EnlazadosIgual DEF Equivale, Enlazado
  <2>3. Enlazados(d, ListaEnObra(k), Puestos(k)) => Enlazados(Destino(k.p), ListaEnObra(k), Puestos(k))'
    <3>1. \A s, P : Enlazados(d, s, P) => \A ft : ft = d => Enlazados(ft, s, P)'
      BY DEF Enlazados
    <3> QED
      BY <1>3, <3>1
  <2>4. ~SinDir(k) /\ ~SinDir(h) /\ ~SinConf(k) /\ ~SinConf(h)
    BY DEF SinDir, SinConf, Equivale
  <2>5. Labrada(h, d) => \A ft : ft = d => Labrada(k, ft)'
    BY <2>4 DEF Labrada, Equivale
  <2>6. ConEstado(h, meta[d]) => \A ft : ft = d => ConEstado(k, meta[ft])'
    BY <2>4 DEF ConEstado, Equivale
  <2> QED
    BY <1>1, <1>2, <1>3, <2>1, <2>2, <2>3, <2>4, <2>5, <2>6 DEF ObraBien, Equivale
<1>6. \A ft \in dirs' : ft[1] \in archivos'
  BY DEF Enlazado
<1> QED
  BY <1>1, <1>2, <1>3, <1>4, <1>5, <1>6, PasoEnlazado

\* Nothing changed, and the links are those of the list in the metadata.
LEMMA FinSinTocar ==
  ASSUME Enlazado, Tipos', DestinosAjenos, NEW w \in Workers, EnObra(w), Responde(w),
         MismaLista(hebra[w]), hebra[w].p.op # "TAG", hebra[w].p.op # "CREATE",
         ListaEnObra(hebra[w]) = hebra[w].bloques, Puestos(hebra[w]) = Nat,
         ~SinConf(hebra[w]), hebra[w].pc # "guardaMeta",
         UNCHANGED <<archivos, dirs, meta, enlaces, aMedias>>, vivo'
  PROVE  Enlazado'
<1> DEFINE d == Destino(hebra[w].p)
<1>1. Ajeno(d)
  BY DEF Ajeno
<1>2. ASSUME NEW ft \in FileTags, ft = d, Reposa(ft)' PROVE EnReposo(ft)'
  <2>1. ft \notin aMedias /\ ft = hebra[w].p.ft
    BY <1>2 DEF Reposa, Destino
  <2>2. ObraBien(w) /\ meta[ft] # SinMeta
    BY <2>1, EnObraHechos DEF Enlazado
  <2>3. Enlazados(ft, meta[ft].bloques, Nat) /\ ft \in dirs /\ meta[ft].estado # "NINGUNO"
    BY <1>2, <2>1, <2>2 DEF ObraBien, SinConf, ConEstado
  <2> QED
    BY <2>2, <2>3 DEF EnReposo, Enlazados
<1>3. \A ft \in dirs' : ft[1] \in archivos'
  BY DEF Enlazado
<1> QED
  BY <1>1, <1>2, <1>3, FinEnlazado DEF EnObra

\* Before an operation begins and when it is refused.
LEMMA SinObra ==
  ASSUME Enlazado, Tipos', NEW w \in Workers, ~EnObra(w), ~EnObra(w)',
         \A v \in Workers \ {w} : hebra'[v] = hebra[v],
         UNCHANGED <<archivos, dirs, meta, enlaces, aMedias>>, SoloAbortaLoAMedias'
  PROVE  Enlazado'
<1>1. \A v \in Workers : EnObra(v)' => EnObra(v) /\ hebra'[v] = hebra[v]
  BY DEF EnObra
<1>2. \A v \in Workers : EnObra(v) => EnObra(v)' /\ hebra'[v] = hebra[v]
  BY DEF EnObra
<1>3. ASSUME NEW v \in Workers PROVE ObraBien(v)'
  BY <1>1 DEF ObraBien, Enlazado, Enlazados, Labrada
<1>4. ASSUME NEW ft \in FileTags, Reposa(ft)' PROVE EnReposo(ft)'
  <2>1. Reposa(ft)
    BY <1>2, <1>4 DEF Reposa
  <2> QED
    BY <2>1 DEF Enlazado, EnReposo, Enlazados
<1> QED
  BY <1>3, <1>4 DEF Enlazado

\* Receiving, locking and rejecting touch no link.
LEMMA AtiendeEnlazado ==
  ASSUME Enlazado, Tipos', NEW w \in Workers,
         Recibe(w) \/ Toma(w) \/ Rechaza(w), aMedias' = aMedias
  PROVE  Enlazado'
<1>1. hebra[w] \in Hebra /\ hebra \in [Workers -> Hebra] /\ vivo /\ vivo' = vivo
      /\ UNCHANGED disco
  BY Hechos DEF Enlazado, Recibe, Toma, Rechaza, En
<1>2. PICK k : hebra' = [hebra EXCEPT ![w] = k] /\ k.pc \in {"espera", "candado", "verifica"}
  <2>1. CASE Recibe(w)
    <3>1. PICK p \in Pedidos[w] : Sigue(w, [pc |-> "candado", p |-> p])
      BY <2>1 DEF Recibe
    <3>2. Con(hebra[w], [pc |-> "candado", p |-> p]).pc = "candado"
      BY <1>1, ConCampos
    <3> QED
      BY <3>1, <3>2 DEF Sigue
  <2>2. CASE Toma(w)
    <3>1. Con(hebra[w], A("verifica")) = [hebra[w] EXCEPT !.pc = "verifica"]
      BY <1>1, ConA DEF Etiquetas
    <3>2. Con(hebra[w], A("verifica")).pc = "verifica"
      BY <1>1, <3>1 DEF Hebra
    <3>3. hebra' = [hebra EXCEPT ![w] = Con(hebra[w], A("verifica"))]
      BY <2>2 DEF Sigue, Toma
    <3> QED
      BY <3>2, <3>3
  <2>3. CASE Rechaza(w)
    <3>1. hebra' = [hebra EXCEPT ![w] = Ociosa]
      BY <2>3 DEF Rechaza, Responde
    <3>2. Ociosa.pc = "espera"
      BY DEF Ociosa
    <3> QED
      BY <3>1, <3>2
  <2> QED
    BY <2>1, <2>2, <2>3
<1>3. ~EnObra(w) /\ ~EnObra(w)' /\ \A v \in Workers \ {w} : hebra'[v] = hebra[v]
  BY <1>1, <1>2 DEF Recibe, Toma, Rechaza, En, EnObra
<1> QED
  BY <1>1, <1>3, SinObra DEF disco, SoloAbortaLoAMedias

\* iniciar_config finds no metadata.config: the file:tag was left halfway, or
\* it would have one, for no other thread can be building it.
LEMMA AbortaEnlazado ==
  ASSUME Enlazado, DestinosAjenos, Tipos', NEW w \in Workers,
         AbortaAlLeer(w) \/ AbortaAlGuardar(w), aMedias' = aMedias
  PROVE  Enlazado'
<1>1. UNCHANGED <<disco, mutex, hebra>> /\ ~vivo'
  BY DEF AbortaAlLeer, AbortaAlGuardar
<1>2. CASE AbortaAlLeer(w)
  <2> DEFINE p == hebra[w].p
  <2>1. CASE En(w, "relee")
    <3>1. EnObra(w) /\ hebra[w].p.op = "COMMIT" /\ Destino(p) = p.ft
      BY <2>1, Labores DEF En, EnObra, Enlazado, Destino
    <3>2. meta[p.ft] # SinMeta /\ meta[p.ft].estado # "NINGUNO"
      BY <2>1, <3>1, EnObraHechos DEF Enlazado, ObraBien, Labrada, En
    <3> QED
      BY <1>2, <2>1, <3>2 DEF AbortaAlLeer, En, Vacio, Meta
  <2>2. CASE ~En(w, "relee")
    <3>1. hebra[w].pc = "verifica" /\ p.ft \in FileTags /\ p.ft \in dirs /\ ~Legible(p)
      BY <1>2, <2>2, Hechos DEF AbortaAlLeer, En, LeeMeta, DirsBien, Enlazado
    <3>2. ASSUME p.ft \notin aMedias PROVE FALSE
      <4>1. \A v \in Workers : EnObra(v) => Destino(hebra[v].p) # p.ft
        BY <3>1, Distintos DEF EnObra, Enlazado
      <4>2. EnReposo(p.ft)
        BY <3>1, <3>2, <4>1 DEF Enlazado, Reposa
      <4>3. meta[p.ft] # SinMeta /\ meta[p.ft].estado # "NINGUNO"
        BY <3>1, <4>2 DEF EnReposo
      <4> QED
        BY <3>1, <4>3 DEF Legible, Vacio, Meta
    <3>3. SoloAbortaLoAMedias'
      BY <1>1, <3>1, <3>2 DEF SoloAbortaLoAMedias
    <3>4. ~EnObra(w) /\ ~EnObra(w)'
      BY <1>1, <3>1 DEF EnObra
    <3> QED
      BY <1>1, <3>3, <3>4, SinObra DEF disco
  <2> QED
    BY <2>1, <2>2
<1>3. CASE AbortaAlGuardar(w)
  <2> DEFINE h == hebra[w]
  <2>1. h.pc \in {"guardaMeta", "copiaMeta"} /\ EnObra(w) /\ meta[Destino(h.p)] = SinMeta
    BY <1>3 DEF AbortaAlGuardar, En, EnObra
  <2>2. CASE h.pc = "guardaMeta"
    BY <2>1, <2>2 DEF Enlazado, ObraBien, Labrada
  <2>3. CASE h.pc = "copiaMeta" /\ h.p.op = "TAG"
    BY <2>1, <2>3 DEF Enlazado, ObraBien
  <2>4. CASE h.pc = "copiaMeta" /\ h.p.op # "TAG"
    <3>1. h.p.op # "CREATE"
      BY <2>4, Labores DEF Enlazado
    <3> QED
      BY <2>1, <2>4, <3>1, EnObraHechos DEF Enlazado, Destino
  <2> QED
    BY <2>1, <2>2, <2>3, <2>4
<1> QED
  BY <1>2, <1>3

\* A restart: no thread works, and what was being built is left halfway.
LEMMA ReiniciaEnlazado ==
  ASSUME Enlazado, Tipos', Reinicia
  PROVE  Enlazado'
<1>1. UNCHANGED disco /\ vivo' = TRUE /\ hebra' = [w \in Workers |-> Ociosa]
      /\ aMedias' = aMedias \cup {Destino(hebra[w].p) : w \in {v \in Workers : EnObra(v)}}
  BY DEF Reinicia, DiscoAlReiniciar
<1>2. \A w \in Workers : ObraBien(w)'
  BY <1>1 DEF ObraBien, EnObra, Ociosa
<1>3. ASSUME NEW ft \in FileTags, Reposa(ft)' PROVE EnReposo(ft)'
  <2>1. Reposa(ft)
    BY <1>1, <1>3 DEF Reposa
  <2> QED
    BY <1>1, <2>1 DEF Enlazado, EnReposo, Enlazados, disco
<1> QED
  BY <1>1, <1>2, <1>3 DEF Enlazado, SoloAbortaLoAMedias, disco

\* Reads, and writes of blocks whose file:tag keeps its list.
LEMMA QuietosEnlazado ==
  ASSUME Enlazado, DestinosAjenos, Tipos', NEW w \in Workers,
         \/ EscribeEnSitio(w) \/ MarcaOcupado(w) \/ Lee(w)
         \/ BuscaLibre(w) /\ Responde(w)
         \/ Commitea(w) /\ Responde(w) /\ UNCHANGED meta,
         aMedias' = aMedias
  PROVE  Enlazado'
<1> DEFINE h == hebra[w]
<1>1. UNCHANGED <<archivos, dirs, meta, enlaces>> /\ vivo' /\ Responde(w)
      /\ h.pc \in {"escribeEnSitio", "marca", "lee", "buscaLibre", "commitea"}
  BY DEF EscribeEnSitio, MarcaOcupado, Lee, BuscaLibre, Commitea, En, disco
<1>2. EnObra(w) /\ ~SinConf(h) /\ h.pc # "guardaMeta" /\ h.p.op \in {"WRITE", "READ", "COMMIT"}
  BY <1>1, Labores DEF EnObra, SinDir, SinConf, Enlazado
<1>3. /\ h.pc \in {"escribeEnSitio", "marca", "buscaLibre"} => h.p.op = "WRITE"
      /\ h.pc = "lee" => h.p.op = "READ"
      /\ h.pc = "commitea" => h.p.op = "COMMIT"
  BY Labores DEF Enlazado
<1>4. MismaLista(h) /\ ListaEnObra(h) = h.bloques /\ Puestos(h) = Nat
  BY <1>1, <1>3 DEF MismaLista, ListaEnObra, Puestos
<1> QED
  BY <1>1, <1>2, <1>4, FinSinTocar

-----------------------------------------------------------------------------
(* Where an operation goes on: the same links, told by the next label.     *)

\* The list without its last block.
LEMMA UltimoAlFrente ==
  ASSUME NEW s \in Seq(Bloques), Len(s) > 0
  PROVE  Append(Front(s), Last(s)) = s
<1>1. Front(s) \in Seq(Bloques) /\ Last(s) \in Bloques /\ Len(Front(s)) = Len(s) - 1
      /\ Last(s) = s[Len(s)] /\ \A k \in 1 .. Len(s) - 1 : Front(s)[k] = s[k]
  BY FrenteUltimo
<1> DEFINE t == Append(Front(s), Last(s))
<1>2. /\ t \in Seq(Bloques) /\ Len(t) = Len(Front(s)) + 1
      /\ \A k \in 1 .. Len(Front(s)) : t[k] = Front(s)[k]
      /\ t[Len(Front(s)) + 1] = Last(s)
  BY <1>1, AppendProperties
<1> HIDE DEF t
<1>3. Len(s) \in Nat
  BY LenProperties
<1>4. Len(t) = Len(s) /\ \A k \in 1 .. Len(s) : t[k] = s[k]
  BY <1>1, <1>2, <1>3
<1>5. t = s
  BY <1>2, <1>4, SeqEqual
<1> QED
  BY <1>5 DEF t

\* TRUNCATE takes the last block off the list: it is still linked.
LEMMA QuitaUltimoUbica ==
  ASSUME NEW h \in Hebra, h.p.op = "TRUNCATE", Len(h.bloques) > 0
  PROVE  LET k == Con(h, QuitaUltimo(h.bloques)) IN
         /\ k.p = h.p /\ k.pc = "desenlaza" /\ Ubicada(k)
         /\ ListaEnObra(k) = h.bloques /\ Puestos(k) = Nat /\ ~MismaLista(k)
<1> DEFINE k == Con(h, QuitaUltimo(h.bloques))
<1>1. h.bloques \in Seq(Bloques) /\ Len(h.bloques) \in Nat
  BY LenProperties DEF Hebra
<1>2. k.p = h.p /\ k.pc = "desenlaza" /\ k.bloques = Front(h.bloques)
      /\ k.i = Len(h.bloques) - 1 /\ k.b = Last(h.bloques)
  BY ConCampos DEF QuitaUltimo
<1> HIDE DEF k
<1>3. Len(k.bloques) = k.i
  BY <1>1, <1>2, FrenteUltimo
<1>4. Append(k.bloques, k.b) = h.bloques
  BY <1>1, <1>2, UltimoAlFrente
<1>5. Ubicada(k) /\ ListaEnObra(k) = h.bloques /\ Puestos(k) = Nat /\ ~MismaLista(k)
  BY <1>2, <1>3, <1>4 DEF Ubicada, ListaEnObra, Puestos, MismaLista
<1> QED
  BY <1>2, <1>5 DEF k

\* After a block was left.
LEMMA TrasDejarEquivale ==
  ASSUME NEW h \in Hebra, h.p \in Pedido, Ubicada(h),
         \/ h.p.op \in {"TRUNCATE", "WRITE", "DELETE"} /\ h.pc \in {"stat", "libera", "quitaHash"}
         \/ h.p.op = "COMMIT" /\ h.pc \in {"stat", "libera", "buscaHash", "guardaHash"}
  PROVE  Equivale(h, Con(h, TrasDejar(h)))
<1> DEFINE k == Con(h, TrasDejar(h))
<1>1. h.bloques \in Seq(Bloques) /\ Len(h.bloques) \in Nat /\ h.i \in Nat /\ h.p.n \in Nat
  BY LenProperties DEF Hebra, Pedido
<1>2. CASE h.p.op = "TRUNCATE"
  <2>1. ListaEnObra(h) = h.bloques /\ Puestos(h) = Nat /\ h.pc \in {"stat", "libera", "quitaHash"}
    BY <1>2 DEF ListaEnObra, Puestos
  <2>2. CASE Len(h.bloques) > h.p.n
    <3>1. k = Con(h, QuitaUltimo(h.bloques)) /\ Len(h.bloques) > 0
      BY <1>1, <1>2, <2>2 DEF TrasDejar
    <3>2. k.p = h.p /\ k.pc = "desenlaza" /\ Ubicada(k)
          /\ ListaEnObra(k) = h.bloques /\ Puestos(k) = Nat /\ ~MismaLista(k)
      BY <1>2, <3>1, QuitaUltimoUbica
    <3> HIDE DEF k
    <3>3. Equivale(h, k)
      BY <1>2, <2>1, <3>2 DEF Equivale
    <3> QED
      BY <3>3 DEF k
  <2>3. CASE ~(Len(h.bloques) > h.p.n)
    <3>1. k.p = h.p /\ k.pc = "copiaMeta" /\ k.bloques = h.bloques
      BY <1>2, <2>3, ConCampos DEF TrasDejar, A
    <3> HIDE DEF k
    <3>2. Equivale(h, k)
      BY <1>2, <2>1, <3>1 DEF Equivale, Ubicada, ListaEnObra, Puestos, MismaLista
    <3> QED
      BY <3>2 DEF k
  <2> QED
    BY <2>2, <2>3
<1>3. CASE h.p.op = "WRITE"
  <2>1. k.p = h.p /\ k.pc = "enlaza" /\ k.bloques = h.bloques /\ k.i = h.i
    BY <1>3, ConCampos DEF TrasDejar, A
  <2> HIDE DEF k
  <2>2. Equivale(h, k)
    BY <1>3, <2>1 DEF Equivale, Ubicada, ListaEnObra, Puestos, MismaLista
  <2> QED
    BY <2>2 DEF k
<1>4. CASE h.p.op = "COMMIT"
  <2>1. CASE h.i + 1 < Len(h.bloques)
    <3>1. k.p = h.p /\ k.pc = "hash" /\ k.bloques = h.bloques /\ k.i = h.i + 1
      BY <1>4, <2>1, ConCampos DEF TrasDejar, Revisa
    <3> HIDE DEF k
    <3>2. Equivale(h, k)
      BY <1>4, <2>1, <3>1 DEF Equivale, Ubicada, ListaEnObra, Puestos, MismaLista
    <3> QED
      BY <3>2 DEF k
  <2>2. CASE ~(h.i + 1 < Len(h.bloques))
    <3>1. k.p = h.p /\ k.pc = "copiaMeta" /\ k.bloques = h.bloques
      BY <1>4, <2>2, ConCampos DEF TrasDejar, Revisa, A
    <3> HIDE DEF k
    <3>2. Equivale(h, k)
      BY <1>4, <3>1 DEF Equivale, Ubicada, ListaEnObra, Puestos, MismaLista
    <3> QED
      BY <3>2 DEF k
  <2> QED
    BY <2>1, <2>2
<1>5. CASE h.p.op = "DELETE"
  <2>1. h.i < Len(h.bloques)
    BY <1>5 DEF Ubicada
  <2>2. CASE h.i + 1 < Len(h.bloques)
    <3>1. k.p = h.p /\ k.pc = "desenlaza" /\ k.bloques = h.bloques /\ k.i = h.i + 1
      BY <1>5, <2>2, ConCampos DEF TrasDejar, QuitaDesde
    <3> HIDE DEF k
    <3>2. Equivale(h, k)
      BY <1>1, <1>5, <2>2, <3>1 DEF Equivale, Ubicada, ListaEnObra, Puestos, MismaLista
    <3> QED
      BY <3>2 DEF k
  <2>3. CASE ~(h.i + 1 < Len(h.bloques))
    <3>1. k.p = h.p /\ k.pc = "borra" /\ k.bloques = h.bloques /\ k.i = h.i
      BY <1>5, <2>3, ConCampos DEF TrasDejar, QuitaDesde, A
    <3> HIDE DEF k
    <3>2. Equivale(h, k)
      BY <1>1, <1>5, <2>1, <2>3, <3>1 DEF Equivale, Ubicada, ListaEnObra, Puestos, MismaLista
    <3> QED
      BY <3>2 DEF k
  <2> QED
    BY <2>2, <2>3
<1> QED
  BY <1>2, <1>3, <1>4, <1>5

\* The steps that change only locals, bitmap, index or contents.
LEMMA LocalesEnlazado ==
  ASSUME Enlazado, DestinosAjenos, Tipos', NEW w \in Workers,
         \/ Stat(w) \/ Libera(w) \/ CalculaHash(w) \/ QuitaHash(w) \/ BuscaHash(w)
         \/ GuardaHash(w) \/ VeNLink(w) \/ Escribe(w) \/ (BuscaLibre(w) /\ UNCHANGED mutex),
         aMedias' = aMedias
  PROVE  Enlazado'
<1> DEFINE h == hebra[w]
<1>1. h \in Hebra /\ EnObra(w) /\ h.p \in Pedido /\ h.p.op \in Operaciones /\ Ubicada(h)
      /\ h.bloques \in Seq(Bloques) /\ h.i \in Nat
  BY Hechos, SMTT(30) DEF Enlazado, ObraBien, EnObra, Stat, Libera, CalculaHash, QuitaHash, BuscaHash,
     GuardaHash, VeNLink, Escribe, BuscaLibre, En
<1>2. UNCHANGED <<archivos, dirs, meta, enlaces, aMedias>> /\ vivo'
  BY DEF Stat, Libera, CalculaHash, QuitaHash, BuscaHash, GuardaHash, VeNLink, Escribe,
     BuscaLibre, En, disco
<1>3. \E c : Sigue(w, c) /\ Equivale(h, Con(h, c))
  <2>1. CASE Sigue(w, TrasDejar(h)) /\ (Stat(w) \/ Libera(w) \/ QuitaHash(w) \/ BuscaHash(w)
                                          \/ GuardaHash(w))
    <3>1. \/ h.p.op \in {"TRUNCATE", "WRITE", "DELETE"} /\ h.pc \in {"stat", "libera", "quitaHash"}
          \/ h.p.op = "COMMIT" /\ h.pc \in {"stat", "libera", "buscaHash", "guardaHash"}
      BY <2>1, Labores DEF Stat, Libera, QuitaHash, BuscaHash, GuardaHash, En, Enlazado
    <3> QED
      BY <1>1, <2>1, <3>1, TrasDejarEquivale
  <2>2. CASE \E pc \in {"libera", "hashLiberado", "rehash", "escribeEnSitio", "buscaLibre", "desenlaza"} :
               /\ Sigue(w, A(pc))
               /\ pc = "libera" => h.pc = "stat"
               /\ pc = "hashLiberado" => h.pc = "libera" /\ h.p.op # "COMMIT"
               /\ pc = "rehash" => h.pc = "buscaHash"
               /\ pc \in {"escribeEnSitio", "buscaLibre"} => h.pc = "nlink"
               /\ pc = "desenlaza" => h.pc = "escribe"
    <3>1. PICK pc \in {"libera", "hashLiberado", "rehash", "escribeEnSitio", "buscaLibre", "desenlaza"} :
            /\ Sigue(w, A(pc))
            /\ pc = "libera" => h.pc = "stat"
            /\ pc = "hashLiberado" => h.pc = "libera" /\ h.p.op # "COMMIT"
            /\ pc = "rehash" => h.pc = "buscaHash"
            /\ pc \in {"escribeEnSitio", "buscaLibre"} => h.pc = "nlink"
            /\ pc = "desenlaza" => h.pc = "escribe"
      BY <2>2
    <3> DEFINE k == Con(h, A(pc))
    <3>2. k.pc = pc /\ k.p = h.p /\ k.bloques = h.bloques /\ k.i = h.i /\ k.b = h.b
          /\ k.nuevo = h.nuevo
      BY <1>1, ConCampos DEF A
    <3> HIDE DEF k
    <3>3. /\ h.pc \in {"stat", "libera"} => h.p.op \in {"TRUNCATE", "COMMIT", "WRITE", "DELETE"}
          /\ h.pc = "buscaHash" => h.p.op = "COMMIT"
          /\ h.pc \in {"nlink", "escribe"} => h.p.op = "WRITE"
      BY Labores DEF Enlazado
    <3>4. Equivale(h, k)
      BY <1>1, <3>1, <3>2, <3>3 DEF Equivale, Ubicada, ListaEnObra, Puestos, MismaLista
    <3> QED
      BY <3>1, <3>4 DEF k
  <2>3. CASE CalculaHash(w)
    <3>1. PICK paso \in {<<"hash", "buscaHash">>, <<"rehash", "guardaHash">>,
                         <<"hashLiberado", "quitaHash">>} :
            En(w, paso[1]) /\ Sigue(w, [pc |-> paso[2], hash |-> contenido[h.b]])
      BY <2>3 DEF CalculaHash
    <3> DEFINE k == Con(h, [pc |-> paso[2], hash |-> contenido[h.b]])
    <3>2. k.pc = paso[2] /\ k.p = h.p /\ k.bloques = h.bloques /\ k.i = h.i /\ k.b = h.b
          /\ k.nuevo = h.nuevo
      BY <1>1, ConCampos
    <3> HIDE DEF k
    <3>3. h.pc = paso[1]
      BY <3>1 DEF En
    <3>4. \/ h.pc = "hash" /\ k.pc = "buscaHash" /\ h.p.op = "COMMIT"
          \/ h.pc = "rehash" /\ k.pc = "guardaHash" /\ h.p.op = "COMMIT"
          \/ h.pc = "hashLiberado" /\ k.pc = "quitaHash" /\ h.p.op \in {"TRUNCATE", "WRITE", "DELETE"}
      BY <3>1, <3>2, <3>3, Labores DEF Enlazado
    <3>5. Equivale(h, k)
      BY <1>1, <3>2, <3>4 DEF Equivale, Ubicada, ListaEnObra, Puestos, MismaLista
    <3> QED
      BY <3>1, <3>5 DEF k
  <2>4. CASE BuscaHash(w) /\ Sigue(w, [pc |-> "reasigna", nuevo |-> indice[h.hash]])
    <3> DEFINE k == Con(h, [pc |-> "reasigna", nuevo |-> indice[h.hash]])
    <3>1. k.pc = "reasigna" /\ k.p = h.p /\ k.bloques = h.bloques /\ k.i = h.i
      BY <1>1, ConCampos
    <3> HIDE DEF k
    <3>2. h.pc = "buscaHash" /\ h.p.op = "COMMIT"
      BY <2>4, Labores DEF BuscaHash, En, Enlazado
    <3>3. Equivale(h, k)
      BY <1>1, <3>1, <3>2 DEF Equivale, Ubicada, ListaEnObra, Puestos, MismaLista
    <3> QED
      BY <2>4, <3>3 DEF k
  <2>5. CASE BuscaLibre(w) /\ UNCHANGED mutex
    <3>1. PICK libre \in Bloques : Sigue(w, [pc |-> "escribe", nuevo |-> libre])
      <4>1. ~Responde(w)
        <5>1. mutex[h.p.ft] = w /\ h.p.ft \in FileTags /\ w # Nadie
          BY <1>1, EnObraHechos, Hechos, StorageAssumption DEF EnObra, Enlazado
        <5> QED
          BY <2>5, <5>1 DEF Responde, Enlazado, Tipos, TypeOK
      <4> QED
        BY <2>5, <4>1 DEF BuscaLibre
    <3> DEFINE k == Con(h, [pc |-> "escribe", nuevo |-> libre])
    <3>2. k.pc = "escribe" /\ k.p = h.p /\ k.bloques = h.bloques /\ k.i = h.i
      BY <1>1, ConCampos
    <3> HIDE DEF k
    <3>3. h.pc = "buscaLibre" /\ h.p.op = "WRITE"
      BY <2>5, Labores DEF BuscaLibre, En, Enlazado
    <3>4. Equivale(h, k)
      BY <1>1, <3>2, <3>3 DEF Equivale, Ubicada, ListaEnObra, Puestos, MismaLista
    <3> QED
      BY <3>1, <3>4 DEF k
  <2>6. CASE Stat(w) /\ ~Sigue(w, TrasDejar(h))
    BY <2>2, <2>6 DEF Stat, En
  <2>7. CASE Libera(w) /\ ~Sigue(w, TrasDejar(h))
    BY <2>2, <2>7 DEF Libera, En
  <2>8. CASE BuscaHash(w) /\ ~Sigue(w, TrasDejar(h))
    BY <2>2, <2>4, <2>8 DEF BuscaHash, En
  <2>9. CASE VeNLink(w) \/ Escribe(w)
    BY <2>2, <2>9 DEF VeNLink, Escribe, En
  <2>10. Sigue(w, TrasDejar(h)) \/ ~(QuitaHash(w) \/ GuardaHash(w))
    BY DEF QuitaHash, GuardaHash
  <2> QED
    BY <2>1, <2>3, <2>5, <2>6, <2>7, <2>8, <2>9, <2>10
<1>4. PICK c : Sigue(w, c) /\ Equivale(h, Con(h, c))
  BY <1>3
<1> DEFINE k == Con(h, c)
<1>5. hebra' = [hebra EXCEPT ![w] = k]
  BY <1>4 DEF Sigue
<1>6. k \in Hebra
  <2> HIDE DEF k
  <2>1. hebra \in [Workers -> Hebra] /\ hebra' \in [Workers -> Hebra]
    BY DEF Enlazado, Tipos, TypeOK
  <2> QED
    BY <1>5, <2>1
<1> HIDE DEF k
<1>7. Equivale(h, k)
  BY <1>4 DEF k
<1> QED
  BY <1>2, <1>5, <1>6, <1>7, SinTocar

-----------------------------------------------------------------------------
(* The beginning of an operation.                                          *)

\* Each operation starts at a place of its list.
LEMMA ComienzaUbica ==
  ASSUME NEW h \in Hebra, h.p \in Pedido, h.p.op # "CREATE",
         h.p.op \in {"WRITE", "READ"} => h.p.n < Len(h.bloques)
  PROVE  LET k == Con(h, Comienza(h.p, h.bloques)) IN
         /\ k.p = h.p /\ Ubicada(k)
         /\ MismaLista(k) => k.bloques = h.bloques
         /\ k.pc \notin {"espera", "candado", "verifica", "mkdirFile", "crearMeta", "guardaMeta",
                         "guardaBloques", "relee"}
         /\ h.p.op = "TAG" => k.pc = "mkdirTag"
         /\ h.p.op # "TAG" => /\ k.pc # "mkdirTag" /\ ListaEnObra(k) = h.bloques
                              /\ \A j \in 0 .. Len(h.bloques) - 1 : j \in Puestos(k)
<1> DEFINE p == h.p
           s == h.bloques
           k == Con(h, Comienza(p, s))
<1>1. s \in Seq(Bloques) /\ Len(s) \in Nat /\ p.n \in Nat /\ p.op \in Operaciones
  BY LenProperties DEF Hebra, Pedido
<1> DEFINE Bien(j) ==
     /\ j.p = h.p /\ Ubicada(j) /\ (MismaLista(j) => j.bloques = h.bloques)
     /\ j.pc \notin {"espera", "candado", "verifica", "mkdirFile", "crearMeta", "guardaMeta",
                     "guardaBloques", "relee"}
     /\ h.p.op = "TAG" => j.pc = "mkdirTag"
     /\ h.p.op # "TAG" => /\ j.pc # "mkdirTag" /\ ListaEnObra(j) = h.bloques
                          /\ \A x \in 0 .. Len(h.bloques) - 1 : x \in Puestos(j)
<1> SUFFICES Bien(k)
  OBVIOUS
<1>2. CASE p.op = "TRUNCATE"
  <2>1. CASE Len(s) < p.n
    <3>1. k.p = p /\ k.pc = "enlaza" /\ k.bloques = s /\ k.i = Len(s) /\ k.nuevo = 0
      BY <1>2, <2>1, ConCampos DEF Comienza, ComienzaTruncate
    <3> HIDE DEF k
    <3> QED
      BY <1>2, <3>1 DEF Ubicada, ListaEnObra, Puestos, MismaLista
  <2>2. CASE Len(s) > p.n
    <3>1. k = Con(h, QuitaUltimo(s)) /\ Len(s) > 0
      BY <1>1, <1>2, <2>2 DEF Comienza, ComienzaTruncate
    <3>2. k.p = h.p /\ k.pc = "desenlaza" /\ Ubicada(k)
          /\ ListaEnObra(k) = h.bloques /\ Puestos(k) = Nat /\ ~MismaLista(k)
      BY <1>2, <3>1, QuitaUltimoUbica
    <3> HIDE DEF k
    <3> QED
      BY <1>1, <1>2, <3>2
  <2>3. CASE Len(s) = p.n
    <3>1. k.p = p /\ k.pc = "copiaMeta" /\ k.bloques = s
      BY <1>1, <1>2, <2>3, ConCampos DEF Comienza, ComienzaTruncate, A
    <3> HIDE DEF k
    <3> QED
      BY <1>2, <3>1 DEF Ubicada, ListaEnObra, Puestos, MismaLista
  <2> QED
    BY <1>1, <2>1, <2>2, <2>3
<1>3. CASE p.op = "TAG"
  <2>1. k.p = p /\ k.pc = "mkdirTag" /\ k.bloques = s
    BY <1>3, ConCampos DEF Comienza, A
  <2> HIDE DEF k
  <2> QED
    BY <1>3, <2>1 DEF Ubicada, MismaLista
<1>4. CASE p.op = "COMMIT"
  <2>1. k.p = p /\ k.pc = "commitea" /\ k.bloques = s
    BY <1>4, ConCampos DEF Comienza, A
  <2> HIDE DEF k
  <2> QED
    BY <1>4, <2>1 DEF Ubicada, ListaEnObra, Puestos, MismaLista
<1>5. CASE p.op = "WRITE"
  <2>1. k.p = p /\ k.pc = "nlink" /\ k.bloques = s /\ k.i = p.n
    BY <1>5, ConCampos DEF Comienza
  <2> HIDE DEF k
  <2> QED
    BY <1>5, <2>1 DEF Ubicada, ListaEnObra, Puestos, MismaLista
<1>6. CASE p.op = "READ"
  <2>1. k.p = p /\ k.pc = "lee" /\ k.bloques = s
    BY <1>6, ConCampos DEF Comienza
  <2> HIDE DEF k
  <2> QED
    BY <1>6, <2>1 DEF Ubicada, ListaEnObra, Puestos, MismaLista
<1>7. CASE p.op = "DELETE"
  <2>1. CASE 0 < Len(s)
    <3>1. k.p = p /\ k.pc = "desenlaza" /\ k.bloques = s /\ k.i = 0
      BY <1>7, <2>1, ConCampos DEF Comienza, QuitaDesde
    <3> HIDE DEF k
    <3> QED
      BY <1>7, <2>1, <3>1 DEF Ubicada, ListaEnObra, Puestos, MismaLista
  <2>2. CASE ~(0 < Len(s))
    <3>1. k.p = p /\ k.pc = "borra" /\ k.bloques = s
      BY <1>7, <2>2, ConCampos DEF Comienza, QuitaDesde, A
    <3> HIDE DEF k
    <3> QED
      BY <1>1, <1>7, <2>2, <3>1 DEF Ubicada, ListaEnObra, Puestos, MismaLista
  <2> QED
    BY <2>1, <2>2
<1> QED
  BY <1>1, <1>2, <1>3, <1>4, <1>5, <1>6, <1>7 DEF Operaciones

\* An operation begins with the list the metadata holds.
LEMMA AceptaEnlazado ==
  ASSUME Enlazado, DestinosAjenos, Tipos', NEW w \in Workers, Acepta(w), aMedias' = aMedias
  PROVE  Enlazado'
<1> DEFINE p == hebra[w].p
           d == Destino(p)
           s == meta[p.ft].bloques
           h == [hebra[w] EXCEPT !.bloques = s, !.estado = meta[p.ft].estado]
<1>1. hebra[w] \in Hebra /\ hebra \in [Workers -> Hebra] /\ hebra[w].pc = "verifica"
      /\ p \in Pedido /\ p.ft \in FileTags /\ d \in FileTags /\ DirsBien(p)
      /\ UNCHANGED disco /\ vivo' /\ ~EnObra(w)
  BY Hechos DEF Acepta, En, EnObra, Enlazado
<1>2. \A v \in Workers : EnObra(v) => Destino(hebra[v].p) # d
  BY <1>1, Distintos DEF Enlazado, EnObra
<1>3. d \notin aMedias => EnReposo(d)
  BY <1>1, <1>2 DEF Enlazado, Reposa
<1>4. Ajeno(d) /\ archivos' = archivos /\ \A ft \in dirs' : ft[1] \in archivos'
  BY <1>1 DEF Ajeno, disco, Enlazado
<1>5. \E k : /\ hebra' = [hebra EXCEPT ![w] = k]
             /\ k.p = p /\ Ubicada(k)
             /\ k.pc \notin {"espera", "candado", "verifica", "crearMeta", "guardaMeta",
                             "guardaBloques", "relee"}
             /\ MismaLista(k) => meta[p.ft].bloques = k.bloques
             /\ p.op = "CREATE" => k.pc = "mkdirFile"
             /\ p.op = "TAG" => k.pc = "mkdirTag"
             /\ p.op \notin {"CREATE", "TAG"} =>
                  /\ k.pc \notin {"mkdirFile", "mkdirTag"} /\ meta[p.ft] # SinMeta
                  /\ ListaEnObra(k) = s
                  /\ \A j \in 0 .. Len(s) - 1 : j \in Puestos(k)
  <2>1. CASE p.op = "CREATE" /\ Sigue(w, A("mkdirFile"))
    <3> DEFINE k == Con(hebra[w], A("mkdirFile"))
    <3>1. hebra' = [hebra EXCEPT ![w] = k]
      BY <2>1 DEF Sigue
    <3>2. k.p = p /\ k.pc = "mkdirFile"
      BY <1>1, ConCampos DEF A
    <3> HIDE DEF k
    <3>3. Ubicada(k) /\ ~MismaLista(k)
      BY <2>1, <3>2 DEF Ubicada, MismaLista
    <3> QED
      BY <2>1, <3>1, <3>2, <3>3
  <2>2. CASE /\ LeeMeta(p) /\ Legible(p) /\ MetaBien(p)
             /\ hebra' = [hebra EXCEPT ![w] = Con(h, Comienza(p, s))]
    <3> DEFINE k == Con(h, Comienza(p, s))
    <3>1. meta[p.ft] \in Metadatos /\ meta[p.ft] # SinMeta
      BY <1>1, <2>2, StorageAssumption DEF Legible, Enlazado, Tipos, TypeOK
    <3>2. s \in Seq(Bloques) /\ meta[p.ft].estado \in Estados
      BY <3>1 DEF Metadatos
    <3>3. h \in Hebra /\ h.p = p /\ h.bloques = s
      BY <1>1, <3>2 DEF Hebra
    <3>4. p.op # "CREATE" /\ (p.op \in {"WRITE", "READ"} => p.n < Len(s))
      BY <2>2 DEF LeeMeta, MetaBien
    <3> HIDE DEF h, p, s
    <3>5. /\ k.p = p /\ Ubicada(k) /\ (MismaLista(k) => k.bloques = s)
          /\ k.pc \notin {"espera", "candado", "verifica", "mkdirFile", "crearMeta", "guardaMeta",
                          "guardaBloques", "relee"}
          /\ p.op = "TAG" => k.pc = "mkdirTag"
          /\ p.op # "TAG" => /\ k.pc # "mkdirTag" /\ ListaEnObra(k) = s
                             /\ \A j \in 0 .. Len(s) - 1 : j \in Puestos(k)
      BY <1>1, <3>3, <3>4, ComienzaUbica
    <3> HIDE DEF k
    <3> QED
      BY <2>2, <3>1, <3>4, <3>5 DEF k, s
  <2> QED
    BY <1>1, <2>1, <2>2 DEF Acepta
<1>6. PICK k : /\ hebra' = [hebra EXCEPT ![w] = k]
               /\ k.p = p /\ Ubicada(k)
               /\ k.pc \notin {"espera", "candado", "verifica", "crearMeta", "guardaMeta",
                             "guardaBloques", "relee"}
               /\ MismaLista(k) => meta[p.ft].bloques = k.bloques
               /\ p.op = "CREATE" => k.pc = "mkdirFile"
               /\ p.op = "TAG" => k.pc = "mkdirTag"
               /\ p.op \notin {"CREATE", "TAG"} =>
                    /\ k.pc \notin {"mkdirFile", "mkdirTag"} /\ meta[p.ft] # SinMeta
                    /\ ListaEnObra(k) = s
                    /\ \A j \in 0 .. Len(s) - 1 : j \in Puestos(k)
  BY <1>5
<1>7. hebra'[w] = k /\ \A v \in Workers \ {w} : hebra'[v] = hebra[v]
  BY <1>1, <1>6
<1>8. EnObra(w)'
  BY <1>6, <1>7 DEF EnObra
<1>9. d \notin aMedias =>
        /\ Enlazados(d, ListaEnObra(k), Puestos(k))
        /\ d \in dirs <=> ~SinDir(k)
        /\ SinConf(k) => meta[d] = SinMeta
        /\ ConEstado(k, meta[d])
  <2> SUFFICES ASSUME d \notin aMedias
               PROVE  /\ Enlazados(d, ListaEnObra(k), Puestos(k))
                      /\ d \in dirs <=> ~SinDir(k)
                      /\ SinConf(k) => meta[d] = SinMeta
                      /\ ConEstado(k, meta[d])
    OBVIOUS
  <2>1. EnReposo(d)
    BY <1>3
  <2>2. CASE p.op = "CREATE"
    <3>1. d \notin dirs
      BY <1>1, <2>2 DEF DirsBien, Destino, Enlazado
    <3>2. \A e \in enlaces : e.ft # d
      BY <2>1, <3>1 DEF EnReposo
    <3>3. Puestos(k) = {}
      BY <1>6, <2>2 DEF Puestos
    <3> QED
      BY <1>6, <2>1, <2>2, <3>1, <3>2, <3>3 DEF EnReposo, Enlazados, SinDir, SinConf, ConEstado
  <2>3. CASE p.op = "TAG"
    <3>1. d \notin dirs
      BY <1>1, <2>3 DEF DirsBien, Destino
    <3>2. \A e \in enlaces : e.ft # d
      BY <2>1, <3>1 DEF EnReposo
    <3>3. Puestos(k) = {}
      BY <1>6, <2>3 DEF Puestos
    <3> QED
      BY <1>6, <2>1, <2>3, <3>1, <3>2, <3>3 DEF EnReposo, Enlazados, SinDir, SinConf, ConEstado
  <2>4. CASE p.op \notin {"CREATE", "TAG"}
    <3>1. d = p.ft /\ d \in dirs /\ Enlazados(d, s, Nat)
      BY <1>6, <2>1, <2>4 DEF EnReposo, Destino
    <3>2. Len(s) \in Nat
      <4>1. s \in Seq(Bloques)
        BY <1>1, <1>6, <2>4 DEF Enlazado, Tipos, TypeOK, Metadatos, Estados
      <4> QED
        BY <4>1, LenProperties
    <3>3. \A e \in enlaces : e.i \in Nat
      BY EnlacesDeNat DEF Enlazado
    <3>4. \A j \in 0 .. Len(s) - 1 : j \in Puestos(k) <=> j \in Nat
      BY <1>6, <2>4
    <3>5. Enlazados(d, s, Puestos(k))
      <4> HIDE DEF s
      <4> QED
        BY <3>1, <3>2, <3>3, <3>4, EnlazadosIgual
    <3>6. meta[d].estado # "NINGUNO"
      BY <1>6, <2>1, <2>4, <3>1 DEF EnReposo
    <3> QED
      BY <1>6, <2>4, <3>1, <3>5, <3>6 DEF SinDir, SinConf, ConEstado
  <2> QED
    BY <2>2, <2>3, <2>4
<1>10. k.pc = "mkdirTag" => d[1] \in archivos /\ p.op = "TAG"
  BY <1>1, <1>6 DEF DirsBien, Destino
<1>11. p.op = "TAG" => p.ft # d
  BY <1>1 DEF DirsBien, Destino
<1>12. ObraBien(w)'
  <2>1. Enlazados(d, ListaEnObra(k), Puestos(k)) =>
          Enlazados(Destino(k.p), ListaEnObra(k), Puestos(k))'
    <3>1. \A x, P : Enlazados(d, x, P) => \A ft : ft = d => Enlazados(ft, x, P)'
      BY <1>1 DEF Enlazados, disco
    <3> QED
      BY <1>6, <3>1
  <2>2. ~SinDir(k) => d \in dirs
    BY <1>1, <1>6 DEF DirsBien, Destino, SinDir
  <2>3. Labrada(k, Destino(k.p))'
    BY <1>1, <1>6, <2>2 DEF Labrada, disco
  <2> QED
    BY <1>1, <1>6, <1>7, <1>9, <1>10, <1>11, <2>1, <2>3 DEF ObraBien, disco
<1> QED
  BY <1>1, <1>4, <1>6, <1>7, <1>8, <1>12, PasoEnlazado

-----------------------------------------------------------------------------
(* link and unlink.                                                        *)

\* A new link is of the file:tag of the operation and of no other.
LEMMA AjenoAlEnlazar ==
  ASSUME NEW d, NEW i, NEW b, UNCHANGED <<dirs, meta>>,
         enlaces' = ConEnlace(d, i, b) \/ enlaces' = SinEnlace(d, i)
  PROVE  Ajeno(d)
BY DEF Ajeno, ConEnlace, SinEnlace, DeLogico, Enlace

\* A step that changes only the links of the file:tag it builds.
LEMMA TocaEnlaces ==
  ASSUME Enlazado, Tipos', DestinosAjenos, NEW w \in Workers, NEW k,
         hebra' = [hebra EXCEPT ![w] = k], EnObra(w), k.p = hebra[w].p,
         {hebra[w].pc, k.pc} \cap {"espera", "candado", "verifica", "mkdirFile", "mkdirTag",
                                   "crearMeta", "guardaMeta", "relee"} = {},
         k.pc = "guardaBloques" => k.estado = meta[Destino(hebra[w].p)].estado,
         hebra[w].p.op = "TAG" => hebra[w].pc \in {"enlaza", "copiaMeta"},
         Ubicada(k), MismaLista(k) => MismaLista(hebra[w]) /\ k.bloques = hebra[w].bloques,
         Ajeno(Destino(hebra[w].p)), UNCHANGED <<archivos, dirs, meta, aMedias>>, vivo',
         LET d == Destino(hebra[w].p) IN
           d \in dirs /\ Enlazados(d, ListaEnObra(hebra[w]), Puestos(hebra[w])) =>
             \A ft : ft = d => Enlazados(ft, ListaEnObra(k), Puestos(k))'
  PROVE  Enlazado'
<1> DEFINE h == hebra[w]
           d == Destino(h.p)
<1>1. hebra \in [Workers -> Hebra] /\ ObraBien(w)
  BY Hechos DEF Enlazado
<1>2. hebra'[w] = k /\ \A v \in Workers \ {w} : hebra'[v] = hebra[v]
  BY <1>1
<1>3. EnObra(w)' /\ ~SinDir(k) /\ ~SinDir(h) /\ hebra[w].pc \notin {"espera", "candado"}
      /\ ~SinConf(k) /\ ~SinConf(h)
  BY <1>2 DEF EnObra, SinDir, SinConf
<1>4. \A ft \in dirs' : ft[1] \in archivos'
  BY DEF Enlazado
<1>5. ObraBien(w)'
  <2>1. d \notin aMedias => d \in dirs /\ Enlazados(Destino(k.p), ListaEnObra(k), Puestos(k))'
    BY <1>1, <1>3 DEF ObraBien
  <2>2. Labrada(k, d)'
    BY <1>1, <1>3 DEF ObraBien, Labrada
  <2>3. d \notin aMedias => ConEstado(k, meta[d])'
    BY <1>1, <1>3 DEF ObraBien, ConEstado
  <2> QED
    BY <1>1, <1>2, <1>3, <2>1, <2>2, <2>3 DEF ObraBien
<1> QED
  BY <1>2, <1>3, <1>4, <1>5, PasoEnlazado

\* eliminarHardLink and the unlink of deduplicacionBloque.
LEMMA DesenlazaEnlazado ==
  ASSUME Enlazado, DestinosAjenos, Tipos', NEW w \in Workers, Desenlaza(w) \/ Reasigna(w),
         aMedias' = aMedias
  PROVE  Enlazado'
<1> DEFINE h == hebra[w]
           d == Destino(h.p)
<1>1. h \in Hebra /\ EnObra(w) /\ hebra \in [Workers -> Hebra] /\ h.bloques \in Seq(Bloques)
      /\ Len(h.bloques) \in Nat /\ h.i \in Nat /\ Ubicada(h) /\ h.b \in Bloques
  BY Hechos, LenProperties DEF Enlazado, ObraBien, Desenlaza, Reasigna, En, EnObra
<1>2. UNCHANGED <<archivos, dirs, meta, aMedias>> /\ vivo' /\ enlaces' = SinEnlace(h.p.ft, h.i)
  BY DEF Desenlaza, Reasigna, En
<1>3. \/ h.pc = "desenlaza" /\ Sigue(w, A("stat")) /\ h.p.op \in {"TRUNCATE", "WRITE", "DELETE"}
      \/ h.pc = "reasigna" /\ Sigue(w, A("enlazaDuplicado")) /\ h.p.op = "COMMIT"
  BY Labores DEF Desenlaza, Reasigna, En, Enlazado
<1>4. d = h.p.ft
  BY <1>3 DEF Destino
<1>5. \A pc : Con(h, A(pc)).pc = pc /\ Con(h, A(pc)).p = h.p /\ Con(h, A(pc)).bloques = h.bloques
        /\ Con(h, A(pc)).i = h.i /\ Con(h, A(pc)).b = h.b
  BY <1>1, ConCampos DEF A
<1>6. PICK k : /\ hebra' = [hebra EXCEPT ![w] = k]
               /\ k.p = h.p /\ k.bloques = h.bloques /\ k.i = h.i /\ k.b = h.b
               /\ \/ /\ k.pc = "stat" /\ h.pc = "desenlaza"
                     /\ h.p.op \in {"TRUNCATE", "WRITE", "DELETE"}
                  \/ k.pc = "enlazaDuplicado" /\ h.pc = "reasigna" /\ h.p.op = "COMMIT"
  <2>1. \A pc : Sigue(w, A(pc)) => hebra' = [hebra EXCEPT ![w] = Con(h, A(pc))]
    BY DEF Sigue
  <2>2. CASE h.pc = "desenlaza"
    <3>1. hebra' = [hebra EXCEPT ![w] = Con(h, A("stat"))]
      BY <1>3, <2>1, <2>2
    <3> HIDE DEF h
    <3> QED
      BY <1>3, <1>5, <2>2, <3>1
  <2>3. CASE h.pc = "reasigna"
    <3>1. hebra' = [hebra EXCEPT ![w] = Con(h, A("enlazaDuplicado"))]
      BY <1>3, <2>1, <2>3
    <3> HIDE DEF h
    <3> QED
      BY <1>3, <1>5, <2>3, <3>1
  <2> QED
    BY <1>3, <2>2, <2>3
<1>8. Ubicada(k) /\ (MismaLista(k) => MismaLista(h) /\ k.bloques = h.bloques)
  BY <1>1, <1>6 DEF Ubicada, MismaLista
<1>9. ListaEnObra(k) = h.bloques /\ h.i \notin Puestos(k) \cap (0 .. Len(h.bloques) - 1)
      /\ \A j \in 0 .. Len(h.bloques) - 1 : j # h.i => (j \in Puestos(k) <=> j \in Puestos(h))
  BY <1>1, <1>6 DEF ListaEnObra, Puestos, Ubicada
<1>10. \A j \in 0 .. Len(h.bloques) - 1 : ListaEnObra(h)[j + 1] = h.bloques[j + 1]
       /\ j < Len(ListaEnObra(h))
  BY <1>1, AppendProperties DEF ListaEnObra
<1>11. \A j \in 0 .. Len(ListaEnObra(h)) - 1 : j # h.i => j < Len(h.bloques)
  BY <1>1, AppendProperties DEF ListaEnObra, Ubicada
<1>12. ASSUME Enlazados(d, ListaEnObra(h), Puestos(h)), NEW ft, ft = d
       PROVE  Enlazados(ft, ListaEnObra(k), Puestos(k))'
  <2> DEFINE s == h.bloques
             P == Puestos(k)
             L == ListaEnObra(h)
             Q == Puestos(h)
  <2>1. \A e \in enlaces' : e.ft = ft => e \in enlaces /\ e.i \in Nat /\ e.i # h.i
    BY <1>2, <1>4, <1>12, EnlacesDeNat DEF SinEnlace, DeLogico, Enlazado
  <2>2. Len(L) \in Nat
    BY <1>1, ListaEnObraTipo
  <2> HIDE DEF L, Q, P
  <2>3. \A e \in enlaces : e.ft = ft => e.i \in Q /\ e.i < Len(L) /\ e.b = L[e.i + 1]
    BY <1>12 DEF Enlazados, L, Q
  <2>4. \A e \in enlaces' : e.ft = ft => e.i \in P /\ e.i < Len(s) /\ e.b = s[e.i + 1]
    <3> SUFFICES ASSUME NEW e \in enlaces', e.ft = ft
                 PROVE  e.i \in P /\ e.i < Len(s) /\ e.b = s[e.i + 1]
      OBVIOUS
    <3>1. e.i \in 0 .. Len(L) - 1 /\ e.i # h.i /\ e.i \in Q /\ e.b = L[e.i + 1]
      BY <2>1, <2>2, <2>3
    <3>2. e.i \in 0 .. Len(s) - 1
      BY <1>1, <1>11, <3>1 DEF L
    <3> QED
      BY <1>1, <1>9, <1>10, <3>1, <3>2, SMTT(30) DEF L, Q, P
  <2>5. ASSUME NEW j \in 0 .. Len(s) - 1, j \in P PROVE Enlace(ft, j, s[j + 1]) \in enlaces'
    <3>1. j # h.i /\ j \in Q /\ j \in 0 .. Len(L) - 1 /\ L[j + 1] = s[j + 1]
      BY <1>1, <1>9, <1>10, <2>2, <2>5, SMTT(30) DEF P, Q, L
    <3>2. Enlace(ft, j, s[j + 1]) \in enlaces
      BY <1>12, <3>1 DEF Enlazados, L, Q
    <3> QED
      BY <1>2, <3>1, <3>2 DEF SinEnlace, DeLogico, Enlace
  <2> QED
    BY <1>9, <2>4, <2>5 DEF Enlazados, P
<1>13. Ajeno(d)
  BY <1>2, <1>4, AjenoAlEnlazar
<1>14. {h.pc, k.pc} \cap {"espera", "candado", "verifica", "mkdirFile", "mkdirTag", "crearMeta",
                        "guardaMeta", "relee"} = {}
       /\ k.pc # "guardaBloques"
       /\ h.p.op # "TAG"
  BY <1>6
<1> QED
  BY <1>1, <1>2, <1>6, <1>8, <1>12, <1>13, <1>14, TocaEnlaces

\* The list M at the places of Q is the list L at those of P, and besides b
\* at the place i.
Completa(i, b, L, P, M, Q) ==
  /\ i \in Nat /\ Len(L) \in Nat /\ Len(M) \in Nat
  /\ ~(i \in P /\ i < Len(L))
  /\ i < Len(M) /\ M[i + 1] = b /\ i \in Q
  /\ \A j \in Nat : j # i => (j < Len(M) /\ j \in Q <=> j < Len(L) /\ j \in P)
  /\ \A j \in 0 .. Len(M) - 1 : j # i /\ j < Len(L) => M[j + 1] = L[j + 1]

\* A link made at the end of what was linked.
LEMMA AgregaEnlace ==
  ASSUME Tipos, NEW d \in dirs, NEW i, NEW b, NEW L, NEW P, NEW M, NEW Q,
         Completa(i, b, L, P, M, Q), Enlazados(d, L, P), enlaces' = ConEnlace(d, i, b)
  PROVE  \A ft : ft = d => Enlazados(ft, M, Q)'
<1> USE DEF Completa
<1>1. enlaces' = enlaces \cup {Enlace(d, i, b)}
  <2>1. \A e \in enlaces : ~(e.ft = d /\ e.i = i)
    BY DEF Enlazados
  <2> QED
    BY <2>1 DEF ConEnlace, DeLogico
<1>2. ASSUME NEW e \in enlaces', e.ft = d PROVE e.i \in Q /\ e.i < Len(M) /\ e.b = M[e.i + 1]
  <2>1. CASE e \in enlaces
    <3>1. e.i \in Nat /\ e.i \in P /\ e.i < Len(L) /\ e.b = L[e.i + 1]
      BY <1>2, <2>1, EnlacesDeNat DEF Enlazados
    <3>2. e.i # i
      BY <3>1
    <3>3. e.i \in Q /\ e.i < Len(M)
      BY <3>1, <3>2
    <3>4. e.i \in 0 .. Len(M) - 1
      BY <3>1, <3>3
    <3>5. M[e.i + 1] = L[e.i + 1]
      BY <3>1, <3>2, <3>4
    <3> QED
      BY <3>1, <3>3, <3>5
  <2>2. CASE e = Enlace(d, i, b)
    BY <2>2 DEF Enlace
  <2> QED
    BY <1>1, <2>1, <2>2
<1>3. ASSUME NEW j \in 0 .. Len(M) - 1, j \in Q PROVE Enlace(d, j, M[j + 1]) \in enlaces'
  <2>1. CASE j = i
    BY <1>1, <2>1
  <2>2. CASE j # i
    <3>1. j \in 0 .. Len(L) - 1 /\ j \in P /\ M[j + 1] = L[j + 1]
      BY <1>3, <2>2
    <3> QED
      BY <1>1, <3>1 DEF Enlazados
  <2> QED
    BY <2>1, <2>2
<1> QED
  BY <1>2, <1>3 DEF Enlazados

\* agregarHardLink in TRUNCATE, TAG and WRITE.
LEMMA EnlazaEnlazado ==
  ASSUME Enlazado, DestinosAjenos, Tipos', NEW w \in Workers, Enlaza(w), aMedias' = aMedias
  PROVE  Enlazado'
<1> DEFINE h == hebra[w]
           d == Destino(h.p)
           s == h.bloques
           cambiada == [s EXCEPT ![h.i + 1] = h.nuevo]
<1>1. h \in Hebra /\ EnObra(w) /\ hebra \in [Workers -> Hebra] /\ s \in Seq(Bloques)
      /\ Len(s) \in Nat /\ h.i \in Nat /\ Ubicada(h) /\ h.nuevo \in Bloques /\ h.p.n \in Nat
      /\ h.pc = "enlaza" /\ 0 \in Bloques
  BY Hechos, LenProperties, StorageAssumption DEF Enlazado, ObraBien, Enlaza, En, EnObra, Bloques
<1>2. UNCHANGED <<archivos, dirs, meta, aMedias>> /\ vivo' /\ enlaces' = ConEnlace(d, h.i, h.nuevo)
      /\ h.p.op \in {"TRUNCATE", "TAG", "WRITE"}
  BY Labores DEF Enlaza, En, Enlazado
<1>3. hebra' = [hebra EXCEPT ![w] = Con(h, TrasEnlazar(h))]
  BY DEF Enlaza, Sigue
<1>4. \E k : /\ k = Con(h, TrasEnlazar(h)) /\ k.p = h.p
             /\ \/ /\ h.p.op = "TRUNCATE" /\ k.pc \in {"enlaza", "copiaMeta"}
                   /\ k.bloques = Append(s, 0) /\ k.i = h.i + 1 /\ k.nuevo = h.nuevo
                \/ /\ h.p.op = "TAG" /\ h.i + 1 < Len(s) /\ k.pc = "enlaza"
                   /\ k.bloques = s /\ k.i = h.i + 1 /\ k.nuevo = s[h.i + 2]
                \/ /\ h.p.op = "TAG" /\ ~(h.i + 1 < Len(s)) /\ k.pc = "copiaMeta"
                   /\ k.bloques = s
                \/ /\ h.p.op = "WRITE" /\ k.pc = "copiaMeta" /\ k.bloques = cambiada
                   /\ k.i = h.i
  <2>1. CASE h.p.op = "TRUNCATE"
    <3>1. PICK pc \in {"enlaza", "copiaMeta"} :
            TrasEnlazar(h) = [bloques |-> Append(s, 0), i |-> h.i + 1, pc |-> pc]
      BY <1>1, <2>1 DEF TrasEnlazar
    <3> DEFINE c == [bloques |-> Append(s, 0), i |-> h.i + 1, pc |-> pc]
    <3>2. DOMAIN c = {"bloques", "i", "pc"} /\ c["bloques"] = Append(s, 0) /\ c["i"] = h.i + 1
          /\ c["pc"] = pc
      OBVIOUS
    <3> HIDE DEF c
    <3>3. /\ Con(h, c).p = h.p /\ Con(h, c).pc = pc /\ Con(h, c).bloques = Append(s, 0)
          /\ Con(h, c).i = h.i + 1 /\ Con(h, c).nuevo = h.nuevo
      <4> HIDE DEF h, s
      <4>1. /\ "p" \notin DOMAIN c => Con(h, c).p = h.p
            /\ "pc" \in DOMAIN c => Con(h, c).pc = c["pc"]
            /\ "bloques" \in DOMAIN c => Con(h, c).bloques = c["bloques"]
            /\ "i" \in DOMAIN c => Con(h, c).i = c["i"]
            /\ "nuevo" \notin DOMAIN c => Con(h, c).nuevo = h.nuevo
        BY <1>1, ConCampos
      <4> QED
        BY <3>2, <4>1
    <3>4. TrasEnlazar(h) = c
      BY <3>1 DEF c
    <3>5. Con(h, TrasEnlazar(h)) = Con(h, c)
      BY <3>4
    <3> HIDE DEF h, s, cambiada
    <3> QED
      BY <2>1, <3>3, <3>5
  <2>2. CASE h.p.op = "TAG" /\ h.i + 1 < Len(s)
    <3>1. TrasEnlazar(h) = [pc |-> "enlaza", i |-> h.i + 1, nuevo |-> s[h.i + 2]]
      BY <1>1, <2>2 DEF TrasEnlazar
    <3> QED
      BY <1>1, <2>2, <3>1, ConCampos, SMTT(30)
  <2>3. CASE h.p.op = "TAG" /\ ~(h.i + 1 < Len(s))
    BY <1>1, <2>3, ConCampos DEF TrasEnlazar, A
  <2>4. CASE h.p.op = "WRITE"
    BY <1>1, <2>4, ConCampos DEF TrasEnlazar
  <2> QED
    BY <1>2, <2>1, <2>2, <2>3, <2>4
<1>5. PICK k : /\ k = Con(h, TrasEnlazar(h)) /\ k.p = h.p
               /\ \/ /\ h.p.op = "TRUNCATE" /\ k.pc \in {"enlaza", "copiaMeta"}
                     /\ k.bloques = Append(s, 0) /\ k.i = h.i + 1 /\ k.nuevo = h.nuevo
                  \/ /\ h.p.op = "TAG" /\ h.i + 1 < Len(s) /\ k.pc = "enlaza"
                     /\ k.bloques = s /\ k.i = h.i + 1 /\ k.nuevo = s[h.i + 2]
                  \/ /\ h.p.op = "TAG" /\ ~(h.i + 1 < Len(s)) /\ k.pc = "copiaMeta"
                     /\ k.bloques = s
                  \/ /\ h.p.op = "WRITE" /\ k.pc = "copiaMeta" /\ k.bloques = cambiada
                     /\ k.i = h.i
  BY <1>4
<1>6. h.p.op # "TRUNCATE" => h.i + 1 \in 1 .. Len(s)
  BY <1>1, <1>2 DEF Ubicada
<1>7. h.p.op = "WRITE" =>
        /\ cambiada \in Seq(Bloques) /\ Len(cambiada) = Len(s)
        /\ \A j \in 1 .. Len(s) : cambiada[j] = IF j = h.i + 1 THEN h.nuevo ELSE s[j]
  <2> HIDE DEF s, h
  <2> QED
    BY <1>1, <1>6, ExceptSeq
<1>8. /\ Append(s, 0) \in Seq(Bloques) /\ Len(Append(s, 0)) = Len(s) + 1
      /\ \A j \in 1 .. Len(s) : Append(s, 0)[j] = s[j]
      /\ Append(s, 0)[Len(s) + 1] = 0
  BY <1>1, AppendProperties
<1> HIDE DEF cambiada
<1>9. ListaEnObra(h) = s /\ ListaEnObra(k) = k.bloques /\ Len(k.bloques) \in Nat
  BY <1>1, <1>5, <1>7, <1>8 DEF ListaEnObra
<1>10. Ubicada(k)
  BY <1>1, <1>5, <1>6, <1>7, <1>8, SMTT(30) DEF Ubicada
<1>11. MismaLista(k) => MismaLista(h) /\ k.bloques = s
  <2>1. MismaLista(k) => h.p.op = "TAG"
    BY <1>5 DEF MismaLista
  <2>2. h.p.op = "TAG" => MismaLista(h) /\ k.bloques = s
    BY <1>5 DEF MismaLista
  <2> QED
    BY <2>1, <2>2
<1>12. Ajeno(d)
  BY <1>2, AjenoAlEnlazar
<1>13. ASSUME d \in dirs, Enlazados(d, ListaEnObra(h), Puestos(h))
       PROVE  \A ft : ft = d => Enlazados(ft, ListaEnObra(k), Puestos(k))'
  <2>1. h.i < Len(k.bloques) /\ k.bloques[h.i + 1] = h.nuevo
        /\ ~(h.i \in Puestos(h) /\ h.i < Len(s))
    BY <1>1, <1>5, <1>6, <1>7, <1>8, SMTT(30) DEF Puestos, Ubicada
  <2>2. h.i \in Puestos(k)
    BY <1>1, <1>2, <1>5 DEF Puestos
  <2>3. \A j \in Nat : j # h.i =>
          (j < Len(k.bloques) /\ j \in Puestos(k) <=> j < Len(s) /\ j \in Puestos(h))
    <3>1. CASE h.p.op = "TRUNCATE"
      <4>1. h.i = Len(s) /\ Len(k.bloques) = Len(s) + 1 /\ Puestos(k) = Nat /\ Puestos(h) = Nat
        BY <1>1, <1>5, <1>8, <3>1 DEF Puestos, Ubicada
      <4> QED
        BY <1>1, <4>1
    <3>2. CASE h.p.op = "TAG"
      <4>1. Len(k.bloques) = Len(s) /\ Puestos(h) = {j \in Nat : j < h.i}
        BY <1>1, <1>5, <3>2 DEF Puestos
      <4>2. \/ Puestos(k) = {j \in Nat : j < h.i + 1}
            \/ Puestos(k) = Nat /\ ~(h.i + 1 < Len(s))
        BY <1>1, <1>5, <3>2 DEF Puestos
      <4> QED
        BY <1>1, <4>1, <4>2
    <3>3. CASE h.p.op = "WRITE"
      <4>1. Len(k.bloques) = Len(s) /\ Puestos(k) = Nat /\ Puestos(h) = {j \in Nat : j # h.i}
        BY <1>1, <1>5, <1>7, <3>3 DEF Puestos
      <4> QED
        BY <1>1, <4>1
    <3> QED
      BY <1>2, <3>1, <3>2, <3>3
  <2>4. \A j \in 0 .. Len(k.bloques) - 1 : j # h.i /\ j < Len(s) => k.bloques[j + 1] = s[j + 1]
    <3>1. CASE h.p.op = "TRUNCATE"
      <4>1. k.bloques = Append(s, 0)
        BY <1>5, <3>1
      <4>2. \A j \in 0 .. Len(s) : j < Len(s) => j + 1 \in 1 .. Len(s)
        BY <1>1
      <4>3. \A j \in 0 .. Len(s) : j < Len(s) => Append(s, 0)[j + 1] = s[j + 1]
        BY <1>8, <4>2
      <4>4. Len(Append(s, 0)) - 1 = Len(s)
        BY <1>1, <1>8
      <4> HIDE DEF s
      <4> QED
        BY <4>1, <4>3, <4>4
    <3>2. CASE h.p.op = "TAG"
      BY <1>1, <1>5, <3>2
    <3>3. CASE h.p.op = "WRITE"
      BY <1>1, <1>5, <1>7, <3>3
    <3> QED
      BY <1>2, <3>1, <3>2, <3>3
  <2>5. Completa(h.i, h.nuevo, s, Puestos(h), k.bloques, Puestos(k))
    BY <1>1, <1>9, <2>1, <2>2, <2>3, <2>4 DEF Completa
  <2>6. Tipos
    BY DEF Enlazado
  <2>7. \A ft : ft = d => Enlazados(ft, k.bloques, Puestos(k))'
    BY <1>2, <1>9, <1>13, <2>5, <2>6, AgregaEnlace
  <2> QED
    BY <1>9, <2>7
<1>14. {h.pc, k.pc} \cap {"espera", "candado", "verifica", "mkdirFile", "mkdirTag", "crearMeta",
                        "guardaMeta", "relee"} = {}
       /\ k.pc # "guardaBloques"
  BY <1>1, <1>5
<1> QED
  BY <1>1, <1>2, <1>3, <1>5, <1>10, <1>11, <1>12, <1>13, <1>14, TocaEnlaces

\* The link of deduplicacionBloque.
LEMMA EnlazaDuplicadoEnlazado ==
  ASSUME Enlazado, DestinosAjenos, Tipos', NEW w \in Workers, EnlazaDuplicado(w),
         aMedias' = aMedias
  PROVE  Enlazado'
<1> DEFINE h == hebra[w]
           d == Destino(h.p)
           s == h.bloques
           M == [s EXCEPT ![h.i + 1] = h.nuevo]
<1>1. h \in Hebra /\ EnObra(w) /\ hebra \in [Workers -> Hebra] /\ s \in Seq(Bloques)
      /\ Len(s) \in Nat /\ h.i \in Nat /\ Ubicada(h) /\ h.nuevo \in Bloques
      /\ h.pc = "enlazaDuplicado" /\ h.p.op = "COMMIT"
  BY Hechos, Labores, LenProperties DEF Enlazado, ObraBien, EnlazaDuplicado, En, EnObra
<1>2. UNCHANGED <<archivos, dirs, meta, aMedias>> /\ vivo' /\ enlaces' = ConEnlace(h.p.ft, h.i, h.nuevo)
  BY DEF EnlazaDuplicado, En
<1>3. d = h.p.ft
  BY <1>1 DEF Destino
<1>4. PICK k : /\ hebra' = [hebra EXCEPT ![w] = k]
               /\ k.p = h.p /\ k.pc = "stat" /\ k.bloques = M /\ k.i = h.i
  <2> DEFINE c == [pc |-> "stat", bloques |-> M]
  <2>1. hebra' = [hebra EXCEPT ![w] = Con(h, c)]
    BY DEF EnlazaDuplicado, Sigue
  <2>2. Con(h, c).p = h.p /\ Con(h, c).pc = "stat" /\ Con(h, c).bloques = M /\ Con(h, c).i = h.i
    BY <1>1, ConCampos
  <2> HIDE DEF c, h, M
  <2> QED
    BY <2>1, <2>2
<1>5. /\ h.i + 1 \in 1 .. Len(s)
      /\ M \in Seq(Bloques) /\ Len(M) = Len(s)
      /\ \A j \in 1 .. Len(s) : M[j] = IF j = h.i + 1 THEN h.nuevo ELSE s[j]
  <2>1. h.i + 1 \in 1 .. Len(s)
    BY <1>1 DEF Ubicada
  <2> HIDE DEF s, h
  <2> QED
    BY <1>1, <2>1, ExceptSeq
<1> HIDE DEF M
<1>6. ListaEnObra(h) = s /\ ListaEnObra(k) = M /\ Puestos(h) = Nat \ {h.i} /\ Puestos(k) = Nat
      /\ Ubicada(k) /\ ~MismaLista(k)
  BY <1>1, <1>4, <1>5 DEF ListaEnObra, Puestos, Ubicada, MismaLista
<1>7. Ajeno(d)
  BY <1>2, <1>3, AjenoAlEnlazar
<1>8. ASSUME d \in dirs, Enlazados(d, s, Nat \ {h.i}) PROVE \A ft : ft = d => Enlazados(ft, k.bloques, Nat)'
  <2>1. Tipos
    BY DEF Enlazado
  <2>2. h.i < Len(M) /\ M[h.i + 1] = h.nuevo /\ Len(M) \in Nat
    BY <1>1, <1>5
  <2>3. \A j \in 0 .. Len(M) - 1 : j # h.i /\ j < Len(s) => M[j + 1] = s[j + 1]
    BY <1>1, <1>5
  <2>4. \A j \in Nat : j # h.i => (j < Len(M) /\ j \in Nat <=> j < Len(s) /\ j \in Nat \ {h.i})
    BY <1>5
  <2>5. k.bloques = M
    BY <1>4
  <2>6. Completa(h.i, h.nuevo, s, Nat \ {h.i}, k.bloques, Nat)
    BY <1>1, <2>2, <2>3, <2>4, <2>5 DEF Completa
  <2> QED
    BY <1>2, <1>3, <1>8, <2>1, <2>6, AgregaEnlace
<1>9. {h.pc, k.pc} \cap {"espera", "candado", "verifica", "mkdirFile", "mkdirTag", "crearMeta",
                        "guardaMeta", "relee"} = {}
       /\ k.pc # "guardaBloques"
      /\ h.p.op # "TAG"
  BY <1>1, <1>4
<1>10. ListaEnObra(k) = k.bloques
  BY <1>4, <1>6
<1>11. \A ft : Enlazados(ft, k.bloques, Nat)' => Enlazados(ft, ListaEnObra(k), Puestos(k))'
  BY <1>6, <1>10
<1> QED
  BY <1>1, <1>2, <1>4, <1>6, <1>7, <1>8, <1>9, <1>11, TocaEnlaces

-----------------------------------------------------------------------------
(* Directories and metadata.                                               *)

\* What the invariant says of a thread that makes, saves or removes.
LEMMA DeLaObra ==
  ASSUME Enlazado, NEW w \in Workers, EnObra(w)
  PROVE  /\ hebra[w] \in Hebra /\ hebra \in [Workers -> Hebra] /\ Tipos
         /\ Destino(hebra[w].p) \in FileTags /\ hebra[w].p.ft \in FileTags
         /\ meta \in [FileTags -> Metadatos \cup {SinMeta}]
         /\ hebra[w].bloques \in Seq(Bloques) /\ Len(hebra[w].bloques) \in Nat
         /\ Ubicada(hebra[w]) /\ ObraBien(w)
         /\ \A ft \in dirs : ft[1] \in archivos
<1>1. Tipos /\ ObraBien(w)
  BY DEF Enlazado
<1> QED
  BY <1>1, Hechos, LenProperties DEF Enlazado, EnObra, ObraBien, Tipos, TypeOK

\* mkdir: the name of the file, or the directory of the tag.
LEMMA MkdirEnlazado ==
  ASSUME Enlazado, DestinosAjenos, Tipos', NEW w \in Workers, MkdirFile(w) \/ MkdirTag(w),
         aMedias' = aMedias
  PROVE  Enlazado'
<1> DEFINE h == hebra[w]
           d == Destino(h.p)
<1>1. EnObra(w) /\ h.pc \in {"mkdirFile", "mkdirTag"} /\ vivo' /\ UNCHANGED <<meta, enlaces>>
  BY DEF MkdirFile, MkdirTag, En, EnObra
<1>2. /\ h.pc = "mkdirFile" =>
           h.p.op = "CREATE" /\ archivos' = archivos \cup {d[1]} /\ UNCHANGED dirs
      /\ h.pc = "mkdirTag" =>
           h.p.op \in {"CREATE", "TAG"} /\ dirs' = dirs \cup {d} /\ UNCHANGED archivos
  BY <1>1, DeLaObra, Labores DEF MkdirFile, MkdirTag, En, Destino
<1>3. PICK k : /\ hebra' = [hebra EXCEPT ![w] = k] /\ k.p = h.p /\ k.bloques = h.bloques
               /\ h.pc = "mkdirFile" => k.pc = "mkdirTag"
               /\ h.pc = "mkdirTag" => k.pc = "crearMeta"
  <2>1. \A pc : Con(h, A(pc)).pc = pc /\ Con(h, A(pc)).p = h.p
                /\ Con(h, A(pc)).bloques = h.bloques
    BY <1>1, DeLaObra, ConCampos DEF A
  <2>2. CASE h.pc = "mkdirFile"
    <3>1. hebra' = [hebra EXCEPT ![w] = Con(h, A("mkdirTag"))]
      BY <2>2 DEF MkdirFile, MkdirTag, En, Sigue
    <3> HIDE DEF h
    <3> QED
      BY <2>1, <2>2, <3>1
  <2>3. CASE h.pc = "mkdirTag"
    <3>1. hebra' = [hebra EXCEPT ![w] = Con(h, A("crearMeta"))]
      BY <2>3 DEF MkdirFile, MkdirTag, En, Sigue
    <3> HIDE DEF h
    <3> QED
      BY <2>1, <2>3, <3>1
  <2> QED
    BY <1>1, <2>2, <2>3
<1>4. hebra'[w] = k /\ \A v \in Workers \ {w} : hebra'[v] = hebra[v]
  BY <1>1, <1>3, DeLaObra
<1>5. EnObra(w)' /\ h.p.op \in {"CREATE", "TAG"}
  BY <1>1, <1>2, <1>3, <1>4 DEF EnObra
<1>6. Ajeno(d)
  BY <1>1, <1>2 DEF Ajeno
<1>7. d[1] \in archivos' /\ \A ft \in dirs' : ft[1] \in archivos'
  BY <1>1, <1>2, DeLaObra DEF ObraBien
<1>8. Ubicada(k)
  BY <1>1, <1>2, <1>3 DEF Ubicada
<1>9. MismaLista(k) => MismaLista(h)
  BY <1>3, <1>5 DEF MismaLista
<1>10. ASSUME d \notin aMedias
       PROVE  \A ft : ft = d =>
                Enlazados(ft, ListaEnObra(k), Puestos(k))' /\ (ft \in dirs' <=> ~SinDir(k))
                /\ meta[ft] = SinMeta
  <2>1. Enlazados(d, ListaEnObra(h), Puestos(h)) /\ meta[d] = SinMeta /\ (d \in dirs <=> ~SinDir(h))
    BY <1>1, <1>10, DeLaObra DEF ObraBien, SinConf, SinDir
  <2>2. Puestos(h) = {} /\ Puestos(k) = {}
    BY <1>1, <1>2, <1>3 DEF Puestos
  <2>3. d \in dirs' <=> ~SinDir(k)
    BY <1>1, <1>2, <1>3, <2>1 DEF SinDir
  <2> QED
    BY <1>1, <2>1, <2>2, <2>3 DEF Enlazados
<1>11. ObraBien(w)'
  <2>1. ObraBien(w)
    BY <1>1, DeLaObra
  <2>2. k.pc = "crearMeta" => d \in dirs'
    BY <1>1, <1>2, <1>3
  <2>3. SinConf(k) /\ SinConf(h) /\ ConEstado(k, meta[d])' /\ Labrada(k, d)'
    BY <1>1, <1>3, <2>2 DEF SinConf, SinDir, ConEstado, Labrada
  <2> QED
    BY <1>1, <1>2, <1>3, <1>4, <1>5, <1>7, <1>8, <1>9, <1>10, <2>1, <2>2, <2>3 DEF ObraBien
<1> QED
  BY <1>1, <1>2, <1>3, <1>4, <1>5, <1>6, <1>7, <1>11, PasoEnlazado DEF EnObra

\* The fopen of crear_meta: the directory is there.
LEMMA CrearMetaEnlazado ==
  ASSUME Enlazado, DestinosAjenos, Tipos', NEW w \in Workers, CrearMeta(w), aMedias' = aMedias
  PROVE  Enlazado'
<1> DEFINE h == hebra[w]
           d == Destino(h.p)
<1>1. EnObra(w) /\ h.pc = "crearMeta" /\ vivo' /\ UNCHANGED <<archivos, dirs, enlaces>>
      /\ h.p.op \in {"CREATE", "TAG"}
  BY Labores DEF CrearMeta, En, EnObra, Enlazado
<1>2. d \in dirs /\ ObraBien(w) /\ d \in FileTags
  BY <1>1, DeLaObra DEF ObraBien, Labrada, SinDir
<1>3. meta' = [meta EXCEPT ![d] = Vacio] /\ Sigue(w, A("guardaMeta"))
  BY <1>2 DEF CrearMeta, ConMeta
<1>4. Ajeno(d)
  BY <1>1, <1>3, DeLaObra DEF Ajeno
<1>5. meta'[d] # SinMeta
  <2>1. Vacio \in Metadatos
    BY EmptySeq DEF Vacio, Meta, Metadatos, Estados
  <2> QED
    BY <1>1, <1>2, <1>3, <2>1, DeLaObra, StorageAssumption
<1>6. \A ft \in dirs' : ft[1] \in archivos'
  BY <1>1, DeLaObra
<1>7. PICK k : /\ hebra' = [hebra EXCEPT ![w] = k]
               /\ k.p = h.p /\ k.bloques = h.bloques /\ k.pc = "guardaMeta"
  <2>1. Con(h, A("guardaMeta")).p = h.p /\ Con(h, A("guardaMeta")).bloques = h.bloques
        /\ Con(h, A("guardaMeta")).pc = "guardaMeta"
    BY <1>1, DeLaObra, ConCampos DEF A
  <2>2. hebra' = [hebra EXCEPT ![w] = Con(h, A("guardaMeta"))]
    BY <1>3 DEF Sigue
  <2> HIDE DEF h
  <2> QED
    BY <2>1, <2>2
<1>8. hebra'[w] = k /\ \A v \in Workers \ {w} : hebra'[v] = hebra[v]
  BY <1>1, <1>7, DeLaObra
<1>9. EnObra(w)' /\ ~SinDir(h) /\ ~SinDir(k) /\ ~SinConf(k) /\ Ubicada(k)
  BY <1>1, <1>7, <1>8 DEF EnObra, SinDir, SinConf, Ubicada
<1>10. d \notin aMedias => \A ft : ft = d => Enlazados(ft, ListaEnObra(k), Puestos(k))'
  <2>1. Puestos(h) = {} /\ Puestos(k) = {}
    BY <1>1, <1>7 DEF Puestos
  <2> QED
    BY <1>1, <1>2, <2>1 DEF ObraBien, Enlazados
<1>11. MismaLista(k) => MismaLista(h) /\ h.p.ft # d /\ meta'[h.p.ft] = meta[h.p.ft]
  <2>1. MismaLista(k) => h.p.op = "TAG"
    BY <1>1, <1>7 DEF MismaLista
  <2> QED
    BY <1>1, <1>2, <1>3, <2>1, DeLaObra DEF ObraBien, MismaLista
<1>12. h.p.op = "TAG" => h.p.ft # d
  BY <1>1, <1>2 DEF ObraBien
<1>13. Labrada(k, d)' /\ ConEstado(k, meta[d])'
  BY <1>1, <1>2, <1>5, <1>7 DEF Labrada, ConEstado
<1>14. ObraBien(w)'
  BY <1>1, <1>2, <1>5, <1>7, <1>8, <1>9, <1>10, <1>11, <1>12, <1>13 DEF ObraBien
<1> QED
  BY <1>1, <1>4, <1>6, <1>7, <1>8, <1>9, <1>14, PasoEnlazado

\* The config_save of crear_meta: the metadata of a directory with no links.
LEMMA GuardaMetaEnlazado ==
  ASSUME Enlazado, DestinosAjenos, Tipos', NEW w \in Workers, GuardaMeta(w), aMedias' = aMedias
  PROVE  Enlazado'
<1> DEFINE h == hebra[w]
           d == Destino(h.p)
<1>1. EnObra(w) /\ h.pc = "guardaMeta" /\ vivo' /\ UNCHANGED <<archivos, dirs, enlaces>>
      /\ h.p.op \in {"CREATE", "TAG"} /\ TrasCrear(w)
  BY Labores DEF GuardaMeta, En, EnObra, Enlazado
<1>2. d \in dirs /\ ObraBien(w) /\ d \in FileTags
  BY <1>1, DeLaObra DEF ObraBien, Labrada, SinDir
<1>3. meta' = [meta EXCEPT ![d] = Meta("WORK_IN_PROGRESS", <<>>)]
  BY <1>2 DEF GuardaMeta, ConMeta
<1>4. Ajeno(d)
  BY <1>1, <1>3, DeLaObra DEF Ajeno
<1>5. Meta("WORK_IN_PROGRESS", <<>>) # SinMeta /\ meta'[d] = Meta("WORK_IN_PROGRESS", <<>>)
      /\ meta'[d].bloques = <<>> /\ meta'[d].estado # "NINGUNO"
  <2>1. <<>> \in Seq(Bloques)
    BY EmptySeq
  <2>2. Meta("WORK_IN_PROGRESS", <<>>) \in Metadatos
    BY <2>1 DEF Meta, Metadatos, Estados
  <2> QED
    BY <1>1, <1>2, <1>3, <2>2, DeLaObra, StorageAssumption DEF Meta
<1>6. d \notin aMedias => \A e \in enlaces : e.ft # d
  <2>1. Puestos(h) = {}
    BY <1>1 DEF Puestos
  <2> QED
    BY <1>1, <1>2, <2>1 DEF ObraBien, Enlazados
<1>7. \A ft \in dirs' : ft[1] \in archivos'
  BY <1>1, DeLaObra
<1>8. CASE h.p.op = "CREATE"
  <2>1. Responde(w)
    BY <1>1, <1>8 DEF TrasCrear
  <2>2. ASSUME NEW ft \in FileTags, ft = d, Reposa(ft)' PROVE EnReposo(ft)'
    <3>1. ft \notin aMedias
      BY <1>1, <2>2 DEF Reposa
    <3>2. Enlazados(ft, <<>>, Nat)'
      <4>1. 0 .. Len(<<>>) - 1 = {}
        OBVIOUS
      <4> QED
        BY <1>1, <1>6, <2>2, <3>1, <4>1 DEF Enlazados
    <3> QED
      BY <1>1, <1>2, <1>5, <2>2, <3>2 DEF EnReposo
  <2> QED
    BY <1>1, <1>4, <1>7, <2>1, <2>2, FinEnlazado
<1>9. CASE h.p.op = "TAG"
  <2> DEFINE c == IF h.bloques = <<>> THEN A("copiaMeta")
                  ELSE [pc |-> "enlaza", i |-> 0, nuevo |-> h.bloques[1]]
  <2>1. hebra' = [hebra EXCEPT ![w] = Con(h, c)]
    BY <1>1, <1>9 DEF TrasCrear, Sigue
  <2>2. /\ Con(h, c).p = h.p /\ Con(h, c).bloques = h.bloques
        /\ h.bloques = <<>> => Con(h, c).pc = "copiaMeta"
        /\ h.bloques # <<>> => /\ Con(h, c).pc = "enlaza" /\ Con(h, c).i = 0
                               /\ Con(h, c).nuevo = h.bloques[1]
    <3>1. h \in Hebra
      BY <1>1, DeLaObra
    <3>2. CASE h.bloques = <<>>
      BY <3>1, <3>2, ConCampos DEF A
    <3>3. CASE h.bloques # <<>>
      BY <3>1, <3>3, ConCampos
    <3> QED
      BY <3>2, <3>3
  <2>3. PICK k : /\ hebra' = [hebra EXCEPT ![w] = k]
                 /\ k.p = h.p /\ k.bloques = h.bloques
                 /\ h.bloques = <<>> => k.pc = "copiaMeta"
                 /\ h.bloques # <<>> => k.pc = "enlaza" /\ k.i = 0 /\ k.nuevo = h.bloques[1]
    <3> HIDE DEF c, h
    <3> QED
      BY <2>1, <2>2
  <2>4. hebra'[w] = k /\ \A v \in Workers \ {w} : hebra'[v] = hebra[v]
    BY <1>1, <2>3, DeLaObra
  <2>5. EnObra(w)' /\ ListaEnObra(k) = h.bloques /\ ~SinDir(k)
    BY <1>9, <2>3, <2>4 DEF EnObra, ListaEnObra, SinDir
  <2>6. Len(h.bloques) \in Nat /\ (h.bloques # <<>> => 0 < Len(h.bloques))
        /\ (h.bloques = <<>> => Len(h.bloques) = 0)
    BY <1>1, DeLaObra, EmptySeq
  <2>7. Ubicada(k)
    BY <1>9, <2>3, <2>6 DEF Ubicada
  <2>8. \A j \in Puestos(k) : ~(j < Len(h.bloques)) /\ j \in Nat
    BY <1>9, <2>3, <2>6 DEF Puestos
  <2>9. d \notin aMedias =>
          \A ft, s : ft = d /\ s = h.bloques => Enlazados(ft, s, Puestos(k))'
    <3>1. \A j \in 0 .. Len(h.bloques) - 1 : j \notin Puestos(k)
      BY <2>6, <2>8
    <3> HIDE DEF h
    <3> QED
      BY <1>1, <1>6, <3>1 DEF Enlazados
  <2>10. h.p.ft # d /\ meta'[h.p.ft] = meta[h.p.ft] /\ meta[h.p.ft].bloques = h.bloques
    BY <1>1, <1>2, <1>3, <1>9, DeLaObra DEF ObraBien, MismaLista
  <2>11. k.pc \in {"enlaza", "copiaMeta"}
    BY <2>3
  <2>12. \A ft : ft = d /\ ft \notin aMedias' => Enlazados(ft, ListaEnObra(k), Puestos(k))'
    BY <2>5, <2>9
  <2>13. /\ \A ft : ft = d => Labrada(k, ft)' /\ ConEstado(k, meta[ft])'
         /\ ~SinConf(k)
    BY <1>1, <1>2, <1>5, <2>11 DEF Labrada, ConEstado, SinDir, SinConf
  <2>14. ObraBien(w)'
    BY <1>1, <1>2, <1>5, <2>3, <2>4, <2>5, <2>7, <2>10, <2>11, <2>12, <2>13 DEF ObraBien
  <2> QED
    BY <1>1, <1>4, <1>7, <2>3, <2>4, <2>5, <2>14, PasoEnlazado
<1> QED
  BY <1>1, <1>8, <1>9

\* modificar_bloques_meta finds an ESTADO in the metadata it copies.
LEMMA CopiaMetaEnlazado ==
  ASSUME Enlazado, DestinosAjenos, Tipos', NEW w \in Workers, CopiaMeta(w), aMedias' = aMedias
  PROVE  Enlazado'
<1> DEFINE h == hebra[w]
           d == Destino(h.p)
           c == [pc |-> "guardaBloques", estado |-> meta[d].estado]
<1>1. EnObra(w) /\ h.pc = "copiaMeta" /\ vivo' /\ UNCHANGED <<archivos, dirs, meta, enlaces>>
      /\ h.p.op \in {"TRUNCATE", "TAG", "COMMIT", "WRITE"} /\ Sigue(w, c)
  BY Labores DEF CopiaMeta, En, EnObra, Enlazado, disco
<1>2. PICK k : /\ hebra' = [hebra EXCEPT ![w] = k]
               /\ k.p = h.p /\ k.bloques = h.bloques /\ k.i = h.i
               /\ k.pc = "guardaBloques" /\ k.estado = meta[d].estado
  <2>1. /\ Con(h, c).p = h.p /\ Con(h, c).bloques = h.bloques /\ Con(h, c).i = h.i
        /\ Con(h, c).pc = "guardaBloques" /\ Con(h, c).estado = meta[d].estado
    BY <1>1, DeLaObra, ConCampos
  <2>2. hebra' = [hebra EXCEPT ![w] = Con(h, c)]
    BY <1>1 DEF Sigue
  <2> HIDE DEF c, h
  <2> QED
    BY <2>1, <2>2
<1>3. Ubicada(k) /\ ListaEnObra(k) = ListaEnObra(h) /\ Puestos(k) = Puestos(h)
      /\ (MismaLista(k) => MismaLista(h))
  BY <1>1, <1>2, DeLaObra DEF Ubicada, ListaEnObra, Puestos, MismaLista
<1>4. Ajeno(d)
  BY <1>1 DEF Ajeno
<1>5. Enlazados(d, ListaEnObra(h), Puestos(h)) =>
        \A ft : ft = d => Enlazados(ft, ListaEnObra(k), Puestos(k))'
  BY <1>1, <1>3 DEF Enlazados
<1>6. {h.pc, k.pc} \cap {"espera", "candado", "verifica", "mkdirFile", "mkdirTag", "crearMeta",
                        "guardaMeta", "relee"} = {}
  BY <1>1, <1>2
<1> QED
  BY <1>1, <1>2, <1>3, <1>4, <1>5, <1>6, TocaEnlaces

\* The links a thread made are those of the list it saves.
LEMMA GuardaBloquesEnlazado ==
  ASSUME Enlazado, DestinosAjenos, Tipos', NEW w \in Workers, GuardaBloques(w), aMedias' = aMedias
  PROVE  Enlazado'
<1> DEFINE h == hebra[w]
           d == Destino(h.p)
<1>1. EnObra(w) /\ h.pc = "guardaBloques" /\ vivo' /\ UNCHANGED <<archivos, dirs, enlaces>>
      /\ h.p.op \in {"TRUNCATE", "TAG", "COMMIT", "WRITE"} /\ ~SinDir(h)
      /\ meta' = ConMeta(d, Meta(h.estado, h.bloques))
  BY Labores DEF GuardaBloques, En, EnObra, Enlazado, SinDir
<1>2. d \in dirs /\ meta' = [meta EXCEPT ![d] = Meta(h.estado, h.bloques)] /\ Ajeno(d)
  <2>1. d \in dirs
    BY <1>1, DeLaObra DEF ObraBien, Labrada
  <2> QED
    BY <1>1, <2>1, DeLaObra DEF Ajeno, ConMeta
<1>3. meta'[d].bloques = h.bloques /\ meta'[d] # SinMeta /\ meta'[d].estado = h.estado
  <2>1. Meta(h.estado, h.bloques) \in Metadatos /\ meta'[d] = Meta(h.estado, h.bloques)
    BY <1>1, <1>2, DeLaObra, Hechos, MetaTipo
  <2> QED
    BY <2>1, StorageAssumption DEF Meta
<1>4. ListaEnObra(h) = h.bloques /\ Puestos(h) = Nat
  BY <1>1 DEF ListaEnObra, Puestos
<1>5. d \notin aMedias =>
        Enlazados(d, h.bloques, Nat) /\ d \in dirs /\ h.estado # "NINGUNO"
  BY <1>1, <1>4, DeLaObra DEF ObraBien, ConEstado
<1>6. d \notin aMedias => \A ft, s : ft = d /\ s = h.bloques => Enlazados(ft, s, Nat)'
  BY <1>1, <1>5 DEF Enlazados
<1>7. \A ft \in dirs' : ft[1] \in archivos'
  BY <1>1, DeLaObra
<1>8. CASE h.p.op # "WRITE"
  <2>1. Responde(w)
    BY <1>8 DEF GuardaBloques
  <2>2. ASSUME NEW ft \in FileTags, ft = d, Reposa(ft)' PROVE EnReposo(ft)'
    <3>1. ft \notin aMedias
      BY <1>1, <2>2 DEF Reposa
    <3> QED
      BY <1>1, <1>3, <1>5, <1>6, <2>2, <3>1 DEF EnReposo
  <2> QED
    BY <1>1, <1>2, <1>7, <2>1, <2>2, FinEnlazado
<1>9. CASE h.p.op = "WRITE"
  <2>1. Con(h, A("marca")).pc = "marca" /\ Con(h, A("marca")).p = h.p
        /\ Con(h, A("marca")).bloques = h.bloques /\ Con(h, A("marca")).i = h.i
    BY <1>1, DeLaObra, ConCampos DEF A
  <2>2. hebra' = [hebra EXCEPT ![w] = Con(h, A("marca"))]
    BY <1>9 DEF GuardaBloques, Sigue
  <2>3. PICK k : /\ hebra' = [hebra EXCEPT ![w] = k]
                 /\ k.pc = "marca" /\ k.p = h.p /\ k.bloques = h.bloques /\ k.i = h.i
    <3> HIDE DEF h
    <3> QED
      BY <2>1, <2>2
  <2>4. hebra'[w] = k /\ \A v \in Workers \ {w} : hebra'[v] = hebra[v]
    BY <1>1, <2>3, DeLaObra
  <2>5. EnObra(w)' /\ ListaEnObra(k) = h.bloques /\ ~SinDir(k) /\ Puestos(k) = Nat
    BY <1>9, <2>3, <2>4 DEF EnObra, ListaEnObra, SinDir, Puestos
  <2>6. Ubicada(k)
    BY <1>1, <1>9, <2>3, DeLaObra DEF Ubicada
  <2>7. d = h.p.ft
    BY <1>9 DEF Destino
  <2>8. \A ft : ft = d /\ ft \notin aMedias' => Enlazados(ft, ListaEnObra(k), Puestos(k))'
    BY <1>6, <2>5
  <2>9. ObraBien(w)'
    <3>1. Destino(k.p) = d /\ k.p.op = "WRITE" /\ meta'[k.p.ft].bloques = k.bloques
          /\ k.pc # "mkdirTag" /\ ~SinConf(k)
      BY <1>3, <1>9, <2>3, <2>7 DEF SinConf, SinDir
    <3>2. Destino(k.p) \notin aMedias' => Enlazados(Destino(k.p), ListaEnObra(k), Puestos(k))'
      BY <2>8, <3>1
    <3>3. Destino(k.p) \notin aMedias' => Destino(k.p) \in dirs'
      BY <1>1, <1>5, <3>1
    <3>4. Labrada(k, Destino(k.p))'
      BY <1>1, <1>2, <2>3, <3>1 DEF Labrada
    <3>5. Destino(k.p) \notin aMedias' => ConEstado(k, meta[Destino(k.p)])'
      BY <1>1, <1>3, <1>5, <2>3, <3>1 DEF ConEstado
    <3> HIDE DEF d, h
    <3> QED
      BY <2>4, <2>5, <2>6, <3>1, <3>2, <3>3, <3>4, <3>5 DEF ObraBien
  <2> QED
    BY <1>1, <1>2, <1>7, <2>3, <2>4, <2>5, <2>9, PasoEnlazado
<1> QED
  BY <1>8, <1>9

\* A COMMIT changes the state and not the list.
LEMMA CommiteaEnlazado ==
  ASSUME Enlazado, DestinosAjenos, Tipos', NEW w \in Workers, Commitea(w), aMedias' = aMedias
  PROVE  Enlazado'
<1> DEFINE h == hebra[w]
           d == h.p.ft
<1>1. EnObra(w) /\ h.pc = "commitea" /\ vivo' /\ UNCHANGED <<archivos, dirs, enlaces>>
      /\ h.p.op = "COMMIT" /\ Destino(h.p) = d
  BY Labores DEF Commitea, En, EnObra, Enlazado, Destino
<1>2. CASE h.estado # "WORK_IN_PROGRESS"
  <2>1. Responde(w) /\ UNCHANGED meta
    BY <1>2 DEF Commitea
  <2> QED
    BY <2>1, QuietosEnlazado
<1>3. CASE h.estado = "WORK_IN_PROGRESS"
  <2> DEFINE m == Meta("COMMITED", h.bloques)
  <2>1. d \in dirs /\ ~SinDir(h)
    BY <1>1, DeLaObra DEF ObraBien, Labrada, SinDir
  <2>2. meta' = [meta EXCEPT ![d] = m] /\ hebra' = [hebra EXCEPT ![w] = Con(h, A("relee"))]
    BY <1>3, <2>1 DEF Commitea, Sigue, ConMeta
  <2>3. meta'[d].bloques = h.bloques /\ meta'[d].estado = "COMMITED"
    BY <1>1, <2>2, DeLaObra DEF Meta
  <2>4. PICK k : /\ hebra' = [hebra EXCEPT ![w] = k]
                 /\ k.pc = "relee" /\ k.p = h.p /\ k.bloques = h.bloques
    <3>1. Con(h, A("relee")).pc = "relee" /\ Con(h, A("relee")).p = h.p
          /\ Con(h, A("relee")).bloques = h.bloques
      BY <1>1, DeLaObra, ConCampos DEF A
    <3> HIDE DEF h
    <3> QED
      BY <2>2, <3>1
  <2>5. hebra'[w] = k /\ \A v \in Workers \ {w} : hebra'[v] = hebra[v]
    BY <1>1, <2>4, DeLaObra
  <2>6. EnObra(w)' /\ ListaEnObra(k) = h.bloques /\ ~SinDir(k) /\ Puestos(k) = Nat
        /\ ListaEnObra(h) = h.bloques /\ Puestos(h) = Nat
    BY <1>1, <2>4, <2>5 DEF EnObra, ListaEnObra, SinDir, Puestos
  <2>7. Ubicada(k)
    BY <1>1, <2>4 DEF Ubicada
  <2>8. d \notin aMedias => Enlazados(d, h.bloques, Nat)
    BY <1>1, <2>6, DeLaObra DEF ObraBien
  <2>9. d \notin aMedias => \A ft, s : ft = d /\ s = h.bloques => Enlazados(ft, s, Nat)'
    BY <1>1, <2>8 DEF Enlazados
  <2>10. \A ft : ft = d /\ ft \notin aMedias' => Enlazados(ft, ListaEnObra(k), Puestos(k))'
    BY <2>6, <2>9
  <2>11. Labrada(k, d)' /\ ConEstado(k, meta[d])' /\ ~SinConf(k)
    BY <1>1, <2>1, <2>3, <2>4 DEF Labrada, ConEstado, SinConf, SinDir
  <2>12. ObraBien(w)'
    BY <1>1, <2>1, <2>3, <2>4, <2>5, <2>6, <2>7, <2>10, <2>11 DEF ObraBien
  <2>13. Ajeno(d)
    BY <1>1, <2>2, DeLaObra DEF Ajeno
  <2>14. \A ft \in dirs' : ft[1] \in archivos'
    BY <1>1, DeLaObra
  <2> QED
    BY <1>1, <2>4, <2>5, <2>6, <2>12, <2>13, <2>14, PasoEnlazado
<1> QED
  BY <1>2, <1>3

\* The list a COMMIT reads again is the one it saved.
LEMMA ReleeSigue ==
  ASSUME Enlazado, NEW w \in Workers, Relee(w)
  PROVE  LET h == hebra[w] IN
         hebra' = [hebra EXCEPT ![w] = Con(h, Revisa(h.bloques, 0))]
<1> DEFINE h == hebra[w]
           j == [h EXCEPT !.bloques = meta[h.p.ft].bloques]
<1>1. EnObra(w) /\ h.pc = "relee" /\ h.p.op = "COMMIT"
  BY Labores DEF Relee, En, EnObra, Enlazado
<1>2. meta[h.p.ft].bloques = h.bloques
  BY <1>1, DeLaObra DEF ObraBien, MismaLista
<1>3. j = h
  BY <1>1, <1>2, DeLaObra DEF Hebra
<1> QED
  BY <1>2, <1>3 DEF Relee

\* So it goes on with the links it had.
LEMMA ReleeEnlazado ==
  ASSUME Enlazado, DestinosAjenos, Tipos', NEW w \in Workers, Relee(w), aMedias' = aMedias
  PROVE  Enlazado'
<1> DEFINE h == hebra[w]
           k == Con(h, Revisa(h.bloques, 0))
<1>1. EnObra(w) /\ h.pc = "relee" /\ h.p.op = "COMMIT" /\ vivo'
      /\ UNCHANGED <<archivos, dirs, meta, enlaces>>
  BY Labores DEF Relee, En, EnObra, Enlazado, disco
<1>3. h \in Hebra
  BY <1>1, DeLaObra
<1>4. hebra' = [hebra EXCEPT ![w] = k]
  BY ReleeSigue
<1>5. /\ k.p = h.p /\ k.bloques = h.bloques
      /\ k.pc = "copiaMeta" \/ (k.pc = "hash" /\ k.i = 0 /\ 0 < Len(h.bloques))
  <2>1. CASE 0 < Len(h.bloques)
    BY <1>3, <1>4, <2>1, ConCampos DEF Revisa
  <2>2. CASE ~(0 < Len(h.bloques))
    BY <1>3, <1>4, <2>2, ConCampos DEF Revisa, A
  <2> QED
    BY <2>1, <2>2
<1>6. k \in Hebra
  <2> HIDE DEF k
  <2>1. hebra' \in [Workers -> Hebra] /\ hebra'[w] = k
    BY <1>1, <1>4, DeLaObra DEF Tipos, TypeOK
  <2> QED
    BY <2>1
<1> HIDE DEF k
<1>7. Equivale(h, k)
  BY <1>1, <1>5 DEF Equivale, Ubicada, ListaEnObra, Puestos, MismaLista
<1> QED
  BY <1>1, <1>4, <1>6, <1>7, SinTocar

\* DELETE ends with no link left, so the directory goes with the metadata.
LEMMA BorraEnlazado ==
  ASSUME Enlazado, DestinosAjenos, Tipos', NEW w \in Workers, Borra(w), aMedias' = aMedias
  PROVE  Enlazado'
<1> DEFINE d == hebra[w].p.ft
<1>1. EnObra(w) /\ hebra[w].pc = "borra" /\ vivo' /\ UNCHANGED <<archivos, enlaces>>
      /\ hebra[w].p.op = "DELETE" /\ Destino(hebra[w].p) = d /\ Responde(w)
      /\ meta' = [meta EXCEPT ![d] = SinMeta] /\ dirs \ {d} \subseteq dirs' /\ dirs' \subseteq dirs
      /\ ((\A e \in enlaces : e.ft # d) => d \notin dirs')
  BY Labores DEF Borra, En, EnObra, Enlazado, Destino
<1>2. Ajeno(d)
  BY <1>1, DeLaObra DEF Ajeno
<1>3. d \notin aMedias => \A e \in enlaces : e.ft # d
  <2>1. Puestos(hebra[w]) = {}
    BY <1>1 DEF Puestos
  <2> QED
    BY <1>1, <2>1, DeLaObra DEF ObraBien, Enlazados
<1>4. meta'[d] = SinMeta
  BY <1>1, DeLaObra
<1>5. ASSUME NEW ft \in FileTags, ft = d, Reposa(ft)' PROVE EnReposo(ft)'
  <2>1. ft \notin aMedias
    BY <1>1, <1>5 DEF Reposa
  <2> QED
    BY <1>1, <1>3, <1>4, <1>5, <2>1 DEF EnReposo
<1>6. \A ft \in dirs' : ft[1] \in archivos'
  BY <1>1, DeLaObra
<1> QED
  BY <1>1, <1>2, <1>5, <1>6, FinEnlazado

-----------------------------------------------------------------------------
(* The invariant.                                                          *)

\* initial_file:BASE, with its one block.
LEMMA InitEnlazado == Init => Enlazado
<1> SUFFICES ASSUME Init PROVE Enlazado
  OBVIOUS
<1> USE DEF Init, InitDisco
<1>1. Tipos
  BY InitTipos
<1>2. Base \in FileTags /\ \A w \in Workers : ~EnObra(w)
  BY StorageAssumption DEF EnObra, Ociosa
<1>3. ASSUME NEW ft \in FileTags PROVE EnReposo(ft)
  <2>1. CASE ft = Base
    <3>1. meta[ft] = Meta("COMMITED", <<0>>)
      BY <1>2, <2>1
    <3>2. meta[ft] \in Metadatos
      <4>1. 0 \in Bloques
        BY StorageAssumption DEF Bloques
      <4>2. <<0>> \in Seq(Bloques)
        BY <4>1
      <4>3. "COMMITED" \in Estados
        BY DEF Estados
      <4>4. [estado |-> "COMMITED", bloques |-> <<0>>] \in Metadatos
        BY <4>2, <4>3 DEF Metadatos
      <4> QED
        BY <3>1, <4>4 DEF Meta
    <3>3. meta[ft] # SinMeta /\ ft \in dirs
      BY <1>2, <2>1, <3>2, StorageAssumption
    <3>4. meta[ft].bloques = <<0>> /\ meta[ft].estado # "NINGUNO"
      BY <3>1 DEF Meta
    <3>5. Enlazados(ft, <<0>>, Nat)
      BY <2>1 DEF Enlazados, Enlace
    <3> QED
      BY <3>3, <3>4, <3>5 DEF EnReposo
  <2>2. CASE ft # Base
    BY <2>2 DEF EnReposo, Enlace
  <2> QED
    BY <2>1, <2>2
<1> QED
  BY <1>1, <1>2, <1>3 DEF Enlazado, ObraBien, SoloAbortaLoAMedias

\* Every step keeps the invariant.
LEMMA NextEnlazado ==
  ASSUME DestinosAjenos, Enlazado, [Next]_vars
  PROVE  Enlazado'
<1>1. Tipos'
  BY NextTipos DEF Enlazado
<1>2. ASSUME NEW w \in Workers, Atiende(w), aMedias' = aMedias PROVE Enlazado'
  BY <1>1, <1>2, AtiendeEnlazado, AceptaEnlazado, AbortaEnlazado DEF Atiende
<1>3. ASSUME NEW w \in Workers, Operacion(w), aMedias' = aMedias PROVE Enlazado'
  <2>1. BuscaLibre(w) => Responde(w) \/ UNCHANGED mutex
    BY DEF BuscaLibre
  <2>2. CASE \/ MkdirFile(w) \/ MkdirTag(w) \/ CrearMeta(w) \/ GuardaMeta(w) \/ CopiaMeta(w)
             \/ GuardaBloques(w) \/ Commitea(w) \/ Relee(w) \/ Borra(w)
    BY <1>1, <1>3, <2>2, MkdirEnlazado, CrearMetaEnlazado, GuardaMetaEnlazado, CopiaMetaEnlazado,
       GuardaBloquesEnlazado, CommiteaEnlazado, ReleeEnlazado, BorraEnlazado
  <2>3. CASE Enlaza(w) \/ Desenlaza(w) \/ Reasigna(w) \/ EnlazaDuplicado(w)
    BY <1>1, <1>3, <2>3, EnlazaEnlazado, DesenlazaEnlazado, EnlazaDuplicadoEnlazado
  <2>4. CASE \/ Stat(w) \/ Libera(w) \/ CalculaHash(w) \/ QuitaHash(w) \/ BuscaHash(w)
             \/ GuardaHash(w) \/ VeNLink(w) \/ Escribe(w) \/ (BuscaLibre(w) /\ UNCHANGED mutex)
    BY <1>1, <1>3, <2>4, LocalesEnlazado
  <2>5. CASE EscribeEnSitio(w) \/ MarcaOcupado(w) \/ Lee(w) \/ (BuscaLibre(w) /\ Responde(w))
    BY <1>1, <1>3, <2>5, QuietosEnlazado
  <2> QED
    BY <1>3, <2>1, <2>2, <2>3, <2>4, <2>5 DEF Operacion
<1>4. CASE Reinicia
  BY <1>1, <1>4, ReiniciaEnlazado
<1>5. CASE UNCHANGED vars
  <2>1. UNCHANGED <<archivos, dirs, meta, enlaces, hebra, vivo, aMedias>>
    BY <1>5 DEF vars, disco
  <2>2. \A w \in Workers : ObraBien(w) => ObraBien(w)'
    BY <2>1 DEF ObraBien, EnObra, Enlazados, Labrada
  <2>3. \A ft \in FileTags : Reposa(ft)' => Reposa(ft)
    BY <2>1 DEF Reposa, EnObra
  <2>4. \A ft \in FileTags : EnReposo(ft) => EnReposo(ft)'
    BY <2>1 DEF EnReposo, Enlazados
  <2> QED
    BY <1>1, <2>1, <2>2, <2>3, <2>4 DEF Enlazado, SoloAbortaLoAMedias
<1> QED
  BY <1>2, <1>3, <1>4, <1>5 DEF Next

\* Enlazado is the inductive invariant of the links: besides what holds of a
\* file:tag at rest, it says of each operation which blocks of its list are
\* linked at every label.
THEOREM EnlazadoSiempre == ASSUME DestinosAjenos PROVE Spec => []Enlazado
<1>1. Init => Enlazado
  BY InitEnlazado
<1>2. Enlazado /\ [Next]_vars => Enlazado'
  BY NextEnlazado
<1> QED
  BY <1>1, <1>2, PTL DEF Spec

\* The links of a file:tag at rest, as a set.
LEMMA EnReposoEnlaces ==
  ASSUME Tipos, NEW ft \in FileTags, EnReposo(ft)
  PROVE  {e \in enlaces : e.ft = ft} =
           IF meta[ft] = SinMeta THEN {}
           ELSE {Enlace(ft, k - 1, meta[ft].bloques[k]) : k \in DOMAIN meta[ft].bloques}
<1>1. CASE meta[ft] = SinMeta
  BY <1>1 DEF EnReposo
<1>2. CASE meta[ft] # SinMeta
  <2> DEFINE s == meta[ft].bloques
  <2>1. s \in Seq(Bloques) /\ Enlazados(ft, s, Nat)
    BY <1>2 DEF EnReposo, Tipos, TypeOK, Metadatos, Estados
  <2>2. Len(s) \in Nat /\ DOMAIN s = 1 .. Len(s)
    BY <2>1, LenProperties
  <2> HIDE DEF s
  <2>3. ASSUME NEW e \in enlaces, e.ft = ft
        PROVE  \E k \in DOMAIN s : e = Enlace(ft, k - 1, s[k])
    <3>1. e.i \in Nat /\ e.i < Len(s) /\ e.b = s[e.i + 1] /\ e = Enlace(ft, e.i, e.b)
      BY <2>1, <2>3, EnlacesDeNat DEF Enlazados
    <3>2. e.i + 1 \in DOMAIN s /\ (e.i + 1) - 1 = e.i
      BY <2>2, <3>1
    <3> QED
      BY <3>1, <3>2
  <2>4. ASSUME NEW k \in DOMAIN s
        PROVE  Enlace(ft, k - 1, s[k]) \in enlaces /\ Enlace(ft, k - 1, s[k]).ft = ft
    <3>1. k - 1 \in 0 .. Len(s) - 1 /\ (k - 1) + 1 = k
      BY <2>2, <2>4
    <3> QED
      BY <2>1, <3>1 DEF Enlazados, Enlace
  <2>5. {e \in enlaces : e.ft = ft} = {Enlace(ft, k - 1, s[k]) : k \in DOMAIN s}
    BY <2>3, <2>4
  <2> QED
    BY <1>2, <2>5 DEF s
<1> QED
  BY <1>1, <1>2

\* At rest the links are exactly what the metadata lists, whatever was
\* truncated, shared, copied, deduplicated or left halfway elsewhere.
THEOREM EnlacesDeLaMetaSiempre == ASSUME DestinosAjenos PROVE Spec => []EnlacesDeLaMeta
<1>1. Enlazado => EnlacesDeLaMeta
  <2> SUFFICES ASSUME Enlazado, NEW ft \in FileTags \ aMedias,
                      \A w \in Workers : EnObra(w) => Destino(hebra[w].p) # ft
               PROVE  {e \in enlaces : e.ft = ft} =
                        IF meta[ft] = SinMeta THEN {}
                        ELSE {Enlace(ft, k - 1, meta[ft].bloques[k]) : k \in DOMAIN meta[ft].bloques}
    BY DEF EnlacesDeLaMeta
  <2>1. Tipos /\ ft \in FileTags /\ EnReposo(ft)
    BY DEF Enlazado, Reposa
  <2> QED
    BY <2>1, EnReposoEnlaces
<1> QED
  BY <1>1, EnlazadoSiempre, PTL

\* A live Storage never aborts on a missing metadata.config, except over a
\* file:tag that an earlier process left halfway: a request that passed the
\* checks of directories finds the metadata, and keeps it until it replies.
THEOREM SoloAbortaLoAMediasSiempre == ASSUME DestinosAjenos PROVE Spec => []SoloAbortaLoAMedias
<1>1. Enlazado => SoloAbortaLoAMedias
  BY DEF Enlazado
<1> QED
  BY <1>1, EnlazadoSiempre, PTL

=============================================================================
