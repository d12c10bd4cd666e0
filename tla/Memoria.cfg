SPECIFICATION FairDesalojo
CONSTANTS
  a = a
  b = b
  c = c
  o = o
  x = x
  y = y
  w1 = w1
  w2 = w2
  FileTags = {a, b, c}
  Base = b
  NoHay = NoHay
  SizeBlock = 2
  CantMarcos = 2
  Bytes = {o, x, y}
  ByteCero = o
  ArbolInicial <- MCArbol
  Algoritmos = {"LRU", "CLOCK-M"}
  Guiones <- MCGuiones
  Workers = {w1, w2}
  Destinos <- MCDestinos
CHECK_DEADLOCK FALSE
INVARIANTS
  TypeOK
  MarcosCoherentes
  TablaGlobalExacta
  AjenasFieles
  LecturaFiel
  EscritoPersiste
PROPERTIES
  FlushPersiste
  TodaInstruccionTermina
