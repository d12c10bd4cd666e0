SPECIFICATION Spec
CONSTANTS
  w1 = w1
  w2 = w2
  cero = cero
  x = x
  y = y
  Workers = {w1, w2}
  FileTags <- UnArchivo
  Base <- MCBase
  NumBloques = 4
  Contenidos = {cero, x, y}
  Cero = cero
  Pedidos <- UnEscritor
  Reinicios = 0
  SinMeta = SinMeta
  Nadie = Nadie
CHECK_DEADLOCK FALSE
INVARIANTS
  IndiceVeraz
PROPERTIES
  ImplementaElArbol
