SPECIFICATION Spec
CONSTANTS
  w1 = w1
  w2 = w2
  cero = cero
  x = x
  y = y
  Workers = {w1}
  FileTags <- MCFileTags
  Base <- MCBase
  NumBloques = 3
  Contenidos = {cero, x}
  Cero = cero
  Pedidos <- TodoDeUno
  Reinicios = 1
  SinMeta = SinMeta
  Nadie = Nadie
CHECK_DEADLOCK FALSE
INVARIANTS
  TypeOK
  BitmapExacto
  EnlacesDeLaMeta
  SoloAbortaLoAMedias
