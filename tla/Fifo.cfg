SPECIFICATION Spec
CONSTANTS
  q1 = q1
  q2 = q2
  q3 = q3
  w1 = w1
  w2 = w2
  Ninguna = Ninguna
  Queries = {q1, q2, q3}
  Workers = {w1, w2}
  Largo = 2
  Algoritmo = "FIFO"
  ConAging = FALSE
  MaxPrioridad = 0
  Pedidas = {0}
  HayErrores = FALSE
  WorkersInestables = {}
  QCInestables = {}
SYMMETRY Simetria
CHECK_DEADLOCK FALSE
INVARIANTS
  UnSoloLugar
  ReadyYExitEncuentran
  WorkersEncuentran
  SeEnviaEjecucion
  RespuestaDeLaSuya
  NadieEsperaEnVano
  UsoTrasLiberarSoloEnExit
PROPERTIES
  CumpleElCiclo
