SPECIFICATION Spec
CONSTANTS
  q1 = q1
  q2 = q2
  q3 = q3
  w1 = w1
  w2 = w2
  Ninguna = Ninguna
  Queries = {q1, q2}
  Workers = {w1, w2}
  Largo = 1
  Algoritmo = "FIFO"
  ConAging = FALSE
  MaxPrioridad = 0
  Pedidas = {0}
  HayErrores = FALSE
  WorkersInestables = {}
  QCInestables = {q1}
SYMMETRY SimetriaWorkers
CHECK_DEADLOCK FALSE
INVARIANTS
  TypeOK
  ReadyYExitEncuentran
  UnSoloEjecutor
