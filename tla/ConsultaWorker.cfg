SPECIFICATION Spec
CONSTANTS
  q1 = q1
  q2 = q2
  q3 = q3
  w1 = w1
  w2 = w2
  Ninguna = Ninguna
  Queries = {q1, q2}
  Workers = {w1, w2}
  Largo = 2
  Algoritmo = "PRIORIDADES"
  ConAging = FALSE
  MaxPrioridad = 1
  Pedidas = {0, 1}
  HayErrores = FALSE
  WorkersInestables = {}
  QCInestables = {}
SYMMETRY Simetria
CHECK_DEADLOCK FALSE
INVARIANTS
  ConsultaDaQuienEjecuta
