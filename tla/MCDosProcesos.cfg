CONSTANTS
  p1 = p1
  p2 = p2
  A = A
  B = B
  C = C
  Procs = {p1, p2}
  UltimoTid <- DosYDos
  Sems = {A}
  Nombres = {A}
  Nulo = Nulo
  Grado = 2
  SemInit <- InicialA
  SemMax <- MaximoA
  TopeLocal = 2
  Usa <- UsanA
  Cerrojos = {}
SPECIFICATION Spec
CHECK_DEADLOCK FALSE
INVARIANTS
  ValorAcotado
  LocalLibre
  PunterosValidos
  NadieSePierde
