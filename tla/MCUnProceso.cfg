CONSTANTS
  p1 = p1
  p2 = p2
  A = A
  B = B
  C = C
  Procs = {p1}
  UltimoTid <- CuatroHilos
  Sems = {A, B}
  Nombres = {A, B}
  Nulo = Nulo
  Grado = 3
  SemInit <- InicialAB
  SemMax <- MaximoAB
  TopeLocal = 2
  Usa <- UsaAB
  Cerrojos = {A}
SPECIFICATION Spec
CHECK_DEADLOCK FALSE
INVARIANTS
  TypeOK
  ConservacionDelGrado
  SinLugarOcioso
  UnSoloLugar
  AcuerdoDeEjecucion
  BloqueadoConDespertador
  SemaforoCuadra
PROPERTIES
  JoinRegistrado
  SigueElDiagrama
  EsSemaforo
