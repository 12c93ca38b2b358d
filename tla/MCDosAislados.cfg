CONSTANTS
  p1 = p1
  p2 = p2
  A = A
  B = B
  C = C
  Procs = {p1, p2}
  UltimoTid <- DosYUno
  Sems = {A, B}
  Nombres = {A, B, C}
  Nulo = Nulo
  Grado = 3
  SemInit <- DeUno
  SemMax <- DeUno
  TopeLocal = 2
  Usa <- UsaCadaUno
  Cerrojos = {A, B}
SPECIFICATION SpecJusta
CHECK_DEADLOCK FALSE
PROPERTIES
  SigueElDiagrama
  PedidoAtendido
