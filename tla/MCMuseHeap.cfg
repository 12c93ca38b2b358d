SPECIFICATION ProgramasSpec
CONSTANTS
  p1 = p1
  p2 = p2
  f1 = f1
  f2 = f2
  Programas = {p1, p2}
  Cuidadosos = {p1, p2}
  Repiten = {}
  TamPag = 8
  TamMeta = 2
  Paginas = 4
  Palabra = 256
  Tamanios <- UnHeap
  Archivos = {f2}
  Usa <- UnPrivado
  Largo <- UnaHoja
  LiberadasMax = 4
  Listas = 1
  Trozos = {}
  Valores = {}
  Nada = Nada
INVARIANTS SegmentosTypeOK LugarCierto SegmentosDisjuntos
PROPERTIES ImplementaAsignador
CHECK_DEADLOCK FALSE
