SPECIFICATION ProgramasJusta
CONSTANTS
  p1 = p1
  p2 = p2
  f1 = f1
  f2 = f2
  Programas = {p1, p2}
  Cuidadosos = {}
  Repiten = {p1, p2}
  TamPag = 2
  TamMeta = 1
  Paginas = 6
  Palabra = 256
  Tamanios <- SinBloques
  Archivos = {f1}
  Usa <- DosMapean
  Largo <- DosHojas
  LiberadasMax = 0
  Listas = 2
  Trozos = {}
  Valores = {}
  Nada = Nada
PROPERTIES PedidoRespondido
CHECK_DEADLOCK FALSE
