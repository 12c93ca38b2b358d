SPECIFICATION Spec
CONSTANTS
  c1 = c1
  c2 = c2
  Nada = Nada
  Conexiones <- Dos
  Pedibles <- DeLosDos
  Formato <- ConDirectorio
  Nodos = 5
  Punteros = 1
  Celdas = 2
  TamBitmap = 1
  Bits = 10
  Reinicia = "nunca"
  TopeDirectorio = 2
  TopeTamanio = 1
INVARIANTS RutasVivas
PROPERTIES ContenidoAjeno
CHECK_DEADLOCK FALSE
