SPECIFICATION Spec
CONSTANTS
  c1 = c1
  c2 = c2
  Nada = Nada
  Conexiones <- Una
  Pedibles <- DeArchivos
  Formato <- DosArchivos
  Nodos = 3
  Punteros = 1
  Celdas = 2
  TamBitmap = 1
  Bits = 9
  Reinicia = "nunca"
  TopeDirectorio = 2
  TopeTamanio = 3
INVARIANTS BloquesSinCompartir BitmapExacto LibresEnCero
PROPERTIES ImplementaArchivos
CHECK_DEADLOCK FALSE
