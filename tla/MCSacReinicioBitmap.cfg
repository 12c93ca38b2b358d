SPECIFICATION Spec
CONSTANTS
  c1 = c1
  c2 = c2
  Nada = Nada
  Conexiones <- Una
  Pedibles <- EscribeDos
  Formato <- DosArchivos
  Nodos = 3
  Punteros = 1
  Celdas = 2
  TamBitmap = 1
  Bits = 9
  Reinicia = "en reposo"
  TopeDirectorio = 2
  TopeTamanio = 3
PROPERTIES ContenidoAjeno
CHECK_DEADLOCK FALSE
