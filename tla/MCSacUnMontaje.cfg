SPECIFICATION Spec
CONSTANTS
  c1 = c1
  c2 = c2
  Nada = Nada
  Conexiones <- Una
  Pedibles <- DelArbol
  Formato <- Formateado
  Nodos = 5
  Punteros = 1
  Celdas = 1
  TamBitmap = 1
  Bits = 8
  Reinicia = "en reposo"
  TopeDirectorio = 2
  TopeTamanio = 0
INVARIANTS SacTypeOK Encuentra
PROPERTIES ImplementaArbol
