SPECIFICATION SocketJusta
CONSTANTS
  Hilos = {h1}
  Nada = Nada
  Pide <- Pedibles
  TamPath = 3
  TamBuff = 2
  TamElem = 2
  Cants = {0, 2}
INVARIANTS PedidoEntero RespuestaPropia
PROPERTIES LlamadaTermina
CHECK_DEADLOCK FALSE
