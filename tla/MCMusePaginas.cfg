SPECIFICATION MuseSpec
CONSTANTS
  Programas = {p1}
  Marcos = 2
  Ranuras = 1
  PagsMax = 3
  SegsMax = 2
  Altas <- AltasDeUno
  Valores = {v1, v2}
  Archivo = v1
  Nada = nada
INVARIANTS
  MuseTypeOK
  UnDueno
  SinPerdidas
  SinNulos
PROPERTIES
  ImplementaPaginas
CHECK_DEADLOCK FALSE
