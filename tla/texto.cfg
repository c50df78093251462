SPECIFICATION Spec
CONSTANTS
  Tamanio = 4
  Copias = 3
  Largo = 9
  Textos <- TextosHasta
CHECK_DEADLOCK FALSE
INVARIANTS
  TroceadoCompleto
  RecuperadoIgual
  
