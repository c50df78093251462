SPECIFICATION Spec
CONSTANTS
  Hilo = {"m1", "m2", "m3", "r1", "r2", "t1", "t2", "s1", "s2", "s3", "g"}
  Job = {"j1", "j2"}
  Nombre = {"p1", "p2", "p3", "q1", "q2", "f1", "f2"}
  Guion = {"map", "red1", "red2"}
  Bloque = {0, 1}
  Dato = {"uno", "dos", "x", "y", "z"}
  Inicial <- MCInicial
  Nada = Nada
  Casos <- MCCasos
CHECK_DEADLOCK FALSE
INVARIANTS
  TypeOK
  EnteroSinTotales
  CadenaPropia
  BloqueEnSuLugar
  SeTrabanReduceYTotal
  
PROPERTIES
  RespuestaLlega
